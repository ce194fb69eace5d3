-------------------------- MODULE CollectorProofs --------------------------
(***************************************************************************)
(* The collector is type-correct, tears down in a safe order, implements   *)
(* the stream that it promises to each probe (ProbeStream), keeps every    *)
(* packet in one place, and gives the records of a probe to Kafka in       *)
(* order: for any number of probes, listeners, workers and packets.        *)
(***************************************************************************)
EXTENDS Collector, FiniteSetTheorems, TLAPS

\* Packet p comes from a source in S and names a datagram of streams arr.
Known(p, S, arr) == p.src \in S /\ p.n \in 1..Len(arr[p.src])

\* Every packet on its way names a datagram that arrived; what goes to the
\* workers comes from configured sensors.
InFlight ==
  /\ \A l \in Listeners : \A i \in DOMAIN sock[l] : Known(sock[l][i], Sources, arrived)
  /\ \A l \in Listeners : lpc[l] = "push" =>
       qpacket[l] \in Packets /\ Known(qpacket[l], Sensors, arrived)
  /\ \A w \in Workers : \A i \in DOMAIN queue[w] : Known(queue[w][i], Sensors, arrived)
  /\ \A w \in Workers : wpc[w] \in {"dissect", "send"} =>
       packet[w] \in Packets /\ Known(packet[w], Sensors, arrived)

\* Where the main thread is tells which workers it has freed.
MainInv ==
  /\ mpc \in {"listeners", "workers", "sensors", "init", "loop"} => next = 0
  /\ mpc \in {"stop", "join"} => next < NumWorkers
  /\ mpc \in {"flush", "free"} => next = NumWorkers
  /\ \A w \in Workers : freed[w] <=> w < next
  /\ \A w \in Workers : freed[w] => wpc[w] = "exit"
  /\ kafka = "destroyed" =>
       mpc \in {"free", "exited"} /\ next = NumWorkers /\ outq = <<>>
  /\ mpc = "free" => kafka = "destroyed"
  /\ db = "freed" => kafka = "destroyed"

\* The inductive invariant.
IInv == TypeOK /\ InFlight /\ MainInv

\* There is a worker 0, and the workers are numbered up to NumWorkers - 1.
LEMMA WorkersType == NumWorkers \in Nat \ {0} /\ 0 \in Workers
                       /\ \A w \in Workers : w \in Nat /\ w < NumWorkers
  BY CollectorAssumption DEF Workers

\* A configured sensor is bound to an existing worker.
LEMMA BoundWorker == ASSUME NEW s \in Sensors PROVE worker_idx(s) \in Workers
<1> DEFINE i == CHOOSE i \in DOMAIN Probes : Probes[i] = s
<1>1. i \in DOMAIN Probes
  BY DEF Sensors
<1>2. i \in 1..Len(Probes) /\ Len(Probes) \in Nat
  BY <1>1, CollectorAssumption
<1>3. i - 1 \in Nat
  BY <1>2
<1> HIDE DEF i
<1>4. (i - 1) % NumWorkers \in 0..(NumWorkers - 1)
  BY <1>3, CollectorAssumption
<1> QED
  BY <1>4 DEF worker_idx, Workers, i

\* The elements of a sequence after an element was taken off its front.
LEMMA TailFacts ==
  ASSUME NEW S, NEW q \in Seq(S), q # <<>>
  PROVE  /\ 1 \in DOMAIN q /\ Head(q) = q[1] /\ Head(q) \in S
         /\ Tail(q) \in Seq(S)
         /\ \A i \in DOMAIN Tail(q) : i + 1 \in DOMAIN q /\ Tail(q)[i] = q[i + 1]
  OBVIOUS

\* The elements of a sequence after an element was put at its end.
LEMMA AppendFacts ==
  ASSUME NEW S, NEW q \in Seq(S), NEW e \in S
  PROVE  /\ Append(q, e) \in Seq(S)
         /\ \A i \in DOMAIN Append(q, e) :
              Append(q, e)[i] = e \/ (i \in DOMAIN q /\ Append(q, e)[i] = q[i])
  OBVIOUS

\* The invariant holds when the process starts.
LEMMA InitInv == Init => IInv
<1> SUFFICES ASSUME Init PROVE IInv
  OBVIOUS
<1>1. MainType
  <2>1. next \in 0..NumWorkers
    BY CollectorAssumption DEF Init
  <2> QED
    BY <2>1, Zenon DEF Init, MainType
<1>2. ListenType
  BY DEF Init, ListenType
<1>3. WorkType
  BY DEF Init, WorkType
<1>4. OutType
  BY CollectorAssumption DEF Init, OutType
<1>5. InFlight
  BY DEF Init, InFlight
<1>6. MainInv
  BY WorkersType DEF Init, MainInv
<1> QED
  BY <1>1, <1>2, <1>3, <1>4, <1>5, <1>6 DEF IInv, TypeOK

-----------------------------------------------------------------------------
(* The network and the listeners.                                          *)

\* A datagram that arrives makes the packets before it no less known.
LEMMA ArriveInv ==
  ASSUME IInv, NEW s \in Sources, NEW c \in Stream!Contents, Arrive(s, c)
  PROVE  IInv'
<1> DEFINE l == PortOf[s]
           p == [src |-> s, n |-> Len(arrived[s]) + 1]
<1>0. /\ sent < MaxPkts /\ sent' = sent + 1
      /\ arrived' = [arrived EXCEPT ![s] = Append(arrived[s], c)]
      /\ sock' = [sock EXCEPT ![l] = Append(sock[l], p)]
      /\ UNCHANGED <<mpc, next, up, shutdown, db, kafka, lpc, qpacket, queue,
                     wpc, packet, run, freed, tmpl, outq, crashed, verdict,
                     produced, lost>>
  BY DEF Arrive, mainVars, workVars
<1>1. l \in Listeners
  BY CollectorAssumption
<1>2. arrived[s] \in Seq(Stream!Contents) /\ Len(arrived[s]) \in Nat
  BY DEF IInv, TypeOK, OutType
<1>3. p \in Packets
  BY <1>2 DEF Packets
<1>4. sock[l] \in Seq(Packets)
  BY <1>1 DEF IInv, TypeOK, ListenType
<1> HIDE DEF l, p
<1>5. MainType'
  BY <1>0 DEF IInv, TypeOK, MainType
<1>6. ListenType'
  BY <1>0, <1>1, <1>3, <1>4 DEF IInv, TypeOK, ListenType
<1>7. WorkType'
  BY <1>0 DEF IInv, TypeOK, WorkType
<1>8. OutType'
  BY <1>0, <1>2, CollectorAssumption DEF IInv, TypeOK, OutType
<1>9. ASSUME NEW q, NEW S, S \subseteq Sources, Known(q, S, arrived)
      PROVE  Known(q, S, arrived')
  <2>1. q.src \in Sources /\ arrived \in [Sources -> Seq(Stream!Contents)]
    BY <1>9 DEF Known, IInv, TypeOK, OutType
  <2>2. Len(arrived'[q.src]) >= Len(arrived[q.src])
        /\ Len(arrived'[q.src]) \in Nat /\ Len(arrived[q.src]) \in Nat
    BY <1>0, <1>2, <2>1
  <2> QED
    BY <1>9, <2>2 DEF Known
<1>10. InFlight'
  <2>1. Known(p, Sources, arrived')
    <3>1. Len(arrived'[s]) = Len(arrived[s]) + 1
      BY <1>0, <1>2 DEF IInv, TypeOK, OutType
    <3>2. p.src = s /\ p.n = Len(arrived[s]) + 1
      BY DEF p
    <3> QED
      BY <1>2, <3>1, <3>2 DEF Known
  <2>2. Sensors \subseteq Sources
    BY DEF Sources
  <2>3. ASSUME NEW k \in Listeners, NEW i \in DOMAIN sock'[k]
        PROVE  Known(sock'[k][i], Sources, arrived')
    <3>1. sock'[k][i] = p \/ (i \in DOMAIN sock[k] /\ sock'[k][i] = sock[k][i])
      BY <1>0, <1>1, <1>3, <1>4 DEF IInv, TypeOK, ListenType
    <3> QED
      BY <3>1, <2>1, <1>9 DEF IInv, InFlight
  <2>4. ASSUME NEW k \in Listeners, lpc[k] = "push"
        PROVE  qpacket[k] \in Packets /\ Known(qpacket[k], Sensors, arrived')
    BY <1>9, <2>2, <2>4 DEF IInv, InFlight
  <2>5. ASSUME NEW w \in Workers, NEW i \in DOMAIN queue[w]
        PROVE  Known(queue[w][i], Sensors, arrived')
    BY <1>9, <2>2 DEF IInv, InFlight
  <2>6. ASSUME NEW w \in Workers, wpc[w] \in {"dissect", "send"}
        PROVE  packet[w] \in Packets /\ Known(packet[w], Sensors, arrived')
    BY <1>9, <2>2, <2>6 DEF IInv, InFlight
  <2> QED
    BY <1>0, <2>3, <2>4, <2>5, <2>6 DEF InFlight
<1>11. MainInv'
  BY <1>0 DEF IInv, MainInv
<1> QED
  BY <1>5, <1>6, <1>7, <1>8, <1>10, <1>11 DEF IInv, TypeOK

\* A listener that tests the flag moves on.
LEMMA ListenerCheckInv ==
  ASSUME IInv, NEW l \in Listeners, ListenerCheck(l) PROVE IInv'
<1>0. /\ lpc' = [lpc EXCEPT ![l] = IF shutdown THEN "end" ELSE "recv"]
      /\ UNCHANGED <<mpc, next, up, shutdown, db, kafka, sock, qpacket, queue,
                     wpc, packet, run, freed, tmpl, outq, crashed, sent,
                     arrived, verdict, produced, lost>>
  BY DEF ListenerCheck, mainVars, workVars, history
<1>1. MainType' /\ WorkType' /\ OutType' /\ MainInv'
  BY <1>0 DEF IInv, TypeOK, MainType, WorkType, OutType, MainInv
<1>2. ListenType'
  BY <1>0 DEF IInv, TypeOK, ListenType
<1>3. InFlight'
  BY <1>0 DEF IInv, TypeOK, ListenType, InFlight
<1> QED
  BY <1>1, <1>2, <1>3 DEF IInv, TypeOK

\* A listener takes a packet out of its socket; it keeps only one of a sensor.
LEMMA ListenerRecvInv ==
  ASSUME IInv, NEW l \in Listeners, ListenerRecv(l) PROVE IInv'
<1> DEFINE p == Head(sock[l])
<1>0. /\ sock[l] # <<>>
      /\ sock' = [sock EXCEPT ![l] = Tail(sock[l])]
      /\ UNCHANGED <<mpc, next, up, shutdown, db, kafka, queue, wpc, packet,
                     run, freed, tmpl, outq, sent, arrived, verdict, produced>>
  BY DEF ListenerRecv, mainVars, workVars
<1>1. \/ /\ p.src \in Sensors
         /\ qpacket' = [qpacket EXCEPT ![l] = p]
         /\ lpc' = [lpc EXCEPT ![l] = "push"]
         /\ UNCHANGED <<crashed, lost>>
      \/ /\ lpc' = [lpc EXCEPT ![l] = "check"]
         /\ lost' \in {lost, lost \cup {p}}
         /\ UNCHANGED <<crashed, qpacket>>
      \/ /\ crashed' = TRUE
         /\ lost' = lost \cup {p}
         /\ UNCHANGED <<lpc, qpacket>>
  BY DEF ListenerRecv
<1>2. sock[l] \in Seq(Packets)
  BY DEF IInv, TypeOK, ListenType
<1>3. /\ p \in Packets /\ Tail(sock[l]) \in Seq(Packets)
      /\ Known(p, Sources, arrived)
      /\ \A i \in DOMAIN Tail(sock[l]) : Known(Tail(sock[l])[i], Sources, arrived)
  BY <1>0, <1>2, TailFacts DEF IInv, InFlight
<1>4. p.src \in Sensors => Known(p, Sensors, arrived)
  BY <1>3 DEF Known
<1> HIDE DEF p
<1>5. MainType'
  <2>1. crashed' \in BOOLEAN
    BY <1>1 DEF IInv, TypeOK, MainType
  <2> QED
    BY <1>0, <2>1 DEF IInv, TypeOK, MainType
<1>6. WorkType' /\ MainInv'
  BY <1>0 DEF IInv, TypeOK, WorkType, MainInv
<1>7. ListenType'
  BY <1>0, <1>1, <1>3 DEF IInv, TypeOK, ListenType
<1>8. OutType'
  <2>1. lost' \in SUBSET Packets
    BY <1>1, <1>3 DEF IInv, TypeOK, OutType
  <2> QED
    BY <1>0, <2>1 DEF IInv, TypeOK, OutType
<1>9. InFlight'
  <2>1. \A k \in Listeners : \A i \in DOMAIN sock'[k] : Known(sock'[k][i], Sources, arrived)
    BY <1>0, <1>3 DEF IInv, TypeOK, ListenType, InFlight
  <2>2. \A k \in Listeners : lpc'[k] = "push" =>
          qpacket'[k] \in Packets /\ Known(qpacket'[k], Sensors, arrived)
    BY <1>1, <1>3, <1>4 DEF IInv, TypeOK, ListenType, InFlight
  <2> QED
    BY <1>0, <2>1, <2>2 DEF IInv, InFlight
<1> QED
  BY <1>5, <1>6, <1>7, <1>8, <1>9 DEF IInv, TypeOK

\* A listener hands the packet to the worker of its sensor.
LEMMA ListenerPushInv ==
  ASSUME IInv, NEW l \in Listeners, ListenerPush(l) PROVE IInv'
<1> DEFINE p == qpacket[l]
           w == worker_idx(p.src)
<1>0. /\ lpc[l] = "push"
      /\ qpacket' = [qpacket EXCEPT ![l] = NoPacket]
      /\ lpc' = [lpc EXCEPT ![l] = "check"]
      /\ UNCHANGED <<mpc, next, up, shutdown, db, kafka, sock, wpc, packet,
                     run, freed, tmpl, outq, sent, arrived, verdict, produced>>
  BY DEF ListenerPush, mainVars, workVars
<1>1. \/ /\ queue' = [queue EXCEPT ![w] = Append(queue[w], p)]
         /\ UNCHANGED <<lost, crashed>>
      \/ /\ lost' = lost \cup {p}
         /\ crashed' \in BOOLEAN
         /\ UNCHANGED queue
  BY DEF ListenerPush
<1>2. p \in Packets /\ Known(p, Sensors, arrived) /\ w \in Workers
  BY <1>0, BoundWorker DEF IInv, InFlight, Known
<1> HIDE DEF p, w
<1>3. /\ queue[w] \in Seq(Packets) /\ Append(queue[w], p) \in Seq(Packets)
      /\ \A i \in DOMAIN Append(queue[w], p) : Known(Append(queue[w], p)[i], Sensors, arrived)
  BY <1>2, AppendFacts DEF IInv, TypeOK, WorkType, InFlight
<1>5. MainType'
  <2>1. crashed' \in BOOLEAN
    BY <1>1 DEF IInv, TypeOK, MainType
  <2> QED
    BY <1>0, <2>1 DEF IInv, TypeOK, MainType
<1>6. MainInv'
  BY <1>0 DEF IInv, MainInv
<1>7. ListenType'
  BY <1>0 DEF IInv, TypeOK, ListenType
<1>8. WorkType'
  <2>1. queue' \in [Workers -> Seq(Packets)]
    BY <1>1, <1>2, <1>3 DEF IInv, TypeOK, WorkType
  <2> QED
    BY <1>0, <2>1 DEF IInv, TypeOK, WorkType
<1>9. OutType'
  <2>1. lost' \in SUBSET Packets
    BY <1>1, <1>2 DEF IInv, TypeOK, OutType
  <2> QED
    BY <1>0, <2>1 DEF IInv, TypeOK, OutType
<1>10. InFlight'
  <2>1. \A v \in Workers : \A i \in DOMAIN queue'[v] : Known(queue'[v][i], Sensors, arrived)
    BY <1>1, <1>2, <1>3 DEF IInv, TypeOK, WorkType, InFlight
  <2>2. \A k \in Listeners : lpc'[k] = "push" =>
          qpacket'[k] \in Packets /\ Known(qpacket'[k], Sensors, arrived)
    BY <1>0 DEF IInv, TypeOK, ListenType, InFlight
  <2> QED
    BY <1>0, <2>1, <2>2 DEF IInv, InFlight
<1> QED
  BY <1>5, <1>6, <1>7, <1>8, <1>9, <1>10 DEF IInv, TypeOK

-----------------------------------------------------------------------------
(* The workers.                                                            *)

\* A worker takes the oldest packet of its queue.
LEMMA WorkerPopInv ==
  ASSUME IInv, NEW w \in Workers, WorkerPop(w) PROVE IInv'
<1> DEFINE p == Head(queue[w])
<1>0. /\ wpc[w] = "pop" /\ queue[w] # <<>>
      /\ packet' = [packet EXCEPT ![w] = p]
      /\ queue' = [queue EXCEPT ![w] = Tail(queue[w])]
      /\ wpc' = [wpc EXCEPT ![w] = "dissect"]
      /\ UNCHANGED <<mpc, next, up, shutdown, db, kafka, sock, lpc, qpacket,
                     run, freed, tmpl, outq, crashed, sent, arrived, verdict,
                     produced, lost>>
  BY DEF WorkerPop, mainVars, listenVars, history
<1>1. queue[w] \in Seq(Packets)
  BY DEF IInv, TypeOK, WorkType
<1>2. /\ p \in Packets /\ Tail(queue[w]) \in Seq(Packets)
      /\ Known(p, Sensors, arrived)
      /\ \A i \in DOMAIN Tail(queue[w]) : Known(Tail(queue[w])[i], Sensors, arrived)
  BY <1>0, <1>1, TailFacts DEF IInv, InFlight
<1> HIDE DEF p
<1>3. MainType' /\ ListenType' /\ OutType'
  BY <1>0 DEF IInv, TypeOK, MainType, ListenType, OutType
<1>4. WorkType'
  BY <1>0, <1>2 DEF IInv, TypeOK, WorkType
<1>5. InFlight'
  BY <1>0, <1>2 DEF IInv, TypeOK, WorkType, InFlight
<1>6. MainInv'
  BY <1>0 DEF IInv, TypeOK, WorkType, MainInv
<1> QED
  BY <1>3, <1>4, <1>5, <1>6 DEF IInv, TypeOK

\* A worker that found its queue empty, or tested its flag, only moves on.
LEMMA WorkerIdleInv ==
  ASSUME IInv, NEW w \in Workers, WorkerTimeout(w) \/ WorkerCheckRun(w)
  PROVE  IInv'
<1>0. /\ wpc[w] \in {"pop", "null"}
      /\ \E pc \in {"null", "pop", "exit"} : wpc' = [wpc EXCEPT ![w] = pc]
      /\ UNCHANGED <<mpc, next, up, shutdown, db, kafka, sock, lpc, qpacket,
                     queue, packet, run, freed, tmpl, outq, crashed, sent,
                     arrived, verdict, produced, lost>>
  BY DEF WorkerTimeout, WorkerCheckRun, mainVars, listenVars, history
<1>1. PICK pc \in {"null", "pop", "exit"} : wpc' = [wpc EXCEPT ![w] = pc]
  BY <1>0
<1>2. MainType' /\ ListenType' /\ OutType'
  BY <1>0 DEF IInv, TypeOK, MainType, ListenType, OutType
<1>3. WorkType'
  BY <1>0, <1>1 DEF IInv, TypeOK, WorkType
<1>4. InFlight'
  BY <1>0, <1>1 DEF IInv, TypeOK, WorkType, InFlight
<1>5. MainInv'
  BY <1>0, <1>1 DEF IInv, TypeOK, WorkType, MainInv
<1> QED
  BY <1>2, <1>3, <1>4, <1>5 DEF IInv, TypeOK

\* A worker dissects a packet: the stream of its probe gets one more verdict.
LEMMA WorkerDissectInv ==
  ASSUME IInv, NEW w \in Workers, WorkerDissect(w) PROVE IInv'
<1> DEFINE s == packet[w].src
           c == arrived[s][packet[w].n]
           v == CASE c.kind = "template" -> "learned"
                  [] c.kind = "data" -> IF c.kind = "data" /\ c.tid \in tmpl[s]
                                        THEN "decoded" ELSE "unknown"
                  [] c.kind = "other" -> "ignored"
<1>0. /\ wpc[w] = "dissect"
      /\ tmpl' = IF c.kind = "template"
                 THEN [tmpl EXCEPT ![s] = tmpl[s] \cup {c.tid}] ELSE tmpl
      /\ verdict' = [verdict EXCEPT ![s] = Append(verdict[s], v)]
      /\ \E pc \in {"send", "free"} : wpc' = [wpc EXCEPT ![w] = pc]
      /\ UNCHANGED <<mpc, next, up, shutdown, db, kafka, sock, lpc, qpacket,
                     queue, packet, run, freed, outq, crashed, sent,
                     arrived, produced, lost>>
  BY DEF WorkerDissect, mainVars, listenVars
<1>1. PICK pc \in {"send", "free"} : wpc' = [wpc EXCEPT ![w] = pc]
  BY <1>0
<1>2. s \in Sensors /\ s \in Sources /\ packet[w].n \in 1..Len(arrived[s])
  BY <1>0 DEF IInv, InFlight, Known, Sources
<1>3. c \in Stream!Contents
  BY <1>2 DEF IInv, TypeOK, OutType
<1>4. v \in Stream!Verdicts
  BY <1>3 DEF Stream!Contents, Stream!Verdicts
<1>5. c.kind = "template" => c.tid \in Tids
  BY <1>3 DEF Stream!Contents
<1> HIDE DEF s, c, v
<1>6. MainType' /\ ListenType'
  BY <1>0 DEF IInv, TypeOK, MainType, ListenType
<1>7. WorkType'
  <2>1. tmpl' \in [Sensors -> SUBSET Tids]
    BY <1>0, <1>2, <1>5 DEF IInv, TypeOK, WorkType
  <2> QED
    BY <1>0, <1>1, <2>1 DEF IInv, TypeOK, WorkType
<1>8. OutType'
  <2>1. Append(verdict[s], v) \in Seq(Stream!Verdicts)
    BY <1>2, <1>4 DEF IInv, TypeOK, OutType
  <2> QED
    BY <1>0, <1>2, <2>1 DEF IInv, TypeOK, OutType
<1>9. InFlight'
  BY <1>0, <1>1 DEF IInv, TypeOK, WorkType, InFlight
<1>10. MainInv'
  BY <1>0, <1>1 DEF IInv, TypeOK, WorkType, MainInv
<1> QED
  BY <1>6, <1>7, <1>8, <1>9, <1>10 DEF IInv, TypeOK

\* A worker produces a record: the Kafka handle still exists, since this
\* worker has not ended.
LEMMA WorkerSendInv ==
  ASSUME IInv, NEW w \in Workers, WorkerSend(w) PROVE IInv'
<1>0. /\ wpc[w] = "send"
      /\ \/ /\ outq' = Append(outq, packet[w])
            /\ produced' = Append(produced, packet[w])
         \/ UNCHANGED <<outq, produced>>
      /\ wpc' = [wpc EXCEPT ![w] = "free"]
      /\ UNCHANGED <<mpc, next, up, shutdown, db, kafka, sock, lpc, qpacket,
                     queue, packet, run, freed, tmpl, crashed, sent,
                     arrived, verdict, lost>>
  BY DEF WorkerSend, mainVars, listenVars
<1>1. packet[w] \in Packets
  BY <1>0 DEF IInv, InFlight
<1>2. kafka # "destroyed"
  <2>1. ~freed[w]
    BY <1>0 DEF IInv, MainInv
  <2>2. ~(w < next) /\ w < NumWorkers /\ next \in Nat
    BY <2>1, WorkersType DEF IInv, MainInv, TypeOK, MainType
  <2> QED
    BY <2>2 DEF IInv, MainInv
<1>3. MainType' /\ ListenType'
  BY <1>0 DEF IInv, TypeOK, MainType, ListenType
<1>4. WorkType'
  BY <1>0 DEF IInv, TypeOK, WorkType
<1>5. OutType'
  <2>1. /\ outq \in Seq(Packets) /\ produced \in Seq(Packets)
        /\ Append(outq, packet[w]) \in Seq(Packets)
        /\ Append(produced, packet[w]) \in Seq(Packets)
    BY <1>1 DEF IInv, TypeOK, OutType
  <2>2. outq' \in Seq(Packets) /\ produced' \in Seq(Packets)
    BY <1>0, <2>1
  <2> QED
    BY <1>0, <2>2 DEF IInv, TypeOK, OutType
<1>6. InFlight'
  BY <1>0 DEF IInv, TypeOK, WorkType, InFlight
<1>7. MainInv'
  BY <1>0, <1>2 DEF IInv, TypeOK, WorkType, MainInv
<1> QED
  BY <1>3, <1>4, <1>5, <1>6, <1>7 DEF IInv, TypeOK

\* A worker frees the packet it has dissected.
LEMMA WorkerFreeInv ==
  ASSUME IInv, NEW w \in Workers, WorkerFree(w) PROVE IInv'
<1>0. /\ wpc[w] = "free"
      /\ packet' = [packet EXCEPT ![w] = NoPacket]
      /\ wpc' = [wpc EXCEPT ![w] = "pop"]
      /\ UNCHANGED <<mpc, next, up, shutdown, db, kafka, sock, lpc, qpacket,
                     queue, run, freed, tmpl, outq, crashed, sent, arrived,
                     verdict, produced, lost>>
  BY DEF WorkerFree, mainVars, listenVars, history
<1>1. MainType' /\ ListenType' /\ OutType'
  BY <1>0 DEF IInv, TypeOK, MainType, ListenType, OutType
<1>2. WorkType'
  BY <1>0 DEF IInv, TypeOK, WorkType
<1>3. InFlight'
  BY <1>0 DEF IInv, TypeOK, WorkType, InFlight
<1>4. MainInv'
  BY <1>0 DEF IInv, TypeOK, WorkType, MainInv
<1> QED
  BY <1>1, <1>2, <1>3, <1>4 DEF IInv, TypeOK

\* librdkafka settles a message.
LEMMA ReportInv == ASSUME IInv, Report PROVE IInv'
<1>0. /\ outq # <<>> /\ outq' = Tail(outq)
      /\ UNCHANGED <<mpc, next, up, shutdown, db, kafka, sock, lpc, qpacket,
                     queue, wpc, packet, run, freed, tmpl, crashed, sent,
                     arrived, verdict, produced, lost>>
  BY DEF Report, mainVars, listenVars, workVars, history
<1>1. MainType' /\ ListenType' /\ WorkType'
  BY <1>0 DEF IInv, TypeOK, MainType, ListenType, WorkType
<1>2. OutType'
  BY <1>0, TailFacts DEF IInv, TypeOK, OutType
<1>3. InFlight' /\ MainInv'
  BY <1>0 DEF IInv, InFlight, MainInv
<1> QED
  BY <1>1, <1>2, <1>3 DEF IInv, TypeOK

-----------------------------------------------------------------------------
(* The main thread.                                                        *)

\* Starting the listeners.
LEMMA MainListenersInv == ASSUME IInv, MainListeners PROVE IInv'
<1>0. /\ mpc = "listeners" /\ mpc' = "workers"
      /\ lpc' = [l \in Listeners |-> "check"]
      /\ UNCHANGED <<next, up, shutdown, db, kafka, sock, qpacket, queue,
                     wpc, packet, run, freed, tmpl, outq, crashed, sent,
                     arrived, verdict, produced, lost>>
  BY DEF MainListeners, workVars, history
<1>1. MainType' /\ WorkType' /\ OutType'
  BY <1>0 DEF IInv, TypeOK, MainType, WorkType, OutType
<1>2. ListenType' /\ InFlight'
  BY <1>0 DEF IInv, TypeOK, ListenType, InFlight
<1>3. MainInv'
  BY <1>0 DEF IInv, MainInv
<1> QED
  BY <1>1, <1>2, <1>3 DEF IInv, TypeOK

\* Starting the workers: none of them was freed yet.
LEMMA MainWorkersInv == ASSUME IInv, MainWorkers PROVE IInv'
<1>0. /\ mpc = "workers" /\ mpc' = "sensors"
      /\ wpc' = [w \in Workers |-> "pop"]
      /\ run' = [w \in Workers |-> TRUE]
      /\ UNCHANGED <<next, up, shutdown, db, kafka, sock, lpc, qpacket,
                     queue, packet, freed, tmpl, outq, crashed, sent,
                     arrived, verdict, produced, lost>>
  BY DEF MainWorkers, listenVars, history
<1>1. MainType' /\ ListenType' /\ OutType'
  BY <1>0 DEF IInv, TypeOK, MainType, ListenType, OutType
<1>2. WorkType' /\ InFlight'
  BY <1>0 DEF IInv, TypeOK, WorkType, InFlight
<1>3. MainInv'
  <2>1. \A w \in Workers : ~freed[w]
    BY <1>0, WorkersType DEF IInv, MainInv
  <2> QED
    BY <1>0, <2>1 DEF IInv, MainInv
<1> QED
  BY <1>1, <1>2, <1>3 DEF IInv, TypeOK

\* The steps of the main thread that change only its own variables.
LEMMA MainOwnInv ==
  ASSUME IInv,
         \/ MainSensors \/ MainUp \/ MainLeave \/ MainFlush \/ MainFreeDb
         \/ MainExit \/ Sigterm
  PROVE  IInv'
<1>0. UNCHANGED <<next, sock, lpc, qpacket, queue, wpc, packet, run, freed, tmpl,
                  outq, crashed, sent, arrived, verdict, produced, lost>>
  BY DEF MainSensors, MainUp, MainLeave, MainFlush, MainFreeDb, MainExit,
         Sigterm, listenVars, workVars, history
<1>1. ListenType' /\ WorkType' /\ OutType' /\ InFlight'
  BY <1>0 DEF IInv, TypeOK, ListenType, WorkType, OutType, InFlight
<1>2. MainType'
  <2>1. up' \in BOOLEAN /\ shutdown' \in BOOLEAN /\ crashed' \in BOOLEAN
    BY <1>0, Zenon DEF IInv, TypeOK, MainType, MainSensors, MainUp, MainLeave,
         MainFlush, MainFreeDb, MainExit, Sigterm
  <2>2. /\ mpc' \in {"listeners", "workers", "sensors", "init", "loop", "stop",
                     "join", "flush", "free", "exited"}
        /\ db' \in {"none", "loaded", "freed"}
        /\ kafka' \in {"open", "destroyed"}
    BY DEF IInv, TypeOK, MainType, MainSensors, MainUp, MainLeave,
         MainFlush, MainFreeDb, MainExit, Sigterm
  <2> QED
    BY <1>0, <2>1, <2>2 DEF IInv, TypeOK, MainType
<1>3. MainInv'
  <2>1. CASE MainSensors
    BY <1>0, <2>1 DEF IInv, MainInv, MainSensors
  <2>2. CASE MainUp
    BY <1>0, <2>2 DEF IInv, MainInv, MainUp
  <2>3. CASE MainLeave
    BY <1>0, <2>3, WorkersType DEF IInv, MainInv, MainLeave
  <2>4. CASE MainFlush
    BY <1>0, <2>4 DEF IInv, MainInv, MainFlush
  <2>5. CASE MainFreeDb
    BY <1>0, <2>5 DEF IInv, MainInv, MainFreeDb
  <2>6. CASE MainExit
    BY <1>0, <2>6 DEF IInv, MainInv, MainExit
  <2>7. CASE Sigterm
    BY <1>0, <2>7 DEF IInv, MainInv, Sigterm
  <2> QED
    BY <2>1, <2>2, <2>3, <2>4, <2>5, <2>6, <2>7
<1> QED
  BY <1>1, <1>2, <1>3 DEF IInv, TypeOK

\* Telling a worker to stop.
LEMMA MainClearRunInv == ASSUME IInv, MainClearRun PROVE IInv'
<1>0. /\ mpc = "stop" /\ mpc' = "join"
      /\ run' = [run EXCEPT ![next] = FALSE]
      /\ UNCHANGED <<next, up, shutdown, db, kafka, sock, lpc, qpacket,
                     queue, wpc, packet, freed, tmpl, outq, crashed, sent,
                     arrived, verdict, produced, lost>>
  BY DEF MainClearRun, listenVars, history
<1>1. MainType' /\ ListenType' /\ OutType'
  BY <1>0 DEF IInv, TypeOK, MainType, ListenType, OutType
<1>2. WorkType' /\ InFlight'
  BY <1>0 DEF IInv, TypeOK, WorkType, InFlight
<1>3. MainInv'
  BY <1>0 DEF IInv, MainInv
<1> QED
  BY <1>1, <1>2, <1>3 DEF IInv, TypeOK

\* Joining and freeing a worker: its thread has ended.
LEMMA MainJoinInv == ASSUME IInv, MainJoin PROVE IInv'
<1>0. /\ mpc = "join" /\ wpc[next] = "exit"
      /\ freed' = [freed EXCEPT ![next] = TRUE]
      /\ queue' = [queue EXCEPT ![next] = <<>>]
      /\ lost' = lost \cup {queue[next][i] : i \in DOMAIN queue[next]}
      /\ next' = next + 1
      /\ mpc' = IF next + 1 < NumWorkers THEN "stop" ELSE "flush"
      /\ UNCHANGED <<up, shutdown, db, kafka, sock, lpc, qpacket, wpc,
                     packet, run, tmpl, outq, crashed, sent, arrived,
                     verdict, produced>>
  BY DEF MainJoin, listenVars
<1>1. next \in Nat /\ next < NumWorkers /\ next \in Workers
  BY <1>0, WorkersType DEF IInv, MainInv, TypeOK, MainType, Workers
<1>2. MainType'
  <2>1. next' \in 0..NumWorkers
    BY <1>0, <1>1, WorkersType
  <2> QED
    BY <1>0, <2>1 DEF IInv, TypeOK, MainType
<1>3. ListenType'
  BY <1>0 DEF IInv, TypeOK, ListenType
<1>4. WorkType'
  BY <1>0, <1>1 DEF IInv, TypeOK, WorkType
<1>5. OutType'
  <2>1. \A i \in DOMAIN queue[next] : queue[next][i] \in Packets
    BY <1>1 DEF IInv, TypeOK, WorkType
  <2>2. lost' \in SUBSET Packets
    BY <1>0, <2>1 DEF IInv, TypeOK, OutType
  <2> QED
    BY <1>0, <2>2 DEF IInv, TypeOK, OutType
<1>6. InFlight'
  BY <1>0, <1>1 DEF IInv, TypeOK, WorkType, InFlight
<1>7. MainInv'
  <2>1. /\ mpc' \in {"stop", "flush"} /\ kafka' # "destroyed"
        /\ mpc' = "stop" => next' < NumWorkers
        /\ mpc' = "flush" => next' = NumWorkers
    BY <1>0, <1>1, WorkersType DEF IInv, MainInv
  <2>2. \A w \in Workers : freed'[w] <=> w < next'
    <3> SUFFICES ASSUME NEW w \in Workers PROVE freed'[w] <=> w < next'
      OBVIOUS
    <3>1. CASE w = next
      BY <1>0, <1>1, <3>1 DEF IInv, TypeOK, WorkType
    <3>2. CASE w # next
      <4>1. freed'[w] = freed[w]
        BY <1>0, <1>1, <3>2 DEF IInv, TypeOK, WorkType
      <4>2. w < next <=> w < next'
        BY <1>0, <1>1, <3>2, WorkersType
      <4> QED
        BY <4>1, <4>2 DEF IInv, MainInv
    <3> QED
      BY <3>1, <3>2
  <2>3. \A w \in Workers : freed'[w] => wpc'[w] = "exit"
    BY <1>0, <1>1 DEF IInv, MainInv, TypeOK, WorkType
  <2> QED
    BY <1>0, <2>1, <2>2, <2>3 DEF IInv, MainInv
<1> QED
  BY <1>2, <1>3, <1>4, <1>5, <1>6, <1>7 DEF IInv, TypeOK

-----------------------------------------------------------------------------
(* The theorems.                                                           *)

\* Every step of the collector keeps the invariant.
LEMMA NextInv == IInv /\ [Next]_vars => IInv'
<1> SUFFICES ASSUME IInv, [Next]_vars PROVE IInv'
  OBVIOUS
<1>1. ASSUME NEW s \in Sources, NEW c \in Stream!Contents, Arrive(s, c)
      PROVE  IInv'
  BY <1>1, ArriveInv
<1>2. ASSUME NEW l \in Listeners, Listener(l) PROVE IInv'
  BY <1>2, ListenerCheckInv, ListenerRecvInv, ListenerPushInv DEF Listener
<1>3. ASSUME NEW w \in Workers, Worker(w) PROVE IInv'
  BY <1>3, WorkerPopInv, WorkerIdleInv, WorkerDissectInv, WorkerSendInv,
     WorkerFreeInv DEF Worker
<1>4. CASE Report
  BY <1>4, ReportInv
<1>5. CASE Main \/ Sigterm
  BY <1>5, MainListenersInv, MainWorkersInv, MainOwnInv, MainClearRunInv,
     MainJoinInv DEF Main
<1>6. CASE UNCHANGED vars
  BY <1>6 DEF vars, mainVars, listenVars, workVars, history, IInv, TypeOK,
     MainType, ListenType, WorkType, OutType, InFlight, MainInv
<1> QED
  BY <1>1, <1>2, <1>3, <1>4, <1>5, <1>6 DEF Next

\* The invariant holds in every reachable state.
THEOREM CollectorInvariant == Spec => []IInv
  BY InitInv, NextInv, PTL DEF Spec

\* Every variable of the collector keeps its type; no worker ever dissects a
\* packet that did not arrive or whose source is not a configured sensor.
THEOREM CollectorTypeOK == Spec => []TypeOK
<1>1. IInv => TypeOK
  BY DEF IInv
<1> QED
  BY <1>1, CollectorInvariant, PTL

\* stopCaptureFlushAll frees a worker only after its thread ended, and destroys
\* the Kafka handle and the sensors only when no worker is left to use them and
\* nothing produced is pending, for any number of workers.
THEOREM CollectorTearDown == Spec => []TearDownOrder
<1>1. IInv => TearDownOrder
  <2> SUFFICES ASSUME IInv PROVE TearDownOrder
    OBVIOUS
  <2>1. kafka = "destroyed" => \A w \in Workers : freed[w]
    BY WorkersType DEF IInv, MainInv
  <2> QED
    BY <2>1 DEF IInv, MainInv, TearDownOrder
<1> QED
  BY <1>1, CollectorInvariant, PTL

-----------------------------------------------------------------------------
(* The streams.                                                            *)

\* The packets on their way, by place: sockets, listeners, queues, workers.
Elems(q) == {q[i] : i \in DOMAIN q}
Sock == UNION {Elems(sock[l]) : l \in Listeners}
Hand == {qpacket[l] : l \in {k \in Listeners : lpc[k] = "push"}}
Queued == UNION {Elems(queue[w]) : w \in Workers}
Desk == {packet[w] : w \in {v \in Workers : wpc[v] = "dissect"}}

\* Packet p must be dissected before packet q.
Before(p, q) == p.src = q.src => p.n < q.n
Sorted(q) == \A i, j \in DOMAIN q : i < j => Before(q[i], q[j])

\* Packets are only where their source sends them; threads that were not
\* started hold none.
Routes ==
  /\ \A l \in Listeners : \A i \in DOMAIN sock[l] : PortOf[sock[l][i].src] = l
  /\ \A l \in Listeners : IF lpc[l] = "push" THEN PortOf[qpacket[l].src] = l
                                             ELSE qpacket[l] = NoPacket
  /\ \A w \in Workers : \A i \in DOMAIN queue[w] : worker_idx(queue[w][i].src) = w
  /\ \A w \in Workers : wpc[w] \in {"dissect", "send"} => worker_idx(packet[w].src) = w
  /\ mpc = "listeners" => \A l \in Listeners : lpc[l] = "off"
  /\ mpc \in {"listeners", "workers"} => \A w \in Workers : wpc[w] = "off"

\* Within a line and from place to place, packets of a source stay in order.
Order ==
  /\ \A l \in Listeners : Sorted(sock[l])
  /\ \A w \in Workers : Sorted(queue[w])
  /\ \A p \in Desk, q \in Queued \cup Hand \cup Sock : Before(p, q)
  /\ \A p \in Queued, q \in Hand \cup Sock : Before(p, q)
  /\ \A p \in Hand, q \in Sock : Before(p, q)

\* A packet not dissected yet is somewhere on its way, or lost; no other is.
Kept ==
  /\ \A p \in Desk \cup Queued \cup Hand \cup Sock \cup lost : p.n > Len(verdict[p.src])
  /\ \A s \in Sensors : \A n \in 1..Len(arrived[s]) : n > Len(verdict[s]) =>
       [src |-> s, n |-> n] \in Desk \cup Queued \cup Hand \cup Sock \cup lost

\* What was lost is nowhere else, and whoever lost it dissects no more.
Gone ==
  /\ \A p \in lost : p \notin Desk \cup Queued \cup Hand \cup Sock
  /\ \A p \in lost : Known(p, Sources, arrived)
  /\ \A p \in lost : p.src \in Sensors => crashed \/ freed[worker_idx(p.src)]

\* A sensor knows the templates of the packets dissected so far.
Learned ==
  /\ \A s \in Sources : Len(verdict[s]) <= Len(arrived[s])
  /\ \A s \in Sensors : \A t \in Tids :
       t \in tmpl[s] <=> Stream!TemplateBefore(arrived[s], Len(verdict[s]) + 1, t)

\* What was produced was decoded, and before what is about to be produced.
Produced ==
  /\ \A i \in DOMAIN produced : produced[i].src \in Sensors
       /\ produced[i].n \in 1..Len(verdict[produced[i].src])
       /\ verdict[produced[i].src][produced[i].n] = "decoded"
  /\ Sorted(produced)
  /\ \A w \in Workers : wpc[w] = "send" =>
       /\ packet[w].n = Len(verdict[packet[w].src])
       /\ verdict[packet[w].src][packet[w].n] = "decoded"
       /\ \A i \in DOMAIN produced : Before(produced[i], packet[w])

\* The inductive invariant.
SInv == IInv /\ Routes /\ Order /\ Kept /\ Gone /\ Learned /\ Produced
-----------------------------------------------------------------------------
(* Facts that all steps use.                                               *)

\* What is on its way arrived, and past the sockets it comes from a sensor.
LEMMA OnTheWay ==
  ASSUME IInv
  PROVE  /\ \A p \in Sock : p \in Packets /\ Known(p, Sources, arrived)
         /\ \A p \in Hand \cup Queued \cup Desk :
              p \in Packets /\ Known(p, Sensors, arrived)
<1>1. ASSUME NEW p \in Sock PROVE p \in Packets /\ Known(p, Sources, arrived)
  <2>1. PICK l \in Listeners : \E i \in DOMAIN sock[l] : p = sock[l][i]
    BY <1>1 DEF Sock, Elems
  <2> QED
    BY <2>1 DEF IInv, TypeOK, ListenType, InFlight
<1>2. ASSUME NEW p \in Hand PROVE p \in Packets /\ Known(p, Sensors, arrived)
  BY <1>2 DEF IInv, InFlight, Hand
<1>3. ASSUME NEW p \in Queued PROVE p \in Packets /\ Known(p, Sensors, arrived)
  <2>1. PICK w \in Workers : \E i \in DOMAIN queue[w] : p = queue[w][i]
    BY <1>3 DEF Queued, Elems
  <2> QED
    BY <2>1 DEF IInv, TypeOK, WorkType, InFlight
<1>4. ASSUME NEW p \in Desk PROVE p \in Packets /\ Known(p, Sensors, arrived)
  BY <1>4 DEF IInv, InFlight, Desk
<1> QED
  BY <1>1, <1>2, <1>3, <1>4

\* Taking the head off a line in order.
LEMMA TakeHead ==
  ASSUME NEW q \in Seq(Packets), q # <<>>, Sorted(q)
  PROVE  /\ Head(q) \in Elems(q) /\ Elems(q) = Elems(Tail(q)) \cup {Head(q)}
         /\ Sorted(Tail(q))
         /\ \A e \in Elems(Tail(q)) : Before(Head(q), e)
<1>1. /\ Len(q) \in Nat /\ 1 \in DOMAIN q /\ Head(q) = q[1] /\ DOMAIN q = 1..Len(q)
      /\ DOMAIN Tail(q) = 1..(Len(q) - 1)
      /\ \A i \in DOMAIN Tail(q) : i + 1 \in DOMAIN q /\ Tail(q)[i] = q[i + 1]
  OBVIOUS
<1>2. \A i \in DOMAIN q \ {1} : i - 1 \in DOMAIN Tail(q) /\ q[i] = Tail(q)[i - 1]
  BY <1>1
<1>3. Elems(q) = Elems(Tail(q)) \cup {Head(q)}
  <2>1. ASSUME NEW i \in DOMAIN q PROVE q[i] \in Elems(Tail(q)) \cup {Head(q)}
    <3>1. CASE i = 1
      BY <3>1, <1>1
    <3>2. CASE i # 1
      BY <3>2, <1>2 DEF Elems
    <3> QED
      BY <3>1, <3>2
  <2>2. \A e : e \in Elems(Tail(q)) \cup {Head(q)} => e \in Elems(q)
    BY <1>1 DEF Elems
  <2>3. \A e : e \in Elems(q) => e \in Elems(Tail(q)) \cup {Head(q)}
    BY <2>1 DEF Elems
  <2> QED
    BY <2>2, <2>3
<1>4. Sorted(Tail(q))
  BY <1>1 DEF Sorted
<1>5. \A e \in Elems(Tail(q)) : Before(Head(q), e)
  BY <1>1 DEF Sorted, Elems
<1> QED
  BY <1>1, <1>3, <1>4, <1>5 DEF Elems

\* A step that moves no packet keeps the invariant.
LEMMA NothingMoves ==
  ASSUME SInv, IInv',
         UNCHANGED <<sock, qpacket, queue, arrived, verdict, lost, tmpl, produced>>,
         \A l \in Listeners : lpc'[l] = "push" <=> lpc[l] = "push",
         \A w \in Workers : wpc'[w] = "dissect" <=> wpc[w] = "dissect",
         \A w \in Workers : wpc'[w] = "send" <=> wpc[w] = "send",
         \A w \in Workers : wpc[w] \in {"dissect", "send"} => packet'[w] = packet[w],
         crashed => crashed',
         \A w \in Workers : freed[w] => freed'[w],
         mpc' = "listeners" => \A l \in Listeners : lpc'[l] = "off",
         mpc' \in {"listeners", "workers"} => \A w \in Workers : wpc'[w] = "off"
  PROVE  SInv'
<1>1. Sock' = Sock /\ Queued' = Queued
  BY DEF Sock, Queued
<1>2. Hand' = Hand
  BY DEF Hand
<1>3. Desk' = Desk
  BY DEF Desk
<1>4. Routes'
  BY DEF SInv, Routes
<1>5. Order'
  BY <1>1, <1>2, <1>3 DEF SInv, Order
<1>6. Kept'
  BY <1>1, <1>2, <1>3 DEF SInv, Kept
<1>7. Gone'
  <2>1. \A p \in lost : p.src \in Sensors => worker_idx(p.src) \in Workers
    BY BoundWorker
  <2> QED
    BY <1>1, <1>2, <1>3, <2>1 DEF SInv, Gone
<1>8. Learned'
  BY DEF SInv, Learned
<1>9. Produced'
  BY DEF SInv, Produced
<1> QED
  BY <1>4, <1>5, <1>6, <1>7, <1>8, <1>9 DEF SInv

\* The invariant holds when the process starts.
LEMMA InitSInv == Init => SInv
<1> SUFFICES ASSUME Init PROVE SInv
  OBVIOUS
<1>1. Sock = {} /\ Hand = {} /\ Queued = {} /\ Desk = {}
  BY DEF Init, Sock, Hand, Queued, Desk, Elems
<1>2. \A s \in Sources : arrived[s] = <<>> /\ verdict[s] = <<>>
  BY DEF Init
<1>3. Sensors \subseteq Sources
  BY DEF Sources
<1>4. Routes
  BY DEF Init, Routes
<1>5. Order
  BY <1>1 DEF Init, Order, Sorted
<1>6. Kept /\ Gone
  BY <1>1, <1>2, <1>3 DEF Init, Kept, Gone
<1>7. Learned
  BY <1>2, <1>3 DEF Init, Learned, Stream!TemplateBefore
<1>8. Produced
  BY DEF Init, Produced, Sorted
<1> QED
  BY <1>4, <1>5, <1>6, <1>7, <1>8, InitInv DEF SInv

-----------------------------------------------------------------------------
(* The network and the listeners.                                          *)

\* A packet that arrives is the last of its source.
LEMMA ArriveS ==
  ASSUME SInv, NEW s \in Sources, NEW c \in Stream!Contents, Arrive(s, c)
  PROVE  SInv'
<1> DEFINE l == PortOf[s]
           p == [src |-> s, n |-> Len(arrived[s]) + 1]
<1>0. /\ arrived' = [arrived EXCEPT ![s] = Append(arrived[s], c)]
      /\ sock' = [sock EXCEPT ![l] = Append(sock[l], p)]
      /\ UNCHANGED <<mpc, lpc, qpacket, queue, wpc, packet, freed, tmpl, crashed,
                     verdict, produced, lost>>
  BY DEF Arrive, mainVars, workVars
<1>1. IInv' /\ IInv
  BY ArriveInv DEF SInv
<1>2. /\ l \in Listeners /\ sock[l] \in Seq(Packets) /\ p \in Packets
      /\ arrived \in [Sources -> Seq(Stream!Contents)] /\ Len(arrived[s]) \in Nat
      /\ sock \in [Listeners -> Seq(Packets)] /\ p.src = s /\ p.n = Len(arrived[s]) + 1
  <2>1. arrived \in [Sources -> Seq(Stream!Contents)] /\ Len(arrived[s]) \in Nat
    BY <1>1 DEF IInv, TypeOK, OutType
  <2>2. p \in Packets
    BY <2>1 DEF Packets
  <2>3. l \in Listeners
    BY CollectorAssumption
  <2> QED
    BY <1>1, <2>1, <2>2, <2>3 DEF IInv, TypeOK, ListenType
<1> HIDE DEF l, p
<1>3. Sensors \subseteq Sources
  BY DEF Sources
<1>4. /\ \A r \in Sources : Len(arrived[r]) \in Nat /\ Len(arrived'[r]) >= Len(arrived[r])
                              /\ Len(arrived'[r]) \in Nat
                              /\ \A i \in 1..Len(arrived[r]) : arrived'[r][i] = arrived[r][i]
      /\ \A r \in Sources \ {s} : arrived'[r] = arrived[r]
      /\ Len(arrived'[s]) = Len(arrived[s]) + 1
  BY <1>0, <1>2
<1>5. \A q : Known(q, Sources, arrived) => Before(q, p) /\ Known(q, Sources, arrived')
  BY <1>2, <1>4 DEF Known, Before
<1>6. /\ DOMAIN sock'[l] = DOMAIN sock[l] \cup {Len(sock[l]) + 1}
      /\ sock'[l][Len(sock[l]) + 1] = p
      /\ \A i \in DOMAIN sock[l] : i < Len(sock[l]) + 1 /\ sock'[l][i] = sock[l][i]
      /\ \A k \in Listeners \ {l} : sock'[k] = sock[k]
      /\ Len(sock[l]) + 1 \in Nat /\ DOMAIN sock[l] \subseteq Nat
  BY <1>0, <1>2
<1>7. Sock' = Sock \cup {p}
  <2>1. ASSUME NEW q \in Sock' PROVE q \in Sock \cup {p}
    <3>1. PICK k \in Listeners : \E i \in DOMAIN sock'[k] : q = sock'[k][i]
      BY <2>1 DEF Sock, Elems
    <3> QED
      BY <3>1, <1>6 DEF Sock, Elems
  <2>2. ASSUME NEW q \in Sock PROVE q \in Sock'
    <3>1. PICK k \in Listeners : \E i \in DOMAIN sock[k] : q = sock[k][i]
      BY <2>2 DEF Sock, Elems
    <3> QED
      BY <3>1, <1>6 DEF Sock, Elems
  <2>3. p \in Sock'
    BY <1>2, <1>6 DEF Sock, Elems
  <2> QED
    BY <2>1, <2>2, <2>3
<1>8. Hand' = Hand /\ Queued' = Queued /\ Desk' = Desk
  BY <1>0 DEF Hand, Queued, Desk
<1>9. \A q \in Hand \cup Queued \cup Desk \cup Sock \cup lost : Known(q, Sources, arrived)
  BY <1>1, <1>3, OnTheWay DEF SInv, Gone, Known
<1>10. Routes'
  <2>1. ASSUME NEW k \in Listeners, NEW i \in DOMAIN sock'[k]
        PROVE  PortOf[sock'[k][i].src] = k
    <3>1. PortOf[p.src] = l
      BY <1>2 DEF l
    <3>2. (k = l /\ sock'[k][i] = p) \/ (i \in DOMAIN sock[k] /\ sock'[k][i] = sock[k][i])
      BY <1>6
    <3> QED
      BY <3>1, <3>2 DEF SInv, Routes
  <2> QED
    BY <1>0, <2>1 DEF SInv, Routes
<1>11. Order'
  <2>1. ASSUME NEW k \in Listeners PROVE Sorted(sock'[k])
    <3>1. CASE k # l
      BY <3>1, <1>6 DEF SInv, Order
    <3>2. CASE k = l
      <4>1. \A i \in DOMAIN sock[l] : Before(sock[l][i], p)
        BY <1>2, <1>5, <1>9 DEF Sock, Elems
      <4> QED
        BY <3>2, <4>1, <1>2, <1>6 DEF SInv, Order, Sorted
    <3> QED
      BY <3>1, <3>2
  <2>2. \A q \in Hand \cup Queued \cup Desk : Before(q, p)
    BY <1>5, <1>9
  <2> QED
    BY <1>0, <1>7, <1>8, <2>1, <2>2 DEF SInv, Order
<1>12. Kept'
  <2>1. p.n > Len(verdict[p.src])
    BY <1>1, <1>2 DEF SInv, Learned, IInv, TypeOK, OutType
  <2>2. ASSUME NEW r \in Sensors, NEW n \in 1..Len(arrived'[r]), n > Len(verdict[r])
        PROVE  [src |-> r, n |-> n] \in Desk \cup Queued \cup Hand \cup Sock' \cup lost
    <3>1. CASE n \in 1..Len(arrived[r])
      BY <2>2, <3>1, <1>7 DEF SInv, Kept
    <3>2. CASE n \notin 1..Len(arrived[r])
      <4>1. r = s /\ n = Len(arrived[s]) + 1
        BY <3>2, <1>3, <1>4
      <4> QED
        BY <4>1, <1>7 DEF p
    <3> QED
      BY <3>1, <3>2
  <2> QED
    BY <1>0, <1>7, <1>8, <2>1, <2>2 DEF SInv, Kept
<1>13. Gone'
  <2>1. \A q \in lost : q # p
    BY <1>2, <1>5, <1>9 DEF Before
  <2> QED
    BY <1>0, <1>5, <1>7, <1>8, <2>1 DEF SInv, Gone
<1>14. Learned'
  <2>1. \A r \in Sources : Len(verdict[r]) \in Nat
    BY <1>1 DEF IInv, TypeOK, OutType
  <2>2. \A r \in Sources : Len(verdict[r]) <= Len(arrived'[r])
    BY <1>4, <2>1 DEF SInv, Learned
  <2>3. ASSUME NEW r \in Sensors, NEW t \in Tids
        PROVE  Stream!TemplateBefore(arrived'[r], Len(verdict[r]) + 1, t)
                 <=> Stream!TemplateBefore(arrived[r], Len(verdict[r]) + 1, t)
    <3>1. \A j \in 1..((Len(verdict[r]) + 1) - 1) : arrived'[r][j] = arrived[r][j]
      BY <1>3, <1>4, <2>1 DEF SInv, Learned
    <3> QED
      BY <3>1 DEF Stream!TemplateBefore
  <2> QED
    BY <1>0, <2>2, <2>3 DEF SInv, Learned
<1>15. Produced'
  BY <1>0 DEF SInv, Produced
<1> QED
  BY <1>1, <1>10, <1>11, <1>12, <1>13, <1>14, <1>15 DEF SInv

\* A listener takes the oldest packet of its socket into its hand, or drops it.
LEMMA ListenerRecvS ==
  ASSUME SInv, NEW l \in Listeners, ListenerRecv(l) PROVE SInv'
<1> DEFINE p == Head(sock[l])
<1>0. /\ lpc[l] = "recv" /\ sock[l] # <<>>
      /\ sock' = [sock EXCEPT ![l] = Tail(sock[l])]
      /\ UNCHANGED <<mpc, queue, wpc, packet, freed, tmpl, arrived, verdict, produced>>
  BY DEF ListenerRecv, mainVars, workVars
<1>1. IInv /\ IInv'
  BY ListenerRecvInv DEF SInv
<1>2. /\ sock \in [Listeners -> Seq(Packets)] /\ sock[l] \in Seq(Packets)
      /\ lpc \in [Listeners -> {"off", "check", "recv", "push", "end"}]
      /\ qpacket \in [Listeners -> Packets \cup {NoPacket}]
  BY <1>1 DEF IInv, TypeOK, ListenType
<1>3. /\ p \in Elems(sock[l]) /\ Elems(sock[l]) = Elems(Tail(sock[l])) \cup {p}
      /\ Sorted(Tail(sock[l]))
      /\ \A e \in Elems(Tail(sock[l])) : Before(p, e)
      /\ 1 \in DOMAIN sock[l] /\ p = sock[l][1]
      /\ \A i \in DOMAIN Tail(sock[l]) : i + 1 \in DOMAIN sock[l]
                                          /\ Tail(sock[l])[i] = sock[l][i + 1]
  BY <1>0, <1>2, TakeHead, TailFacts DEF SInv, Order
<1>4. /\ \A k \in Listeners \ {l} : sock'[k] = sock[k]
      /\ sock'[l] = Tail(sock[l])
  BY <1>0, <1>2
<1>5. \A k \in Listeners : \A e \in Elems(sock[k]) : PortOf[e.src] = k
  BY DEF SInv, Routes, Elems
<1>6. p \in Sock /\ Sock = Sock' \cup {p} /\ \A q \in Sock' : Before(p, q)
  <2>1. p \in Sock
    BY <1>3 DEF Sock
  <2>2. ASSUME NEW q \in Sock' PROVE q \in Sock /\ Before(p, q)
    <3>1. PICK k \in Listeners : q \in Elems(sock'[k])
      BY <2>2 DEF Sock
    <3>2. CASE k = l
      BY <3>1, <3>2, <1>3, <1>4 DEF Sock
    <3>3. CASE k # l
      BY <3>1, <3>3, <1>3, <1>4, <1>5 DEF Sock, Before
    <3> QED
      BY <3>2, <3>3
  <2>3. ASSUME NEW q \in Sock PROVE q \in Sock' \cup {p}
    <3>1. PICK k \in Listeners : q \in Elems(sock[k])
      BY <2>3 DEF Sock
    <3> QED
      BY <3>1, <1>3, <1>4 DEF Sock
  <2> QED
    BY <2>1, <2>2, <2>3
<1>7. Queued' = Queued /\ Desk' = Desk
  BY <1>0 DEF Queued, Desk
<1>8. p \in Packets /\ Known(p, Sources, arrived) /\ p \notin Sock'
  BY <1>1, <1>6, OnTheWay DEF Before, Packets
<1>9. \/ /\ p.src \in Sensors
         /\ qpacket' = [qpacket EXCEPT ![l] = p]
         /\ lpc' = [lpc EXCEPT ![l] = "push"]
         /\ UNCHANGED <<crashed, lost>>
      \/ /\ lpc' = [lpc EXCEPT ![l] = "check"]
         /\ IF p.src \in Sensors THEN db = "freed" /\ lost' = lost \cup {p}
                                 ELSE lost' = lost
         /\ UNCHANGED <<crashed, qpacket>>
      \/ /\ crashed' = TRUE
         /\ lost' = lost \cup {p}
         /\ UNCHANGED <<lpc, qpacket>>
  BY DEF ListenerRecv
<1>10. /\ Hand' \in {Hand, Hand \cup {p}}
       /\ p \in Hand' => lost' = lost
       /\ lost' \in {lost, lost \cup {p}}
       /\ p.src \in Sensors => p \in Hand' \cup lost'
  <2>1. p \notin Hand
    BY <1>8, <1>6 DEF SInv, Order, Before, Packets
  <2>2. CASE lpc' = [lpc EXCEPT ![l] = "push"] /\ qpacket' = [qpacket EXCEPT ![l] = p]
             /\ lost' = lost
    BY <2>2, <1>0, <1>2 DEF Hand
  <2>3. CASE lpc' = [lpc EXCEPT ![l] = "check"] /\ qpacket' = qpacket
    BY <2>1, <2>3, <1>0, <1>2, <1>9 DEF Hand
  <2>4. CASE lpc' = lpc /\ qpacket' = qpacket /\ lost' = lost \cup {p}
    BY <2>1, <2>4 DEF Hand
  <2> QED
    BY <2>2, <2>3, <2>4, <1>9
<1> HIDE DEF p
<1>11. Routes'
  <2>1. \A k \in Listeners : \A i \in DOMAIN sock'[k] : PortOf[sock'[k][i].src] = k
    <3>1. \A i \in DOMAIN sock'[l] : \E j \in DOMAIN sock[l] : sock'[l][i] = sock[l][j]
      BY <1>3, <1>4
    <3>2. \A i \in DOMAIN sock'[l] : PortOf[sock'[l][i].src] = l
      BY <3>1 DEF SInv, Routes
    <3> QED
      BY <3>2, <1>4 DEF SInv, Routes
  <2>2. PortOf[p.src] = l
    BY <1>3, <1>5
  <2>3. \A k \in Listeners : IF lpc'[k] = "push" THEN PortOf[qpacket'[k].src] = k
                                                 ELSE qpacket'[k] = NoPacket
    BY <2>2, <1>0, <1>2, <1>9 DEF SInv, Routes
  <2>4. mpc # "listeners"
    BY <1>0 DEF SInv, Routes
  <2> QED
    BY <1>0, <2>1, <2>3, <2>4 DEF SInv, Routes
<1>12. Order'
  <2>1. \A k \in Listeners : Sorted(sock'[k])
    BY <1>3, <1>4 DEF SInv, Order
  <2> QED
    BY <1>0, <1>6, <1>7, <1>10, <2>1 DEF SInv, Order
<1>13. Kept'
  <2>1. \A q \in Desk' \cup Queued' \cup Hand' \cup Sock' \cup lost' :
          q \in Desk \cup Queued \cup Hand \cup Sock \cup lost
    BY <1>6, <1>7, <1>10
  <2>2. \A q \in Desk \cup Queued \cup Hand \cup Sock \cup lost :
          q.src \in Sensors => q \in Desk' \cup Queued' \cup Hand' \cup Sock' \cup lost'
    BY <1>6, <1>7, <1>10
  <2> QED
    BY <1>0, <2>1, <2>2 DEF SInv, Kept
<1>14. Gone'
  <2>1. \A q \in lost' : q \notin Desk' \cup Queued' \cup Hand' \cup Sock'
    <3>1. p \notin Desk \cup Queued \cup Hand
      BY <1>6, <1>8 DEF SInv, Order, Before, Packets
    <3> QED
      BY <3>1, <1>6, <1>7, <1>8, <1>10 DEF SInv, Gone
  <2>2. \A q \in lost' : Known(q, Sources, arrived')
    BY <1>0, <1>8, <1>10 DEF SInv, Gone
  <2>3. ASSUME NEW q \in lost', q.src \in Sensors
        PROVE  crashed' \/ freed'[worker_idx(q.src)]
    <3>1. db = "freed" => \A w \in Workers : freed[w]
      BY <1>1, WorkersType DEF IInv, MainInv
    <3>2. worker_idx(q.src) \in Workers
      BY <2>3, BoundWorker
    <3> QED
      BY <2>3, <3>1, <3>2, <1>0, <1>9 DEF SInv, Gone
  <2> QED
    BY <2>1, <2>2, <2>3 DEF Gone
<1>15. Learned' /\ Produced'
  BY <1>0 DEF SInv, Learned, Produced
<1> QED
  BY <1>1, <1>11, <1>12, <1>13, <1>14, <1>15 DEF SInv

\* A listener hands its packet to the worker of the sensor, or loses it.
LEMMA ListenerPushS ==
  ASSUME SInv, NEW l \in Listeners, ListenerPush(l) PROVE SInv'
<1> DEFINE p == qpacket[l]
           w == worker_idx(p.src)
<1>0. /\ lpc[l] = "push"
      /\ qpacket' = [qpacket EXCEPT ![l] = NoPacket]
      /\ lpc' = [lpc EXCEPT ![l] = "check"]
      /\ UNCHANGED <<mpc, sock, wpc, packet, freed, tmpl, arrived, verdict, produced>>
  BY DEF ListenerPush, mainVars, workVars
<1>1. IInv /\ IInv'
  BY ListenerPushInv DEF SInv
<1>2. /\ lpc \in [Listeners -> {"off", "check", "recv", "push", "end"}]
      /\ qpacket \in [Listeners -> Packets \cup {NoPacket}]
      /\ queue \in [Workers -> Seq(Packets)]
  BY <1>1 DEF IInv, TypeOK, ListenType, WorkType
<1>3. p \in Hand /\ p \in Packets /\ Known(p, Sensors, arrived)
  BY <1>0, <1>1, OnTheWay DEF Hand
<1>4. w \in Workers /\ queue[w] \in Seq(Packets)
  BY <1>2, <1>3, BoundWorker DEF Known
<1>5. \/ /\ queue' = [queue EXCEPT ![w] = Append(queue[w], p)]
         /\ UNCHANGED <<lost, crashed>>
      \/ /\ db = "freed" \/ freed[w]
         /\ lost' = lost \cup {p}
         /\ crashed' \in BOOLEAN /\ ~crashed
         /\ UNCHANGED queue
  BY DEF ListenerPush, Alive
<1>6. worker_idx(p.src) = w
  OBVIOUS
<1>7. Hand = Hand' \cup {p} /\ \A q \in Hand' : q.src # p.src
  <2>1. \A k \in Listeners : lpc[k] = "push" /\ k # l => qpacket[k].src # p.src
    BY <1>0 DEF SInv, Routes
  <2> QED
    BY <2>1, <1>0, <1>2 DEF Hand
<1> HIDE DEF p, w
<1>8. Sock' = Sock /\ Desk' = Desk
  BY <1>0 DEF Sock, Desk
<1>9. \A q \in Sock \cup Hand' : Before(p, q)
  BY <1>3, <1>7 DEF SInv, Order, Before
<1>10. /\ Routes'
       /\ \A v \in Workers : Sorted(queue'[v])
       /\ Queued' \cup lost' = Queued \cup lost \cup {p}
       /\ Queued' \in {Queued, Queued \cup {p}}
       /\ lost' \in {lost, lost \cup {p}}
       /\ (Queued' = Queued \/ lost' = lost)
  <2>0. \A k \in Listeners : IF lpc'[k] = "push" THEN PortOf[qpacket'[k].src] = k
                                                 ELSE qpacket'[k] = NoPacket
    BY <1>0, <1>2 DEF SInv, Routes
  <2>1. CASE queue' = [queue EXCEPT ![w] = Append(queue[w], p)] /\ lost' = lost
    <3>1. /\ DOMAIN queue'[w] = DOMAIN queue[w] \cup {Len(queue[w]) + 1}
          /\ queue'[w][Len(queue[w]) + 1] = p
          /\ \A i \in DOMAIN queue[w] : i < Len(queue[w]) + 1 /\ queue'[w][i] = queue[w][i]
          /\ \A v \in Workers \ {w} : queue'[v] = queue[v]
          /\ Len(queue[w]) + 1 \in Nat /\ DOMAIN queue[w] \subseteq Nat
      BY <2>1, <1>2, <1>3, <1>4
    <3>2. \A v \in Workers : Elems(queue'[v]) = IF v = w THEN Elems(queue[w]) \cup {p}
                                                ELSE Elems(queue[v])
      BY <3>1, <1>4 DEF Elems
    <3>3. Queued' = Queued \cup {p}
      BY <3>2, <1>4 DEF Queued
    <3>4. \A e \in Elems(queue[w]) : Before(e, p)
      BY <1>3, <1>4 DEF SInv, Order, Queued
    <3>5. ASSUME NEW v \in Workers PROVE Sorted(queue'[v])
      <4>1. CASE v # w
        BY <4>1, <3>1 DEF SInv, Order
      <4>2. CASE v = w
        BY <4>2, <3>1, <3>4, <1>4 DEF SInv, Order, Sorted, Elems
      <4> QED
        BY <4>1, <4>2
    <3>6. ASSUME NEW v \in Workers, NEW i \in DOMAIN queue'[v]
          PROVE  worker_idx(queue'[v][i].src) = v
      <4>1. (v = w /\ queue'[v][i] = p) \/ (i \in DOMAIN queue[v] /\ queue'[v][i] = queue[v][i])
        BY <3>1
      <4> QED
        BY <4>1, <1>6 DEF SInv, Routes
    <3>7. Routes'
      BY <1>0, <2>0, <3>6 DEF SInv, Routes
    <3> QED
      BY <2>1, <3>3, <3>5, <3>7
  <2>2. CASE queue' = queue /\ lost' = lost \cup {p}
    <3>1. Queued' = Queued
      BY <2>2 DEF Queued
    <3>2. Routes'
      BY <1>0, <2>0, <2>2 DEF SInv, Routes
    <3> QED
      BY <2>2, <3>1, <3>2 DEF SInv, Order
  <2> QED
    BY <2>1, <2>2, <1>5
<1>11. Order'
  BY <1>0, <1>3, <1>7, <1>8, <1>9, <1>10 DEF SInv, Order
<1>12. Kept'
  <2>1. Desk' \cup Queued' \cup Hand' \cup Sock' \cup lost'
          = Desk \cup Queued \cup Hand \cup Sock \cup lost
    BY <1>7, <1>8, <1>10
  <2> QED
    BY <1>0, <2>1 DEF SInv, Kept
<1>13. Gone'
  <2>1. p \notin Desk \cup Queued \cup Sock
    BY <1>3 DEF SInv, Order, Before, Packets
  <2>2. \A q \in lost' : q \notin Desk' \cup Queued' \cup Hand' \cup Sock'
    BY <2>1, <1>3, <1>7, <1>8, <1>10 DEF SInv, Gone
  <2>3. Known(p, Sources, arrived)
    BY <1>3 DEF Known, Sources
  <2>4. \A q \in lost' : Known(q, Sources, arrived')
    BY <1>0, <1>10, <2>3 DEF SInv, Gone
  <2>5. ASSUME NEW q \in lost', q.src \in Sensors
        PROVE  crashed' \/ freed'[worker_idx(q.src)]
    <3>1. db = "freed" => \A v \in Workers : freed[v]
      BY <1>1, WorkersType DEF IInv, MainInv
    <3>2. worker_idx(q.src) \in Workers
      BY <2>5, BoundWorker
    <3> QED
      BY <2>5, <3>1, <3>2, <1>0, <1>5, <1>6 DEF SInv, Gone
  <2> QED
    BY <2>2, <2>4, <2>5 DEF Gone
<1>14. Learned' /\ Produced'
  BY <1>0 DEF SInv, Learned, Produced
<1> QED
  BY <1>1, <1>10, <1>11, <1>12, <1>13, <1>14 DEF SInv

-----------------------------------------------------------------------------
(* The workers.                                                            *)

\* A worker takes the oldest packet of its queue.
LEMMA WorkerPopS ==
  ASSUME SInv, NEW w \in Workers, WorkerPop(w) PROVE SInv'
<1> DEFINE p == Head(queue[w])
<1>0. /\ wpc[w] = "pop" /\ queue[w] # <<>>
      /\ packet' = [packet EXCEPT ![w] = p]
      /\ queue' = [queue EXCEPT ![w] = Tail(queue[w])]
      /\ wpc' = [wpc EXCEPT ![w] = "dissect"]
      /\ UNCHANGED <<mpc, sock, lpc, qpacket, freed, tmpl, crashed, arrived,
                     verdict, produced, lost>>
  BY DEF WorkerPop, mainVars, listenVars, history
<1>1. IInv /\ IInv'
  BY WorkerPopInv DEF SInv
<1>2. /\ queue \in [Workers -> Seq(Packets)] /\ queue[w] \in Seq(Packets)
      /\ wpc \in [Workers -> {"off", "pop", "null", "dissect", "send", "free", "exit"}]
      /\ packet \in [Workers -> Packets \cup {NoPacket}]
  BY <1>1 DEF IInv, TypeOK, WorkType
<1>3. /\ p \in Elems(queue[w]) /\ Elems(queue[w]) = Elems(Tail(queue[w])) \cup {p}
      /\ Sorted(Tail(queue[w]))
      /\ \A e \in Elems(Tail(queue[w])) : Before(p, e)
      /\ \A i \in DOMAIN Tail(queue[w]) : i + 1 \in DOMAIN queue[w]
                                          /\ Tail(queue[w])[i] = queue[w][i + 1]
  BY <1>0, <1>2, TakeHead, TailFacts DEF SInv, Order
<1>4. /\ \A v \in Workers \ {w} : queue'[v] = queue[v]
      /\ queue'[w] = Tail(queue[w])
  BY <1>0, <1>2
<1>5. \A v \in Workers : \A e \in Elems(queue[v]) : worker_idx(e.src) = v
  BY DEF SInv, Routes, Elems
<1>6. p \in Queued /\ Queued = Queued' \cup {p} /\ \A q \in Queued' : Before(p, q)
  <2>1. p \in Queued
    BY <1>3 DEF Queued
  <2>2. ASSUME NEW q \in Queued' PROVE q \in Queued /\ Before(p, q)
    <3>1. PICK v \in Workers : q \in Elems(queue'[v])
      BY <2>2 DEF Queued
    <3>2. CASE v = w
      BY <3>1, <3>2, <1>3, <1>4 DEF Queued
    <3>3. CASE v # w
      BY <3>1, <3>3, <1>3, <1>4, <1>5 DEF Queued, Before
    <3> QED
      BY <3>2, <3>3
  <2>3. ASSUME NEW q \in Queued PROVE q \in Queued' \cup {p}
    <3>1. PICK v \in Workers : q \in Elems(queue[v])
      BY <2>3 DEF Queued
    <3> QED
      BY <3>1, <1>3, <1>4 DEF Queued
  <2> QED
    BY <2>1, <2>2, <2>3
<1>7. Sock' = Sock /\ Hand' = Hand
  BY <1>0 DEF Sock, Hand
<1>8. Desk' = Desk \cup {p}
  BY <1>0, <1>2 DEF Desk
<1>9. worker_idx(p.src) = w
  BY <1>3, <1>5
<1> HIDE DEF p
<1>10. Routes'
  <2>1. \A i \in DOMAIN queue'[w] : \E j \in DOMAIN queue[w] : queue'[w][i] = queue[w][j]
    BY <1>3, <1>4
  <2>2. \A i \in DOMAIN queue'[w] : worker_idx(queue'[w][i].src) = w
    BY <2>1 DEF SInv, Routes
  <2>3. \A v \in Workers : \A i \in DOMAIN queue'[v] : worker_idx(queue'[v][i].src) = v
    BY <2>2, <1>4 DEF SInv, Routes
  <2>4. \A v \in Workers : wpc'[v] \in {"dissect", "send"} => worker_idx(packet'[v].src) = v
    BY <1>0, <1>2, <1>9 DEF SInv, Routes
  <2>5. mpc \notin {"listeners", "workers"}
    BY <1>0 DEF SInv, Routes
  <2> QED
    BY <1>0, <2>3, <2>4, <2>5 DEF SInv, Routes
<1>11. Order'
  <2>1. \A v \in Workers : Sorted(queue'[v])
    BY <1>3, <1>4 DEF SInv, Order
  <2> QED
    BY <1>0, <1>6, <1>7, <1>8, <2>1 DEF SInv, Order
<1>12. Kept'
  <2>1. Desk' \cup Queued' \cup Hand' \cup Sock' \cup lost'
          = Desk \cup Queued \cup Hand \cup Sock \cup lost
    BY <1>0, <1>6, <1>7, <1>8
  <2> QED
    BY <1>0, <2>1 DEF SInv, Kept
<1>13. Gone'
  BY <1>0, <1>6, <1>7, <1>8 DEF SInv, Gone
<1>14. Learned' /\ Produced'
  BY <1>0, <1>2 DEF SInv, Learned, Produced
<1> QED
  BY <1>1, <1>10, <1>11, <1>12, <1>13, <1>14 DEF SInv

\* The packet that a worker dissects is the next one of its stream: nothing
\* before it is still on its way, and none was lost.
LEMMA DissectsNext ==
  ASSUME SInv, NEW w \in Workers, wpc[w] = "dissect", ~crashed
  PROVE  /\ packet[w].src \in Sensors
         /\ packet[w].n = Len(verdict[packet[w].src]) + 1
         /\ packet[w].n \in 1..Len(arrived[packet[w].src])
         /\ packet[w] \in Packets /\ packet[w] \in Desk
         /\ \A q \in (Desk \ {packet[w]}) \cup Queued \cup Hand \cup Sock \cup lost :
              q.src = packet[w].src => q.n > packet[w].n
<1> DEFINE p == packet[w]
           s == p.src
<1>1. p \in Desk /\ p \in Packets /\ Known(p, Sensors, arrived) /\ IInv
  BY OnTheWay DEF SInv, Desk
<1>2. s \in Sensors /\ s \in Sources /\ p.n \in 1..Len(arrived[s])
  BY <1>1 DEF Known, Sources
<1>3. Len(arrived[s]) \in Nat /\ Len(verdict[s]) \in Nat /\ p.n \in Nat
  BY <1>1, <1>2 DEF IInv, TypeOK, OutType
<1>4. worker_idx(s) = w
  BY DEF SInv, Routes
<1>5. \A q \in lost : q.src # s
  BY <1>1, <1>2, <1>4 DEF SInv, Gone, IInv, MainInv
<1>6. \A q \in Desk : q.src = s => q = p
  BY <1>4 DEF SInv, Routes, Desk
<1>7. \A q \in (Desk \ {p}) \cup Queued \cup Hand \cup Sock \cup lost :
        q.src = s => q.n > p.n
  <2>1. \A q \in Queued \cup Hand \cup Sock : q.src = s => p.n < q.n
    BY <1>1 DEF SInv, Order, Before
  <2>2. \A q \in Queued \cup Hand \cup Sock : q.n \in Nat
    BY <1>1, OnTheWay DEF Packets
  <2> QED
    BY <2>1, <2>2, <1>3, <1>5, <1>6
<1>8. p.n > Len(verdict[s])
  BY <1>1 DEF SInv, Kept
<1>9. ASSUME p.n # Len(verdict[s]) + 1 PROVE FALSE
  <2> DEFINE m == Len(verdict[s]) + 1
             q == [src |-> s, n |-> m]
  <2>1. m \in 1..Len(arrived[s]) /\ m > Len(verdict[s]) /\ m < p.n /\ m \in Nat
    <3>1. \A a, b, n \in Nat : n \in 1..a /\ n > b /\ n # b + 1 =>
            b + 1 \in 1..a /\ b + 1 > b /\ b + 1 < n /\ b + 1 \in Nat
      OBVIOUS
    <3> HIDE DEF s, p
    <3> QED
      BY <1>2, <1>3, <1>8, <1>9, <3>1
  <2>2. q \in Desk \cup Queued \cup Hand \cup Sock \cup lost
    BY <2>1, <1>2 DEF SInv, Kept
  <2>3. q.src = s /\ q.n = m /\ q # p
    BY <2>1
  <2> HIDE DEF q, m
  <2> QED
    BY <2>1, <2>2, <2>3, <1>3, <1>7
<1> QED
  BY <1>1, <1>2, <1>7, <1>9

\* Dissection gives the next packet of the stream the verdict that the stream
\* means, and the sensor learns the template that it carries.
LEMMA DissectEffect ==
  ASSUME SInv, NEW w \in Workers, WorkerDissect(w),
         NEW s, s = packet[w].src, NEW k, k = Len(verdict[s])
  PROVE  /\ wpc[w] = "dissect" /\ ~crashed /\ s \in Sensors /\ s \in Sources
         /\ k \in Nat /\ k < Len(arrived[s]) /\ packet[w].n = k + 1
         /\ arrived[s][k + 1] \in Stream!Contents
         /\ tmpl' = IF arrived[s][k + 1].kind = "template"
                    THEN [tmpl EXCEPT ![s] = tmpl[s] \cup {arrived[s][k + 1].tid}]
                    ELSE tmpl
         /\ verdict' = [verdict EXCEPT ![s] =
                          Append(verdict[s], Stream!Meaning(arrived[s], k + 1))]
         /\ wpc' = [wpc EXCEPT ![w] = IF Stream!Meaning(arrived[s], k + 1) = "decoded"
                                      THEN "send" ELSE "free"]
         /\ UNCHANGED <<mpc, sock, lpc, qpacket, queue, packet, freed, crashed,
                        arrived, produced, lost>>
<1> DEFINE c == arrived[s][k + 1]
           known == c.kind = "data" /\ c.tid \in tmpl[s]
           v == CASE c.kind = "template" -> "learned"
                  [] c.kind = "data" -> IF known THEN "decoded" ELSE "unknown"
                  [] c.kind = "other" -> "ignored"
<1>1. wpc[w] = "dissect" /\ ~crashed /\ IInv
  BY DEF WorkerDissect, Alive, SInv
<1>2. s \in Sensors /\ packet[w].n = k + 1 /\ packet[w].n \in 1..Len(arrived[s])
  BY <1>1, DissectsNext
<1>3. s \in Sources /\ Len(arrived[s]) \in Nat /\ k \in Nat
  BY <1>1, <1>2 DEF Sources, IInv, TypeOK, OutType
<1>4. k < Len(arrived[s])
  BY <1>2, <1>3
<1>5. c \in Stream!Contents
  BY <1>1, <1>2, <1>3 DEF IInv, TypeOK, OutType
<1>6. /\ tmpl' = IF c.kind = "template"
                 THEN [tmpl EXCEPT ![s] = tmpl[s] \cup {c.tid}] ELSE tmpl
      /\ verdict' = [verdict EXCEPT ![s] = Append(verdict[s], v)]
      /\ wpc' = [wpc EXCEPT ![w] = IF known THEN "send" ELSE "free"]
      /\ UNCHANGED <<mpc, sock, lpc, qpacket, queue, packet, freed, crashed,
                     arrived, produced, lost>>
  BY <1>2 DEF WorkerDissect, mainVars, listenVars
<1>7. c.kind = "data" => c.tid \in Tids
  BY <1>5 DEF Stream!Contents
<1>8. c.kind \in {"template", "data", "other"}
  BY <1>5 DEF Stream!Contents
<1>9. c.kind = "data" =>
        (c.tid \in tmpl[s] <=> Stream!TemplateBefore(arrived[s], k + 1, c.tid))
  BY <1>2, <1>7 DEF SInv, Learned
<1> HIDE DEF c
<1>10. Stream!Meaning(arrived[s], k + 1) = v
  BY <1>8, <1>9 DEF Stream!Meaning, c
<1>11. v = "decoded" <=> known
  BY <1>8
<1> HIDE DEF v, known
<1> QED
  BY <1>1, <1>2, <1>3, <1>4, <1>5, <1>6, <1>10, <1>11 DEF c

\* Which templates came before, one packet further in the stream.
LEMMA OneMore ==
  ASSUME NEW seq, NEW k \in Nat, NEW d
  PROVE  Stream!TemplateBefore(seq, k + 2, d) <=>
           \/ Stream!TemplateBefore(seq, k + 1, d)
           \/ seq[k + 1].kind = "template" /\ seq[k + 1].tid = d
<1> DEFINE Has(j) == seq[j].kind = "template" /\ seq[j].tid = d
<1>1. (k + 2) - 1 = k + 1 /\ (k + 1) - 1 = k
  OBVIOUS
<1>2. /\ Stream!TemplateBefore(seq, k + 2, d) <=> \E j \in 1..(k + 1) : Has(j)
      /\ Stream!TemplateBefore(seq, k + 1, d) <=> \E j \in 1..k : Has(j)
  BY <1>1, Zenon DEF Stream!TemplateBefore
<1>3. \A j : j \in 1..(k + 1) <=> j \in 1..k \/ j = k + 1
  OBVIOUS
<1>4. (\E j \in 1..(k + 1) : Has(j)) <=> (\E j \in 1..k : Has(j)) \/ Has(k + 1)
  <2> HIDE DEF Has
  <2> QED
    BY <1>3
<1> QED
  BY <1>2, <1>4, Zenon

\* A worker dissects a packet.
LEMMA WorkerDissectS ==
  ASSUME SInv, NEW w \in Workers, WorkerDissect(w) PROVE SInv'
<1> DEFINE p == packet[w]
           s == p.src
           k == Len(verdict[s])
           c == arrived[s][k + 1]
           m == Stream!Meaning(arrived[s], k + 1)
<1>0. /\ wpc[w] = "dissect" /\ ~crashed /\ s \in Sensors /\ s \in Sources
      /\ k \in Nat /\ k < Len(arrived[s]) /\ p.n = k + 1
      /\ c \in Stream!Contents
      /\ tmpl' = IF c.kind = "template"
                 THEN [tmpl EXCEPT ![s] = tmpl[s] \cup {c.tid}] ELSE tmpl
      /\ verdict' = [verdict EXCEPT ![s] = Append(verdict[s], m)]
      /\ wpc' = [wpc EXCEPT ![w] = IF m = "decoded" THEN "send" ELSE "free"]
      /\ UNCHANGED <<mpc, sock, lpc, qpacket, queue, packet, freed, crashed,
                     arrived, produced, lost>>
  BY DissectEffect
<1>1. IInv /\ IInv'
  BY WorkerDissectInv DEF SInv
<1>2. /\ wpc \in [Workers -> {"off", "pop", "null", "dissect", "send", "free", "exit"}]
      /\ verdict \in [Sources -> Seq(Stream!Verdicts)]
      /\ arrived \in [Sources -> Seq(Stream!Contents)]
      /\ tmpl \in [Sensors -> SUBSET Tids]
      /\ packet \in [Workers -> Packets \cup {NoPacket}]
      /\ Len(arrived[s]) \in Nat
  BY <1>0, <1>1 DEF IInv, TypeOK, WorkType, OutType
<1>3. /\ p = [src |-> s, n |-> k + 1] /\ p \in Packets /\ p \in Desk
      /\ \A q \in (Desk \ {p}) \cup Queued \cup Hand \cup Sock \cup lost :
           q.src = s => q.n > p.n
  BY <1>0, DissectsNext DEF Packets
<1>4. worker_idx(s) = w
  BY <1>0 DEF SInv, Routes
<1>5. \A v \in Workers \ {w} : wpc[v] \in {"dissect", "send"} => packet[v].src # s
  BY <1>4 DEF SInv, Routes
<1>6. Desk' = Desk \ {p}
  <2>1. \A v \in Workers \ {w} : wpc'[v] = wpc[v] /\ packet'[v] = packet[v]
    BY <1>0, <1>2
  <2>2. wpc'[w] # "dissect"
    BY <1>0, <1>2
  <2>3. ASSUME NEW q \in Desk' PROVE q \in Desk \ {p}
    <3>1. PICK v \in Workers : wpc'[v] = "dissect" /\ q = packet'[v]
      BY <2>3 DEF Desk
    <3> QED
      BY <3>1, <2>1, <2>2, <1>5 DEF Desk
  <2>4. ASSUME NEW q \in Desk \ {p} PROVE q \in Desk'
    <3>1. PICK v \in Workers : wpc[v] = "dissect" /\ q = packet[v]
      BY <2>4 DEF Desk
    <3> QED
      BY <3>1, <2>1, <2>4 DEF Desk
  <2> QED
    BY <2>3, <2>4
<1>7. Sock' = Sock /\ Queued' = Queued /\ Hand' = Hand
  BY <1>0 DEF Sock, Queued, Hand
<1>8. /\ verdict'[s] = Append(verdict[s], m) /\ Len(verdict'[s]) = k + 1
      /\ verdict'[s][k + 1] = m
      /\ \A i \in 1..k : verdict'[s][i] = verdict[s][i]
      /\ \A t \in Sources \ {s} : verdict'[t] = verdict[t]
  BY <1>0, <1>2
<1>9. \A t \in Sources : Len(verdict[t]) \in Nat
  BY <1>2
<1> HIDE DEF p, s, k, c, m
<1>10. Routes'
  BY <1>0, <1>2 DEF SInv, Routes
<1>11. Order'
  BY <1>0, <1>6, <1>7 DEF SInv, Order
<1>12. Kept'
  <2>1. ASSUME NEW q \in Desk' \cup Queued' \cup Hand' \cup Sock' \cup lost'
        PROVE  q.n > Len(verdict'[q.src])
    <3>1. q \in (Desk \ {p}) \cup Queued \cup Hand \cup Sock \cup lost
      BY <2>1, <1>0, <1>6, <1>7
    <3>2. q.src \in Sources
      BY <3>1, <1>1, OnTheWay DEF SInv, Gone, Known, Sources
    <3>3. CASE q.src = s
      BY <3>1, <3>3, <1>0, <1>3, <1>8
    <3>4. CASE q.src # s
      BY <3>1, <3>2, <3>4, <1>8 DEF SInv, Kept
    <3> QED
      BY <3>3, <3>4
  <2>2. ASSUME NEW t \in Sensors, NEW n \in 1..Len(arrived[t]), n > Len(verdict'[t])
        PROVE  [src |-> t, n |-> n] \in Desk' \cup Queued' \cup Hand' \cup Sock' \cup lost'
    <3> DEFINE q == [src |-> t, n |-> n]
    <3>1. n > Len(verdict[t]) /\ q # p
      <4>1. CASE t = s
        <5>1. n > k + 1 /\ n \in Nat /\ k = Len(verdict[t])
          BY <2>2, <4>1, <1>8 DEF k
        <5>2. q.n # p.n
          BY <5>1, <1>0
        <5> QED
          BY <5>1, <5>2, <1>0
      <4>2. CASE t # s
        BY <2>2, <4>2, <1>8, <1>3 DEF Sources
      <4> QED
        BY <4>1, <4>2
    <3>2. q \in Desk \cup Queued \cup Hand \cup Sock \cup lost
      BY <3>1 DEF SInv, Kept
    <3> QED
      BY <3>1, <3>2, <1>0, <1>6, <1>7
  <2> QED
    BY <2>1, <2>2, <1>0 DEF Kept
<1>13. Gone'
  BY <1>0, <1>6, <1>7 DEF SInv, Gone
<1>14. Learned'
  <2>1. \A t \in Sources : Len(verdict'[t]) <= Len(arrived'[t])
    BY <1>0, <1>2, <1>8 DEF SInv, Learned
  <2>2. ASSUME NEW t \in Sensors, NEW d \in Tids
        PROVE  d \in tmpl'[t] <=>
                 Stream!TemplateBefore(arrived[t], Len(verdict'[t]) + 1, d)
    <3>1. CASE t # s
      BY <3>1, <1>0, <1>2, <1>8 DEF SInv, Learned, Sources
    <3>2. CASE t = s
      <4>1. d \in tmpl[s] <=> Stream!TemplateBefore(arrived[s], k + 1, d)
        BY <1>0 DEF SInv, Learned, k
      <4>2. d \in tmpl'[s] <=> d \in tmpl[s] \/ (c.kind = "template" /\ c.tid = d)
        BY <1>0, <1>2
      <4>4. Stream!TemplateBefore(arrived[s], k + 2, d) <=>
              \/ Stream!TemplateBefore(arrived[s], k + 1, d)
              \/ c.kind = "template" /\ c.tid = d
        BY <1>0, OneMore DEF c
      <4>5. Len(verdict'[s]) + 1 = k + 2
        BY <1>0, <1>8
      <4> QED
        BY <3>2, <4>1, <4>2, <4>4, <4>5
    <3> QED
      BY <3>1, <3>2
  <2> QED
    BY <2>1, <2>2, <1>0 DEF Learned
<1>15. Produced'
  <2>1. ASSUME NEW i \in DOMAIN produced
        PROVE  /\ produced[i].src \in Sensors
               /\ produced[i].n \in 1..Len(verdict'[produced[i].src])
               /\ verdict'[produced[i].src][produced[i].n] = "decoded"
               /\ Before(produced[i], p)
    <3>1. /\ produced[i].src \in Sensors
          /\ produced[i].n \in 1..Len(verdict[produced[i].src])
          /\ verdict[produced[i].src][produced[i].n] = "decoded"
      BY DEF SInv, Produced
    <3>2. CASE produced[i].src = s
      <4>1. produced[i].n \in 1..k
        BY <3>1, <3>2 DEF k
      <4> QED
        BY <3>1, <3>2, <4>1, <1>0, <1>8 DEF Before
    <3>3. CASE produced[i].src # s
      BY <3>1, <3>3, <1>8 DEF Before, Sources, s
    <3> QED
      BY <3>2, <3>3
  <2>2. ASSUME NEW v \in Workers, wpc'[v] = "send"
        PROVE  /\ packet[v].n = Len(verdict'[packet[v].src])
               /\ verdict'[packet[v].src][packet[v].n] = "decoded"
               /\ \A i \in DOMAIN produced : Before(produced[i], packet[v])
    <3>1. CASE v = w
      <4>1. m = "decoded"
        BY <2>2, <3>1, <1>0, <1>2
      <4> QED
        BY <3>1, <4>1, <2>1, <1>0, <1>8 DEF p, s
    <3>2. CASE v # w
      <4>1. wpc[v] = "send" /\ packet[v].src # s
        BY <2>2, <3>2, <1>0, <1>2, <1>5
      <4>2. packet[v].src \in Sources
        BY <4>1, <1>1 DEF IInv, InFlight, Known, Sources
      <4> QED
        BY <4>1, <4>2, <1>8 DEF SInv, Produced
    <3> QED
      BY <3>1, <3>2
  <2> QED
    BY <2>1, <2>2, <1>0 DEF SInv, Produced
<1> QED
  BY <1>1, <1>10, <1>11, <1>12, <1>13, <1>14, <1>15 DEF SInv

\* A worker produces a record, or librdkafka refuses it.
LEMMA WorkerSendS ==
  ASSUME SInv, NEW w \in Workers, WorkerSend(w) PROVE SInv'
<1> DEFINE p == packet[w]
<1>0. /\ wpc[w] = "send"
      /\ produced' = Append(produced, p) \/ produced' = produced
      /\ wpc' = [wpc EXCEPT ![w] = "free"]
      /\ UNCHANGED <<mpc, sock, lpc, qpacket, queue, packet, freed, tmpl, crashed,
                     arrived, verdict, lost>>
  BY DEF WorkerSend, mainVars, listenVars
<1>1. IInv /\ IInv'
  BY WorkerSendInv DEF SInv
<1>2. /\ wpc \in [Workers -> {"off", "pop", "null", "dissect", "send", "free", "exit"}]
      /\ produced \in Seq(Packets) /\ p \in Packets /\ p.src \in Sensors
      /\ p.n \in 1..Len(arrived[p.src])
  BY <1>0, <1>1 DEF IInv, TypeOK, WorkType, OutType, InFlight, Known
<1>3. /\ \A v \in Workers \ {w} : wpc'[v] = wpc[v]
      /\ wpc'[w] = "free"
  BY <1>0, <1>2
<1>4. Desk' = Desk
  BY <1>0, <1>2, <1>3 DEF Desk
<1>5. Sock' = Sock /\ Queued' = Queued /\ Hand' = Hand
  BY <1>0 DEF Sock, Queued, Hand
<1>6. worker_idx(p.src) = w /\ \A v \in Workers \ {w} :
        wpc[v] = "send" => packet[v].src # p.src
  BY <1>0 DEF SInv, Routes
<1>7. /\ p.n = Len(verdict[p.src]) /\ verdict[p.src][p.n] = "decoded"
      /\ \A i \in DOMAIN produced : Before(produced[i], p)
      /\ p.n \in 1..Len(verdict[p.src])
  BY <1>0, <1>2 DEF SInv, Produced
<1> HIDE DEF p
<1>8. Routes' /\ Order' /\ Kept' /\ Gone' /\ Learned'
  <2>1. Routes'
    BY <1>0, <1>3 DEF SInv, Routes
  <2>2. Order' /\ Kept' /\ Gone' /\ Learned'
    BY <1>0, <1>4, <1>5 DEF SInv, Order, Kept, Gone, Learned
  <2> QED
    BY <2>1, <2>2
<1>9. Produced'
  <2>1. CASE produced' = produced
    BY <2>1, <1>0, <1>3 DEF SInv, Produced
  <2>2. CASE produced' = Append(produced, p)
    <3> DEFINE n == Len(produced)
    <3>1. /\ n \in Nat /\ DOMAIN produced = 1..n /\ DOMAIN produced' = 1..(n + 1)
          /\ produced'[n + 1] = p
          /\ \A i \in 1..n : produced'[i] = produced[i]
      BY <2>2, <1>2
    <3> HIDE DEF n
    <3>2. ASSUME NEW i \in DOMAIN produced'
          PROVE  /\ produced'[i].src \in Sensors
                 /\ produced'[i].n \in 1..Len(verdict[produced'[i].src])
                 /\ verdict[produced'[i].src][produced'[i].n] = "decoded"
      <4>1. CASE i \in 1..n
        BY <4>1, <3>1 DEF SInv, Produced
      <4>2. CASE i = n + 1
        BY <4>2, <3>1, <1>2, <1>7
      <4> QED
        BY <4>1, <4>2, <3>1
    <3>3. Sorted(produced')
      <4>1. ASSUME NEW i \in DOMAIN produced', NEW j \in DOMAIN produced', i < j
            PROVE  Before(produced'[i], produced'[j])
        <5>1. i \in 1..n /\ (j \in 1..n \/ j = n + 1)
          BY <4>1, <3>1
        <5> QED
          BY <5>1, <4>1, <3>1, <1>7 DEF SInv, Produced, Sorted
      <4> QED
        BY <4>1 DEF Sorted
    <3>4. ASSUME NEW v \in Workers, wpc'[v] = "send"
          PROVE  /\ packet[v].n = Len(verdict[packet[v].src])
                 /\ verdict[packet[v].src][packet[v].n] = "decoded"
                 /\ \A i \in DOMAIN produced' : Before(produced'[i], packet[v])
      <4>1. v # w /\ wpc[v] = "send" /\ packet[v].src # p.src
        BY <3>4, <1>3, <1>6
      <4>2. ASSUME NEW i \in DOMAIN produced' PROVE Before(produced'[i], packet[v])
        <5>1. i \in 1..n \/ i = n + 1
          BY <3>1
        <5> QED
          BY <5>1, <4>1, <3>1 DEF SInv, Produced, Before
      <4> QED
        BY <4>1, <4>2 DEF SInv, Produced
    <3> QED
      BY <3>2, <3>3, <3>4, <1>0 DEF Produced
  <2> QED
    BY <2>1, <2>2, <1>0
<1> QED
  BY <1>1, <1>8, <1>9 DEF SInv

\* The steps of a worker that hold no packet to dissect or to send.
LEMMA WorkerIdleS ==
  ASSUME SInv, NEW w \in Workers,
         WorkerTimeout(w) \/ WorkerCheckRun(w) \/ WorkerFree(w)
  PROVE  SInv'
<1>0. /\ wpc[w] \in {"pop", "null", "free"}
      /\ \E pc \in {"null", "pop", "exit"} : wpc' = [wpc EXCEPT ![w] = pc]
      /\ packet' = packet \/ packet' = [packet EXCEPT ![w] = NoPacket]
      /\ UNCHANGED <<mpc, sock, lpc, qpacket, queue, freed, tmpl, crashed, arrived,
                     verdict, produced, lost>>
  BY DEF WorkerTimeout, WorkerCheckRun, WorkerFree, mainVars, listenVars, history
<1>1. PICK pc \in {"null", "pop", "exit"} : wpc' = [wpc EXCEPT ![w] = pc]
  BY <1>0
<1>2. IInv /\ IInv'
  BY WorkerIdleInv, WorkerFreeInv DEF SInv
<1>3. /\ wpc \in [Workers -> {"off", "pop", "null", "dissect", "send", "free", "exit"}]
      /\ packet \in [Workers -> Packets \cup {NoPacket}]
  BY <1>2 DEF IInv, TypeOK, WorkType
<1>4. mpc \notin {"listeners", "workers"}
  BY <1>0 DEF SInv, Routes
<1>5. \A v \in Workers : /\ wpc'[v] = "dissect" <=> wpc[v] = "dissect"
                         /\ wpc'[v] = "send" <=> wpc[v] = "send"
                         /\ wpc[v] \in {"dissect", "send"} => packet'[v] = packet[v]
  BY <1>0, <1>1, <1>3
<1> QED
  BY <1>0, <1>2, <1>4, <1>5, NothingMoves

-----------------------------------------------------------------------------
(* The other steps of the listeners, librdkafka and the main thread.       *)

\* A listener looks at the flag.
LEMMA ListenerCheckS ==
  ASSUME SInv, NEW l \in Listeners, ListenerCheck(l) PROVE SInv'
<1>0. /\ lpc[l] = "check"
      /\ \E pc \in {"end", "recv"} : lpc' = [lpc EXCEPT ![l] = pc]
      /\ UNCHANGED <<mpc, sock, qpacket, queue, wpc, packet, freed, tmpl, crashed,
                     arrived, verdict, produced, lost>>
  BY DEF ListenerCheck, mainVars, workVars, history
<1>1. PICK pc \in {"end", "recv"} : lpc' = [lpc EXCEPT ![l] = pc]
  BY <1>0
<1>2. IInv /\ IInv'
  BY ListenerCheckInv DEF SInv
<1>3. lpc \in [Listeners -> {"off", "check", "recv", "push", "end"}]
  BY <1>2 DEF IInv, TypeOK, ListenType
<1>4. mpc # "listeners"
  BY <1>0 DEF SInv, Routes
<1>5. \A k \in Listeners : lpc'[k] = "push" <=> lpc[k] = "push"
  BY <1>0, <1>1, <1>3
<1> QED
  BY <1>0, <1>2, <1>4, <1>5, NothingMoves DEF SInv, Routes

\* Steps that leave every thread where it was.
LEMMA StillS ==
  ASSUME SInv, IInv', UNCHANGED <<sock, lpc, qpacket, queue, wpc, packet, freed, tmpl,
                            crashed, arrived, verdict, produced, lost>>,
         mpc' \in {"listeners", "workers"} => mpc' = mpc
  PROVE  SInv'
  BY NothingMoves DEF SInv, Routes

\* The main thread starts the listeners.
LEMMA MainListenersS == ASSUME SInv, MainListeners PROVE SInv'
<1>0. /\ mpc = "listeners" /\ mpc' = "workers"
      /\ lpc' = [l \in Listeners |-> "check"]
      /\ UNCHANGED <<sock, qpacket, queue, wpc, packet, freed, tmpl, crashed, arrived,
                     verdict, produced, lost>>
  BY DEF MainListeners, workVars, history
<1>1. IInv'
  BY MainListenersInv DEF SInv
<1>2. \A l \in Listeners : lpc'[l] # "push" /\ lpc[l] # "push"
  BY <1>0 DEF SInv, Routes
<1>3. \A w \in Workers : wpc[w] = "off"
  BY <1>0 DEF SInv, Routes
<1> QED
  BY <1>0, <1>1, <1>2, <1>3, NothingMoves

\* The main thread starts the workers.
LEMMA MainWorkersS == ASSUME SInv, MainWorkers PROVE SInv'
<1>0. /\ mpc = "workers" /\ mpc' = "sensors"
      /\ wpc' = [w \in Workers |-> "pop"]
      /\ UNCHANGED <<sock, lpc, qpacket, queue, packet, freed, tmpl, crashed, arrived,
                     verdict, produced, lost>>
  BY DEF MainWorkers, listenVars, history
<1>1. IInv'
  BY MainWorkersInv DEF SInv
<1>2. \A w \in Workers : wpc'[w] \notin {"dissect", "send"}
                         /\ wpc[w] \notin {"dissect", "send"}
  BY <1>0 DEF SInv, Routes
<1> QED
  BY <1>0, <1>1, <1>2, NothingMoves

\* The main thread joins a worker: what is left in its queue is lost.
LEMMA MainJoinS == ASSUME SInv, MainJoin PROVE SInv'
<1> DEFINE gone == Elems(queue[next])
<1>0. /\ mpc = "join" /\ wpc[next] = "exit"
      /\ freed' = [freed EXCEPT ![next] = TRUE]
      /\ queue' = [queue EXCEPT ![next] = <<>>]
      /\ lost' = lost \cup gone
      /\ mpc' \in {"stop", "flush"}
      /\ UNCHANGED <<sock, lpc, qpacket, wpc, packet, tmpl, crashed, arrived, verdict,
                     produced>>
  BY DEF MainJoin, listenVars, Elems
<1>1. IInv /\ IInv'
  BY MainJoinInv DEF SInv
<1>2. /\ queue \in [Workers -> Seq(Packets)] /\ freed \in [Workers -> BOOLEAN]
      /\ next \in Workers
  BY <1>0, <1>1, WorkersType DEF IInv, TypeOK, WorkType, MainType, MainInv, Workers
<1>3. /\ \A v \in Workers \ {next} : queue'[v] = queue[v] /\ freed'[v] = freed[v]
      /\ queue'[next] = <<>> /\ freed'[next]
  BY <1>0, <1>2
<1>4. \A e \in gone : worker_idx(e.src) = next
  BY <1>2 DEF SInv, Routes, Elems
<1>5. \A v \in Workers : \A e \in Elems(queue[v]) : worker_idx(e.src) = v
  BY DEF SInv, Routes, Elems
<1>6. Queued' = Queued \ gone /\ gone \subseteq Queued
  <2>1. Elems(queue'[next]) = {}
    BY <1>3 DEF Elems
  <2>2. ASSUME NEW q \in Queued' PROVE q \in Queued \ gone
    <3>1. PICK v \in Workers : q \in Elems(queue'[v])
      BY <2>2 DEF Queued
    <3>2. v # next
      BY <3>1, <2>1
    <3> QED
      BY <3>1, <3>2, <1>3, <1>4, <1>5 DEF Queued
  <2>3. ASSUME NEW q \in Queued \ gone PROVE q \in Queued'
    <3>1. PICK v \in Workers : q \in Elems(queue[v])
      BY <2>3 DEF Queued
    <3>2. v # next
      BY <3>1, <2>3
    <3> QED
      BY <3>1, <3>2, <1>3 DEF Queued
  <2>4. gone \subseteq Queued
    BY <1>2 DEF Queued
  <2> QED
    BY <2>2, <2>3, <2>4
<1>7. Sock' = Sock /\ Hand' = Hand /\ Desk' = Desk
  BY <1>0 DEF Sock, Hand, Desk
<1>8. \A e \in gone : e \notin Desk \cup Hand \cup Sock
  BY <1>6, <1>1, OnTheWay DEF SInv, Order, Before, Packets
<1> HIDE DEF gone
<1>9. Routes'
  <2>1. \A v \in Workers : \A i \in DOMAIN queue'[v] : worker_idx(queue'[v][i].src) = v
    BY <1>3 DEF SInv, Routes
  <2> QED
    BY <1>0, <2>1 DEF SInv, Routes
<1>10. Order'
  <2>1. \A v \in Workers : Sorted(queue'[v])
    BY <1>3 DEF SInv, Order, Sorted
  <2> QED
    BY <1>0, <1>6, <1>7, <2>1 DEF SInv, Order
<1>11. Kept'
  <2>1. Desk' \cup Queued' \cup Hand' \cup Sock' \cup lost'
          = Desk \cup Queued \cup Hand \cup Sock \cup lost
    BY <1>0, <1>6, <1>7
  <2> QED
    BY <1>0, <2>1 DEF SInv, Kept
<1>12. Gone'
  <2>1. ASSUME NEW q \in lost' PROVE q \notin Desk' \cup Queued' \cup Hand' \cup Sock'
    BY <2>1, <1>0, <1>6, <1>7, <1>8 DEF SInv, Gone
  <2>2. \A q \in gone : Known(q, Sources, arrived)
    BY <1>6, <1>1, OnTheWay DEF Known, Sources
  <2>3. \A q \in lost' : Known(q, Sources, arrived')
    BY <2>2, <1>0 DEF SInv, Gone
  <2>4. ASSUME NEW q \in lost', q.src \in Sensors
        PROVE  crashed' \/ freed'[worker_idx(q.src)]
    <3>1. worker_idx(q.src) \in Workers
      BY <2>4, BoundWorker
    <3> QED
      BY <2>4, <3>1, <1>0, <1>2, <1>3, <1>4 DEF SInv, Gone
  <2> QED
    BY <2>1, <2>3, <2>4 DEF Gone
<1>13. Learned' /\ Produced'
  BY <1>0 DEF SInv, Learned, Produced
<1> QED
  BY <1>1, <1>9, <1>10, <1>11, <1>12, <1>13 DEF SInv

-----------------------------------------------------------------------------
(* The invariant holds, and what follows from it.                          *)

LEMMA NextS == SInv /\ [Next]_vars => SInv'
<1> SUFFICES ASSUME SInv, [Next]_vars PROVE SInv'
  OBVIOUS
<1>0. IInv'
  BY NextInv DEF SInv
<1>1. ASSUME NEW s \in Sources, NEW c \in Stream!Contents, Arrive(s, c)
      PROVE  SInv'
  BY <1>1, ArriveS
<1>2. ASSUME NEW l \in Listeners, Listener(l) PROVE SInv'
  BY <1>2, ListenerCheckS, ListenerRecvS, ListenerPushS DEF Listener
<1>3. ASSUME NEW w \in Workers, Worker(w) PROVE SInv'
  BY <1>3, WorkerPopS, WorkerIdleS, WorkerDissectS, WorkerSendS DEF Worker
<1>4. CASE Report
  BY <1>0, <1>4, StillS DEF Report, mainVars, listenVars, workVars, history
<1>5. CASE Main \/ Sigterm
  <2>1. ASSUME \/ MainSensors \/ MainUp \/ MainLeave \/ MainClearRun \/ MainFlush
               \/ MainFreeDb \/ MainExit \/ Sigterm
        PROVE  SInv'
    <3>1. UNCHANGED <<sock, lpc, qpacket, queue, wpc, packet, freed, tmpl, crashed,
                      arrived, verdict, produced, lost>>
      BY <2>1 DEF MainSensors, MainUp, MainLeave, MainClearRun, MainFlush, MainFreeDb,
         MainExit, Sigterm, listenVars, workVars, history
    <3>2. mpc' \in {"listeners", "workers"} => mpc' = mpc
      BY <2>1 DEF MainSensors, MainUp, MainLeave, MainClearRun, MainFlush, MainFreeDb,
         MainExit, Sigterm
    <3> QED
      BY <1>0, <3>1, <3>2, StillS
  <2> QED
    BY <1>5, <2>1, MainListenersS, MainWorkersS, MainJoinS DEF Main
<1>6. CASE UNCHANGED vars
  BY <1>0, <1>6, StillS DEF vars, mainVars, listenVars, workVars, history
<1> QED
  BY <1>1, <1>2, <1>3, <1>4, <1>5, <1>6 DEF Next

\* The invariant holds in every reachable state.
THEOREM StreamInvariant == Spec => []SInv
  BY InitSInv, NextS, PTL DEF Spec

\* An arrival is an arrival of the stream, a dissection dissects the oldest
\* packet of the stream that is left, and no other step shows.
LEMMA StreamStep == SInv /\ [Next]_vars => [Stream!StreamNext]_(Stream!streamVars)
<1> SUFFICES ASSUME SInv, [Next]_vars
             PROVE  Stream!StreamNext \/ UNCHANGED <<arrived, verdict>>
  BY DEF Stream!streamVars
<1>1. ASSUME NEW s \in Sources, NEW c \in Stream!Contents, Arrive(s, c)
      PROVE  Stream!StreamNext
  BY <1>1 DEF Arrive, Stream!StreamNext, Stream!StreamArrive
<1>2. ASSUME NEW l \in Listeners, Listener(l) PROVE UNCHANGED <<arrived, verdict>>
  BY <1>2 DEF Listener, ListenerCheck, ListenerRecv, ListenerPush, history
<1>3. ASSUME NEW w \in Workers, WorkerDissect(w) PROVE Stream!StreamNext
  <2> DEFINE s == packet[w].src
  <2>1. /\ s \in Sources /\ Len(verdict[s]) < Len(arrived[s])
        /\ verdict' = [verdict EXCEPT ![s] =
             Append(verdict[s], Stream!Meaning(arrived[s], Len(verdict[s]) + 1))]
        /\ arrived' = arrived
    BY <1>3, DissectEffect
  <2>2. Stream!StreamDissect(s)
    BY <2>1 DEF Stream!StreamDissect
  <2> QED
    BY <2>1, <2>2 DEF Stream!StreamNext
<1>4. ASSUME NEW w \in Workers, Worker(w), ~WorkerDissect(w)
      PROVE  UNCHANGED <<arrived, verdict>>
  BY <1>4 DEF Worker, WorkerPop, WorkerTimeout, WorkerCheckRun, WorkerSend, WorkerFree,
     history
<1>5. CASE Report \/ Main \/ Sigterm \/ UNCHANGED vars
  BY <1>5 DEF Report, Main, MainListeners, MainWorkers, MainSensors, MainUp, MainLeave,
     MainClearRun, MainJoin, MainFlush, MainFreeDb, MainExit, Sigterm, vars, history
<1> QED
  BY <1>1, <1>2, <1>3, <1>4, <1>5 DEF Next

\* However many probes, ports and worker threads there are, each probe sees its
\* packets dissected in the order of their arrival, without gap, each data
\* packet against exactly the templates that arrived before it.
THEOREM CollectorImplementsStream == Spec => ImplementsStream
<1>1. Init => Stream!StreamInit
  BY DEF Init, Stream!StreamInit
<1> QED
  BY <1>1, StreamInvariant, StreamStep, PTL DEF Spec, ImplementsStream, Stream!StreamSpec

\* send_string_list_to_kafka is called for the records of one probe in the
\* order in which the probe sent them, and for decoded packets only.
THEOREM CollectorKafkaOrder == Spec => []KafkaOrder
<1>1. SInv => KafkaOrder
  BY DEF SInv, Produced, Sorted, Before, KafkaOrder
<1> QED
  BY <1>1, StreamInvariant, PTL

\* A line in order holds a packet at most once.
LEMMA CopiesOne ==
  ASSUME NEW q \in Seq(Packets), Sorted(q), NEW p
  PROVE  Copies(q, p) = IF p \in Elems(q) THEN 1 ELSE 0
<1>1. CASE p \notin Elems(q)
  <2>1. {i \in DOMAIN q : q[i] = p} = {}
    BY <1>1 DEF Elems
  <2> QED
    BY <1>1, <2>1, FS_EmptySet DEF Copies
<1>2. CASE p \in Elems(q)
  <2>1. PICK k \in DOMAIN q : q[k] = p
    BY <1>2 DEF Elems
  <2>2. ASSUME NEW i \in DOMAIN q, q[i] = p PROVE i = k
    <3>1. q[i] \in Packets /\ i \in Nat /\ k \in Nat
      OBVIOUS
    <3>2. ~(q[i].n < q[i].n)
      BY <3>1 DEF Packets
    <3>3. ~(i < k) /\ ~(k < i)
      BY <3>2, <2>1, <2>2 DEF Sorted, Before
    <3> QED
      BY <3>1, <3>3
  <2>3. {i \in DOMAIN q : q[i] = p} = {k}
    BY <2>1, <2>2
  <2> QED
    BY <1>2, <2>3, FS_Singleton DEF Copies
<1> QED
  BY <1>1, <1>2

\* Between the socket and the dissector no packet of a configured probe is
\* duplicated or silently dropped, whatever the threads do.
THEOREM CollectorOnePlace == Spec => []OnePlace
<1>1. ASSUME SInv, NEW s \in Sensors, NEW n \in 1..Len(arrived[s]), NEW p,
             p = [src |-> s, n |-> n]
      PROVE  1 = Copies(sock[PortOf[s]], p)
                   + Cardinality({l \in Listeners : qpacket[l] = p})
                   + Copies(queue[worker_idx(s)], p)
                   + Cardinality({w \in Workers : \E i \in DOMAIN queue[w] :
                                    queue[w][i] = p} \ {worker_idx(s)})
                   + Cardinality({w \in Workers : packet[w] = p /\ wpc[w] = "dissect"})
                   + (IF n <= Len(verdict[s]) THEN 1 ELSE 0)
                   + (IF p \in lost THEN 1 ELSE 0)
  <2> DEFINE lp == PortOf[s]
             wp == worker_idx(s)
  <2>0. /\ IInv /\ s \in Sources /\ lp \in Listeners /\ wp \in Workers
        /\ p.src = s /\ p.n = n /\ n \in Nat
    BY <1>1, BoundWorker, CollectorAssumption DEF SInv, Sources
  <2>1. /\ sock[lp] \in Seq(Packets) /\ queue[wp] \in Seq(Packets)
        /\ Len(arrived[s]) \in Nat /\ Len(verdict[s]) \in Nat
    BY <2>0 DEF IInv, TypeOK, ListenType, WorkType, OutType
  <2>2. p \in Packets /\ p # NoPacket
    BY <1>1, <2>0, CollectorAssumption DEF Packets
  <2> HIDE DEF lp, wp
  <2>3. Copies(sock[lp], p) = IF p \in Sock THEN 1 ELSE 0
    <3>1. Sorted(sock[lp])
      BY <1>1, <2>0 DEF SInv, Order
    <3>2. p \in Sock <=> p \in Elems(sock[lp])
      BY <1>1, <2>0 DEF SInv, Routes, Sock, Elems, lp
    <3> QED
      BY <3>1, <3>2, <2>1, CopiesOne
  <2>4. Copies(queue[wp], p) = IF p \in Queued THEN 1 ELSE 0
    <3>1. Sorted(queue[wp])
      BY <1>1, <2>0 DEF SInv, Order
    <3>2. p \in Queued <=> p \in Elems(queue[wp])
      BY <1>1, <2>0 DEF SInv, Routes, Queued, Elems, wp
    <3> QED
      BY <3>1, <3>2, <2>1, CopiesOne
  <2>5. Cardinality({l \in Listeners : qpacket[l] = p}) = IF p \in Hand THEN 1 ELSE 0
    <3>1. \A l \in Listeners : qpacket[l] = p => l = lp /\ lpc[l] = "push"
      BY <1>1, <2>0, <2>2 DEF SInv, Routes, lp
    <3>2. CASE p \in Hand
      <4>1. {l \in Listeners : qpacket[l] = p} = {lp}
        BY <3>1, <3>2 DEF Hand
      <4> QED
        BY <3>2, <4>1, FS_Singleton
    <3>3. CASE p \notin Hand
      <4>1. {l \in Listeners : qpacket[l] = p} = {}
        BY <3>1, <3>3 DEF Hand
      <4> QED
        BY <3>3, <4>1, FS_EmptySet
    <3> QED
      BY <3>2, <3>3
  <2>6. Cardinality({w \in Workers : \E i \in DOMAIN queue[w] : queue[w][i] = p} \ {wp}) = 0
    <3>1. {w \in Workers : \E i \in DOMAIN queue[w] : queue[w][i] = p} \ {wp} = {}
      BY <1>1, <2>0 DEF SInv, Routes, wp
    <3> QED
      BY <3>1, FS_EmptySet
  <2>7. Cardinality({w \in Workers : packet[w] = p /\ wpc[w] = "dissect"})
          = IF p \in Desk THEN 1 ELSE 0
    <3>1. \A w \in Workers : packet[w] = p /\ wpc[w] = "dissect" => w = wp
      BY <1>1, <2>0 DEF SInv, Routes, wp
    <3>2. CASE p \in Desk
      <4>1. {w \in Workers : packet[w] = p /\ wpc[w] = "dissect"} = {wp}
        BY <3>1, <3>2 DEF Desk
      <4> QED
        BY <3>2, <4>1, FS_Singleton
    <3>3. CASE p \notin Desk
      <4>1. {w \in Workers : packet[w] = p /\ wpc[w] = "dissect"} = {}
        BY <3>1, <3>3 DEF Desk
      <4> QED
        BY <3>3, <4>1, FS_EmptySet
    <3> QED
      BY <3>2, <3>3
  <2>8. /\ p \in Desk => p \notin Queued \cup Hand \cup Sock
        /\ p \in Queued => p \notin Hand \cup Sock
        /\ p \in Hand => p \notin Sock
    BY <1>1, <2>0 DEF SInv, Order, Before
  <2>9. p \in lost => p \notin Desk \cup Queued \cup Hand \cup Sock
    BY <1>1 DEF SInv, Gone
  <2>10. p \in Desk \cup Queued \cup Hand \cup Sock \cup lost <=> n > Len(verdict[s])
    BY <1>1, <2>0 DEF SInv, Kept
  <2>11. n > Len(verdict[s]) <=> ~(n <= Len(verdict[s]))
    BY <2>0, <2>1
  <2> QED
    BY <2>3, <2>4, <2>5, <2>6, <2>7, <2>8, <2>9, <2>10, <2>11 DEF lp, wp
<1>2. SInv => OnePlace
  BY <1>1 DEF OnePlace
<1> QED
  BY <1>2, StreamInvariant, PTL
=============================================================================
