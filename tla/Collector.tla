----------------------------- MODULE Collector -----------------------------
(***************************************************************************)
(* The pipeline of f2k in collector mode: UDP listener threads             *)
(* (rb_listener.c), one packet queue per worker thread (util.h), the       *)
(* worker loop (collect.c) and the life of the process in the main thread  *)
(* (f2k.c), from start-up to the orderly stop on SIGTERM.                  *)
(*                                                                         *)
(* A packet is identified by its source and its position in the stream of  *)
(* that source, so a packet that was lost or repeated by the network needs *)
(* no action of its own: arrived[s] is whatever reached the socket.        *)
(***************************************************************************)
EXTENDS Naturals, Sequences, FiniteSets

CONSTANTS Probes,      \* sequence: the configured sensors, in file order
          Strangers,   \* sources that no configured sensor network contains
          Listeners,   \* the listening UDP ports
          PortOf,      \* the port each source exports to
          NumWorkers,  \* --num-threads
          Tids,        \* template ids in use
          MaxPkts      \* bound: datagrams that reach the sockets in all

Sensors == {Probes[i] : i \in DOMAIN Probes}
Sources == Sensors \cup Strangers
Workers == 0..(NumWorkers - 1)
Packets == [src : Sources, n : Nat \ {0}]

NoPacket == [src |-> "none", n |-> 0]

ASSUME CollectorAssumption ==
  /\ NumWorkers \in Nat \ {0}
  /\ MaxPkts \in Nat
  /\ Probes \in Seq(Sensors)
  /\ \A i, j \in DOMAIN Probes : Probes[i] = Probes[j] => i = j
  /\ Sensors \cap Strangers = {}
  /\ PortOf \in [Sources -> Listeners]
  /\ NoPacket \notin Packets

VARIABLES
  mpc,      \* main thread
  next,     \* main thread: the worker it is stopping
  up,       \* readOnlyGlobals.f2k_up
  shutdown, \* readWriteGlobals->shutdownInProgress
  db,       \* rb_databases.sensors_info: not read yet, loaded, destroyed
  sock,     \* sock[l]: datagrams waiting in the socket of listener l
  lpc,      \* listener threads
  qpacket,  \* the packet a listener is holding
  queue,    \* worker->packetsQueue
  wpc,      \* worker threads
  packet,   \* the packet a worker is dissecting
  run,      \* worker->run
  freed,    \* the worker was released by collect_worker_done
  tmpl,     \* tmpl[s]: templates learned for sensor s
  outq,     \* librdkafka's queue of produced, unacknowledged messages
  kafka,    \* the producer handle is open or destroyed
  crashed,  \* the process died
  sent,     \* history: datagrams so far
  arrived,  \* history: what reached the sockets, per source
  verdict,  \* history: what dissection made of it, per source
  produced, \* history: the packets whose record librdkafka accepted
  lost      \* history: packets dropped because their worker was gone

mainVars == <<mpc, next, up, shutdown, db, kafka>>
listenVars == <<sock, lpc, qpacket>>
workVars == <<wpc, packet, run, freed, tmpl>>
history == <<sent, arrived, verdict, produced, lost>>
vars == <<mainVars, listenVars, queue, workVars, outq, crashed, history>>

\* What the threads below implement, seen from the probes: the histories of
\* arrivals and of verdicts are its variables.
Stream == INSTANCE ProbeStream WITH Sources <- Sources, Tids <- Tids,
                                    arrived <- arrived, verdict <- verdict

-----------------------------------------------------------------------------
\* read_sensors_config_networks hands the workers out in turn, one per sensor.
worker_idx(s) == ((CHOOSE i \in DOMAIN Probes : Probes[i] = s) - 1) % NumWorkers

Alive == ~crashed /\ mpc # "exited"

Init ==
  /\ mpc = "listeners" /\ next = 0 /\ up = FALSE /\ shutdown = FALSE
  /\ db = "none" /\ kafka = "open" /\ crashed = FALSE
  /\ sock = [l \in Listeners |-> <<>>]
  /\ lpc = [l \in Listeners |-> "off"]
  /\ qpacket = [l \in Listeners |-> NoPacket]
  /\ queue = [w \in Workers |-> <<>>]
  /\ wpc = [w \in Workers |-> "off"]
  /\ packet = [w \in Workers |-> NoPacket]
  /\ run = [w \in Workers |-> FALSE]
  /\ freed = [w \in Workers |-> FALSE]
  /\ tmpl = [s \in Sensors |-> {}]
  /\ outq = <<>> /\ produced = <<>> /\ lost = {} /\ sent = 0
  /\ arrived = [s \in Sources |-> <<>>]
  /\ verdict = [s \in Sources |-> <<>>]

-----------------------------------------------------------------------------
(* The network.                                                            *)

\* A datagram of source s with content c reaches the bound socket.
Arrive(s, c) ==
  LET l == PortOf[s]
      i == Len(arrived[s]) + 1
  IN /\ Alive /\ lpc[l] # "off" /\ sent < MaxPkts
     /\ sent' = sent + 1
     /\ arrived' = [arrived EXCEPT ![s] = Append(@, c)]
     /\ sock' = [sock EXCEPT ![l] = Append(@, [src |-> s, n |-> i])]
     /\ UNCHANGED <<mainVars, lpc, qpacket, queue, workVars, outq, crashed,
                    verdict, produced, lost>>

-----------------------------------------------------------------------------
(* A listener thread: netFlowCollectLoop0.                                 *)

\* while(!readWriteGlobals->shutdownInProgress)
ListenerCheck(l) ==
  /\ Alive /\ lpc[l] = "check"
  /\ lpc' = [lpc EXCEPT ![l] = IF shutdown THEN "end" ELSE "recv"]
  /\ UNCHANGED <<mainVars, sock, qpacket, queue, workVars, outq, crashed,
                 history>>

\* recvfrom returned a datagram: look its sender up.  A source without sensor
\* is ignored and its buffer reused.  The lookup asserts that the database
\* exists, and reads freed memory once the database was destroyed.
ListenerRecv(l) ==
  /\ Alive /\ lpc[l] = "recv" /\ sock[l] # <<>>
  /\ LET p == Head(sock[l])
         found == p.src \in Sensors
     IN /\ sock' = [sock EXCEPT ![l] = Tail(@)]
        /\ \/ /\ db # "none"
              /\ found
              /\ qpacket' = [qpacket EXCEPT ![l] = p]
              /\ lpc' = [lpc EXCEPT ![l] = "push"]
              /\ UNCHANGED <<crashed, lost>>
           \/ /\ db # "none"
              /\ ~found \/ db = "freed"
              /\ lpc' = [lpc EXCEPT ![l] = "check"]
              /\ lost' = IF found THEN lost \cup {p} ELSE lost
              /\ UNCHANGED <<crashed, qpacket>>
           \/ /\ db \in {"none", "freed"}
              /\ crashed' = TRUE
              /\ lost' = lost \cup {p}
              /\ UNCHANGED <<lpc, qpacket>>
  /\ UNCHANGED <<mainVars, queue, workVars, outq, sent, arrived, verdict, produced>>

\* Slips in the hand-over to the worker, for the mutation runs: the pointer is
\* cleared first; not cleared at all; the packet goes to any worker.
ListenerPushCleared(l) ==
  /\ Alive /\ lpc[l] = "push"
  /\ queue' = [queue EXCEPT ![worker_idx(qpacket[l].src)] = Append(@, NoPacket)]
  /\ qpacket' = [qpacket EXCEPT ![l] = NoPacket]
  /\ lpc' = [lpc EXCEPT ![l] = "check"]
  /\ UNCHANGED <<mainVars, sock, workVars, outq, crashed, history>>

ListenerPushKept(l) ==
  /\ Alive /\ lpc[l] = "push"
  /\ queue' = [queue EXCEPT ![worker_idx(qpacket[l].src)] =
                              Append(@, qpacket[l])]
  /\ lpc' = [lpc EXCEPT ![l] = "check"]
  /\ UNCHANGED <<mainVars, sock, qpacket, workVars, outq, crashed, history>>

ListenerPushAny(l) ==
  /\ Alive /\ lpc[l] = "push"
  /\ \E w \in Workers : ~freed[w]
       /\ queue' = [queue EXCEPT ![w] = Append(@, qpacket[l])]
  /\ qpacket' = [qpacket EXCEPT ![l] = NoPacket]
  /\ lpc' = [lpc EXCEPT ![l] = "check"]
  /\ UNCHANGED <<mainVars, sock, workVars, outq, crashed, history>>

\* add_packet_to_worker(qpacket, sensor_worker(qpacket->sensor)).  Sensor and
\* worker may have been freed since the lookup: the process may die, or the
\* packet vanish.
ListenerPush(l) ==
  /\ Alive /\ lpc[l] = "push"
  /\ LET p == qpacket[l]
         w == worker_idx(p.src)
     IN \/ /\ db = "loaded" /\ ~freed[w]
           /\ queue' = [queue EXCEPT ![w] = Append(@, p)]
           /\ UNCHANGED <<lost, crashed>>
        \/ /\ db = "freed" \/ freed[w]
           /\ lost' = lost \cup {p}
           /\ crashed' \in BOOLEAN
           /\ UNCHANGED queue
  /\ qpacket' = [qpacket EXCEPT ![l] = NoPacket]
  /\ lpc' = [lpc EXCEPT ![l] = "check"]
  /\ UNCHANGED <<mainVars, sock, workVars, outq, sent, arrived, verdict, produced>>

-----------------------------------------------------------------------------
(* A worker thread: netFlowConsumerLoop.                                   *)

\* Slip, for the mutation runs: the queue is popped at the wrong end.
WorkerPopNewest(w) ==
  /\ Alive /\ wpc[w] = "pop" /\ queue[w] # <<>>
  /\ packet' = [packet EXCEPT ![w] = queue[w][Len(queue[w])]]
  /\ queue' = [queue EXCEPT ![w] = SubSeq(@, 1, Len(@) - 1)]
  /\ wpc' = [wpc EXCEPT ![w] = "dissect"]
  /\ UNCHANGED <<mainVars, listenVars, run, freed, tmpl, outq, crashed,
                 history>>

\* popPacketFromQueue_timedwait returned a packet.
WorkerPop(w) ==
  /\ Alive /\ wpc[w] = "pop" /\ queue[w] # <<>>
  /\ packet' = [packet EXCEPT ![w] = Head(queue[w])]
  /\ queue' = [queue EXCEPT ![w] = Tail(@)]
  /\ wpc' = [wpc EXCEPT ![w] = "dissect"]
  /\ UNCHANGED <<mainVars, listenVars, run, freed, tmpl, outq, crashed,
                 history>>

\* It returned NULL: the queue stayed empty for 800 ms.
WorkerTimeout(w) ==
  /\ Alive /\ wpc[w] = "pop" /\ queue[w] = <<>>
  /\ wpc' = [wpc EXCEPT ![w] = "null"]
  /\ UNCHANGED <<mainVars, listenVars, queue, packet, run, freed, tmpl, outq,
                 crashed, history>>

\* Slips, for the mutation runs: the flag is not tested, or tested inverted.
WorkerNeverExits(w) ==
  /\ Alive /\ wpc[w] = "null"
  /\ wpc' = [wpc EXCEPT ![w] = "pop"]
  /\ UNCHANGED <<mainVars, listenVars, queue, packet, run, freed, tmpl, outq,
                 crashed, history>>

WorkerExitsIdle(w) ==
  /\ Alive /\ wpc[w] = "null"
  /\ wpc' = [wpc EXCEPT ![w] = "exit"]
  /\ UNCHANGED <<mainVars, listenVars, queue, packet, run, freed, tmpl, outq,
                 crashed, history>>

\* else if (ATOMIC_OP(fetch, add, &worker->run.value, 0) == 0) break;
WorkerCheckRun(w) ==
  /\ Alive /\ wpc[w] = "null"
  /\ wpc' = [wpc EXCEPT ![w] = IF run[w] THEN "pop" ELSE "exit"]
  /\ UNCHANGED <<mainVars, listenVars, queue, packet, run, freed, tmpl, outq,
                 crashed, history>>

\* dissectNetFlow: a template is saved, a data packet decoded or counted in
\* num_flows_unknown_template, anything else ignored.
WorkerDissect(w) ==
  /\ Alive /\ wpc[w] = "dissect"
  /\ LET s == packet[w].src
         c == arrived[s][packet[w].n]
         known == c.kind = "data" /\ c.tid \in tmpl[s]
     IN /\ tmpl' = IF c.kind = "template"
                   THEN [tmpl EXCEPT ![s] = @ \cup {c.tid}] ELSE tmpl
        /\ verdict' = [verdict EXCEPT ![s] = Append(@,
                         CASE c.kind = "template" -> "learned"
                           [] c.kind = "data" -> IF known THEN "decoded"
                                                 ELSE "unknown"
                           [] c.kind = "other" -> "ignored")]
        /\ wpc' = [wpc EXCEPT ![w] = IF known THEN "send" ELSE "free"]
  /\ UNCHANGED <<mainVars, listenVars, queue, packet, run, freed, outq,
                 crashed, sent, arrived, produced, lost>>

\* send_string_list_to_kafka: librdkafka takes the message, or refuses it (its
\* queue is full) and the message is freed.
WorkerSend(w) ==
  /\ Alive /\ wpc[w] = "send"
  /\ \/ /\ outq' = Append(outq, packet[w])
        /\ produced' = Append(produced, packet[w])
     \/ UNCHANGED <<outq, produced>>
  /\ wpc' = [wpc EXCEPT ![w] = "free"]
  /\ UNCHANGED <<mainVars, listenVars, queue, packet, run, freed, tmpl,
                 crashed, sent, arrived, verdict, lost>>

\* freeQueuedPacket, and around the loop.
WorkerFree(w) ==
  /\ Alive /\ wpc[w] = "free"
  /\ packet' = [packet EXCEPT ![w] = NoPacket]
  /\ wpc' = [wpc EXCEPT ![w] = "pop"]
  /\ UNCHANGED <<mainVars, listenVars, queue, run, freed, tmpl, outq, crashed,
                 history>>

\* librdkafka hears from the broker about a message, or gives up on it.
Report ==
  /\ Alive /\ outq # <<>>
  /\ outq' = Tail(outq)
  /\ UNCHANGED <<mainVars, listenVars, queue, workVars, crashed, history>>

-----------------------------------------------------------------------------
(* The main thread: parseOptions, main, stopCaptureFlushAll.               *)

\* wakeUpListenerList: the sockets are bound and the listeners started.
MainListeners ==
  /\ Alive /\ mpc = "listeners"
  /\ lpc' = [l \in Listeners |-> "check"]
  /\ mpc' = "workers"
  /\ UNCHANGED <<next, up, shutdown, db, kafka, sock, qpacket, queue, workVars,
                 outq, crashed, history>>

\* new_collect_worker for every thread.
MainWorkers ==
  /\ Alive /\ mpc = "workers"
  /\ wpc' = [w \in Workers |-> "pop"]
  /\ run' = [w \in Workers |-> TRUE]
  /\ mpc' = "sensors"
  /\ UNCHANGED <<next, up, shutdown, db, kafka, listenVars, queue, packet,
                 freed, tmpl, outq, crashed, history>>

\* read_rb_config.
MainSensors ==
  /\ Alive /\ mpc = "sensors"
  /\ db' = "loaded"
  /\ mpc' = "init"
  /\ UNCHANGED <<next, up, shutdown, kafka, listenVars, queue, workVars, outq,
                 crashed, history>>

\* The rest of main up to its loop: the flag is reset, the handlers installed.
MainUp ==
  /\ Alive /\ mpc = "init"
  /\ shutdown' = FALSE
  /\ up' = TRUE
  /\ mpc' = "loop"
  /\ UNCHANGED <<next, db, kafka, listenVars, queue, workVars, outq, crashed,
                 history>>

\* SIGTERM: cleanup() asks for the stop the first time and exits the next.
Sigterm ==
  /\ Alive
  /\ \/ /\ up
        /\ up' = FALSE /\ shutdown' = TRUE /\ UNCHANGED mpc
     \/ /\ ~up /\ mpc \in {"loop", "stop", "join", "flush", "free"}
        /\ mpc' = "exited" /\ UNCHANGED <<up, shutdown>>
  /\ UNCHANGED <<next, db, kafka, listenVars, queue, workVars, outq, crashed,
                 history>>

\* The loop sees f2k_up = 0 and calls stopCaptureFlushAll.
MainLeave ==
  /\ Alive /\ mpc = "loop" /\ ~up
  /\ shutdown' = TRUE
  /\ mpc' = "stop"
  /\ UNCHANGED <<next, up, db, kafka, listenVars, queue, workVars, outq,
                 crashed, history>>

\* collect_worker_done: clear the run flag ...
MainClearRun ==
  /\ Alive /\ mpc = "stop"
  /\ run' = [run EXCEPT ![next] = FALSE]
  /\ mpc' = "join"
  /\ UNCHANGED <<next, up, shutdown, db, kafka, listenVars, queue, wpc, packet,
                 freed, tmpl, outq, crashed, history>>

\* Slip, for the mutation runs: the worker is freed without joining it.
MainNoJoin ==
  /\ Alive /\ mpc = "join"
  /\ freed' = [freed EXCEPT ![next] = TRUE]
  /\ next' = next + 1
  /\ mpc' = IF next + 1 < NumWorkers THEN "stop" ELSE "flush"
  /\ UNCHANGED <<up, shutdown, db, kafka, listenVars, queue, wpc, packet, run,
                 tmpl, outq, crashed, history>>

\* ... join the thread, destroy its queues, free it, and take the next worker.
\* What is still queued goes with the queue.
MainJoin ==
  /\ Alive /\ mpc = "join" /\ wpc[next] = "exit"
  /\ freed' = [freed EXCEPT ![next] = TRUE]
  /\ queue' = [queue EXCEPT ![next] = <<>>]
  /\ lost' = lost \cup {queue[next][i] : i \in DOMAIN queue[next]}
  /\ next' = next + 1
  /\ mpc' = IF next + 1 < NumWorkers THEN "stop" ELSE "flush"
  /\ UNCHANGED <<up, shutdown, db, kafka, listenVars, wpc, packet, run, tmpl,
                 outq, crashed, sent, arrived, verdict, produced>>

\* while (rd_kafka_outq_len(rk) > 0) rd_kafka_poll(); destroy topic and handle.
MainFlush ==
  /\ Alive /\ mpc = "flush" /\ outq = <<>>
  /\ kafka' = "destroyed"
  /\ mpc' = "free"
  /\ UNCHANGED <<next, up, shutdown, db, listenVars, queue, workVars, outq,
                 crashed, history>>

\* delete_rb_sensors_db.
MainFreeDb ==
  /\ Alive /\ mpc = "free" /\ db = "loaded"
  /\ db' = "freed"
  /\ UNCHANGED <<mpc, next, up, shutdown, kafka, listenVars, queue, workVars,
                 outq, crashed, history>>

\* main returns.
MainExit ==
  /\ Alive /\ mpc = "free" /\ db = "freed"
  /\ mpc' = "exited"
  /\ UNCHANGED <<next, up, shutdown, db, kafka, listenVars, queue, workVars,
                 outq, crashed, history>>

-----------------------------------------------------------------------------
Listener(l) == ListenerCheck(l) \/ ListenerRecv(l) \/ ListenerPush(l)

Worker(w) == \/ WorkerPop(w) \/ WorkerTimeout(w) \/ WorkerCheckRun(w)
             \/ WorkerDissect(w) \/ WorkerSend(w) \/ WorkerFree(w)

Main == \/ MainListeners \/ MainWorkers \/ MainSensors \/ MainUp
        \/ MainLeave \/ MainClearRun \/ MainJoin \/ MainFlush
        \/ MainFreeDb \/ MainExit

Next == \/ \E s \in Sources, c \in Stream!Contents : Arrive(s, c)
        \/ \E l \in Listeners : Listener(l)
        \/ \E w \in Workers : Worker(w)
        \/ Report \/ Main \/ Sigterm
        \/ ~Alive /\ UNCHANGED vars

Spec == Init /\ [][Next]_vars

(***************************************************************************)
(* Every thread is scheduled: a thread that can step, steps.  librdkafka   *)
(* settles every message in the end (delivery or message.timeout.ms).      *)
(* Nothing is assumed of the network, nor of whoever sends SIGTERM.        *)
(***************************************************************************)
Fairness ==
  /\ \A l \in Listeners : WF_vars(Listener(l))
  /\ \A w \in Workers : WF_vars(Worker(w))
  /\ WF_vars(Main)
  /\ WF_vars(Report)

FairSpec == Spec /\ Fairness

-----------------------------------------------------------------------------
(* Properties.                                                             *)

MainType ==
  /\ mpc \in {"listeners", "workers", "sensors", "init", "loop", "stop",
              "join", "flush", "free", "exited"}
  /\ next \in 0..NumWorkers
  /\ up \in BOOLEAN /\ shutdown \in BOOLEAN /\ crashed \in BOOLEAN
  /\ db \in {"none", "loaded", "freed"}
  /\ kafka \in {"open", "destroyed"}

ListenType ==
  /\ sock \in [Listeners -> Seq(Packets)]
  /\ lpc \in [Listeners -> {"off", "check", "recv", "push", "end"}]
  /\ qpacket \in [Listeners -> Packets \cup {NoPacket}]

WorkType ==
  /\ queue \in [Workers -> Seq(Packets)]
  /\ wpc \in [Workers -> {"off", "pop", "null", "dissect", "send", "free",
                          "exit"}]
  /\ packet \in [Workers -> Packets \cup {NoPacket}]
  /\ run \in [Workers -> BOOLEAN]
  /\ freed \in [Workers -> BOOLEAN]
  /\ tmpl \in [Sensors -> SUBSET Tids]

OutType ==
  /\ outq \in Seq(Packets)
  /\ sent \in 0..MaxPkts
  /\ arrived \in [Sources -> Seq(Stream!Contents)]
  /\ verdict \in [Sources -> Seq(Stream!Verdicts)]
  /\ produced \in Seq(Packets)
  /\ lost \in SUBSET Packets

\* Every variable has its type.
TypeOK == MainType /\ ListenType /\ WorkType /\ OutType

\* The threads, queues and bindings of f2k are invisible to a probe: its
\* packets are dissected in arrival order, without gap, each data packet
\* against exactly the templates that arrived before it.
ImplementsStream == Stream!StreamSpec

\* The records of one probe reach Kafka in the order in which the probe sent
\* them, and only for packets that dissection decoded.
KafkaOrder ==
  /\ \A i, j \in DOMAIN produced :
       i < j /\ produced[i].src = produced[j].src
         => produced[i].n < produced[j].n
  /\ \A i \in DOMAIN produced :
       verdict[produced[i].src][produced[i].n] = "decoded"

\* How many copies of packet p a sequence holds.
Copies(seq, p) == Cardinality({i \in DOMAIN seq : seq[i] = p})

\* No packet of a configured probe is duplicated or silently dropped between
\* the socket and the dissector: it is in exactly one socket, hand or queue,
\* or it was dissected, or its worker was gone when it got there.
OnePlace ==
  \A s \in Sensors : \A n \in 1..Len(arrived[s]) :
    LET p == [src |-> s, n |-> n]
        hands == {l \in Listeners : qpacket[l] = p}
        queues == {w \in Workers : \E i \in DOMAIN queue[w] : queue[w][i] = p}
        desks == {w \in Workers : packet[w] = p /\ wpc[w] = "dissect"}
    IN 1 = Copies(sock[PortOf[s]], p)
             + Cardinality(hands)
             + Copies(queue[worker_idx(s)], p)
             + Cardinality(queues \ {worker_idx(s)})
             + Cardinality(desks)
             + (IF n <= Len(verdict[s]) THEN 1 ELSE 0)
             + (IF p \in lost THEN 1 ELSE 0)

\* The orderly stop tears down in the right order: when a worker structure is
\* freed its thread has ended, and when the Kafka handle or the sensors are
\* destroyed no worker is left to use them and nothing produced is pending.
TearDownOrder ==
  /\ \A w \in Workers : freed[w] => wpc[w] = "exit"
  /\ kafka = "destroyed" => outq = <<>> /\ \A w \in Workers : freed[w]
  /\ db = "freed" => kafka = "destroyed"

\* A packet of a configured probe that got into a socket is dissected in the
\* end, unless the process is asked to stop or dies.
ArrivedIsDissected ==
  \A s \in Sensors : \A n \in 1..MaxPkts :
    Len(arrived[s]) >= n ~> (Len(verdict[s]) >= n \/ shutdown \/ ~Alive)

\* SIGTERM ends the process: the workers drain their queues and are joined,
\* the Kafka queue is flushed, and main returns.
ShutdownEnds == shutdown ~> ~Alive
=============================================================================
