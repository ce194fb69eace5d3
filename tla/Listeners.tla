----------------------------- MODULE Listeners -----------------------------
(***************************************************************************)
(* The list of NetFlow listeners: --collector-port read at the start and   *)
(* again by the SIGHUP handler (parseOptions), the merge of the old and    *)
(* the new list, the waking of its members (rb_listener.c), and the        *)
(* listener threads that read the sockets meanwhile.                       *)
(*                                                                         *)
(* A collector and a descriptor are numbered in the order of creation.     *)
(* Lists are appended to and never reordered, so that a list is the set of *)
(* its members: their numbers give their places.  Threads never end here:  *)
(* the stop is part of Collector.  From the moment freed memory is used    *)
(* (uaf) nothing more is said.                                             *)
(***************************************************************************)
EXTENDS Naturals, Sequences, SequencesExt

CONSTANTS Ports,       \* valid port numbers
          MaxListed,   \* bound: ports in one configuration
          MaxReads,    \* bound: readings of the configuration
          MaxEvents    \* bound: readings of the configuration and packets, together

ASSUME ListenersAssumption == {MaxListed, MaxReads, MaxEvents} \subseteq Nat

VARIABLES
  pc,       \* where the handling of --collector-port is
  list,     \* readOnlyGlobals.listeners: collectors
  new,      \* new_listeners_list; later, what is left to wake
  cols,     \* all collectors: port, socket, freed
  socks,    \* all descriptors: port, bound to it, open, buffered packets
  threads,  \* listener threads: collector, and the descriptor it receives on
  uaf,      \* freed memory was used
  reads,    \* history: ports of each configuration read
  sent,     \* history: packets that arrived so far
  taken     \* history: packets taken for each port, in order

vars == <<pc, list, new, cols, socks, threads, uaf, reads, sent, taken>>

None == 0

Init ==
  /\ pc = "idle" /\ list = {} /\ new = {} /\ cols = <<>> /\ socks = <<>>
  /\ threads = <<>> /\ uaf = FALSE /\ reads = <<>> /\ sent = <<>>
  /\ taken = [p \in Ports |-> <<>>]

port(c) == cols[c].port

-----------------------------------------------------------------------------
(* Reading the option.                                                     *)

\* parseOptions found --collector-port, at the start or on SIGHUP (reloadCLI
\* ignores a signal that arrives while it runs).
ReadOption ==
  /\ pc = "idle" /\ ~uaf /\ Len(reads) < MaxReads /\ Len(reads) + Len(sent) < MaxEvents
  /\ reads' = Append(reads, <<>>)
  /\ pc' = "parse"
  /\ UNCHANGED <<list, new, cols, socks, threads, uaf, sent, taken>>

createNetFlowListener(p) == [port |-> p, socket |-> None, freed |-> FALSE]

\* parse_port_list creates a collector, without socket, for each valid port; for
\* an invalid one it does nothing.
ParsePort(p) ==
  /\ pc = "parse" /\ ~uaf /\ Len(reads[Len(reads)]) < MaxListed
  /\ cols' = Append(cols, createNetFlowListener(p))
  /\ new' = new \cup {Len(cols) + 1}
  /\ reads' = [reads EXCEPT ![Len(reads)] = Append(@, p)]
  /\ UNCHANGED <<pc, list, socks, threads, uaf, sent, taken>>

ParseEnd ==
  /\ pc = "parse" /\ ~uaf
  /\ pc' = "purge_old"
  /\ UNCHANGED <<list, new, cols, socks, threads, uaf, reads, sent, taken>>

-----------------------------------------------------------------------------
(* mergeNetFlowListenerList.                                               *)

is_present(c, l) == \E d \in l : port(d) = port(c)

First(S) == {c \in S : \A d \in S : c <= d}

\* A slip, for the mutation runs: the collector is freed, its socket left open.
closeNetFlowListener_leak(c) ==
  /\ cols' = [cols EXCEPT ![c].freed = TRUE]
  /\ UNCHANGED socks

\* closeNetFlowListener closes the socket the collector has now, and frees it.
closeNetFlowListener(c) ==
  /\ socks' = [s \in DOMAIN socks |->
                 IF cols[c].socket = s THEN [socks[s] EXCEPT !.open = FALSE] ELSE socks[s]]
  /\ cols' = [cols EXCEPT ![c].freed = TRUE]

\* A slip, for the mutation runs: everything is closed and opened anew.
not_present_all(original, compare) == original

\* purgeListeners(original, compare, type): the collectors it closes.
not_present(original, compare) == {c \in original : ~is_present(c, compare)}
present(original, compare) == {c \in original : is_present(c, compare)}

\* purgeListenersNotPresentIn, one collector after the other.
PurgeOld(c) ==
  /\ pc = "purge_old" /\ ~uaf /\ c \in First(not_present(list, new))
  /\ closeNetFlowListener(c)
  /\ list' = list \ {c}
  /\ UNCHANGED <<pc, new, threads, uaf, reads, sent, taken>>

PurgeOldEnd ==
  /\ pc = "purge_old" /\ ~uaf /\ not_present(list, new) = {}
  /\ pc' = "purge_new"
  /\ UNCHANGED <<list, new, cols, socks, threads, uaf, reads, sent, taken>>

\* purgeListenersPresentIn, likewise.
PurgeNew(c) ==
  /\ pc = "purge_new" /\ ~uaf /\ c \in First(present(new, list))
  /\ closeNetFlowListener(c)
  /\ new' = new \ {c}
  /\ UNCHANGED <<pc, list, threads, uaf, reads, sent, taken>>

\* listener_list_concat; new then holds the collectors still to be woken.
Concat ==
  /\ pc = "purge_new" /\ ~uaf /\ present(new, list) = {}
  /\ list' = list \cup new /\ new' = list \cup new
  /\ pc' = "wake"
  /\ UNCHANGED <<cols, socks, threads, uaf, reads, sent, taken>>

-----------------------------------------------------------------------------
(* wakeUpListenerList: every member of the list, those that run included.  *)

\* socket(): from here on the listener's threads ask for the new descriptor, which
\* gets nothing yet; the one it had is forgotten.
WakeSocket(c) ==
  /\ pc = "wake" /\ ~uaf /\ c \in First(new)
  /\ socks' = Append(socks, [port |-> port(c), bound |-> FALSE, open |-> TRUE, buf |-> <<>>])
  /\ cols' = [cols EXCEPT ![c].socket = Len(socks) + 1]
  /\ pc' = "bind"
  /\ UNCHANGED <<list, new, threads, uaf, reads, sent, taken>>

\* A slip, for the mutation runs: a listener is woken when it is created, and
\* again with the list.
WakeBindTwice(c) ==
  /\ pc = "bind" /\ ~uaf /\ c \in First(new)
  /\ socks' = [socks EXCEPT ![cols[c].socket].bound = TRUE]
  /\ threads' = Append(threads, [col |-> c, fd |-> None])
  /\ new' = IF \E t \in DOMAIN threads : threads[t].col = c THEN new \ {c} ELSE new
  /\ pc' = "wake"
  /\ UNCHANGED <<list, cols, uaf, reads, sent, taken>>

\* bind(), and a thread for the listener.
WakeBind(c) ==
  /\ pc = "bind" /\ ~uaf /\ c \in First(new)
  /\ socks' = [socks EXCEPT ![cols[c].socket].bound = TRUE]
  /\ threads' = Append(threads, [col |-> c, fd |-> None])
  /\ new' = new \ {c}
  /\ pc' = "wake"
  /\ UNCHANGED <<list, cols, uaf, reads, sent, taken>>

\* The socket cannot be created or bound: the collector is freed, and the loop
\* over the list goes on from it.
WakeUpFails ==
  /\ pc \in {"wake", "bind"} /\ ~uaf /\ new # {}
  /\ uaf' = TRUE
  /\ UNCHANGED <<pc, list, new, cols, socks, threads, reads, sent, taken>>

WakeUpEnd ==
  /\ pc = "wake" /\ ~uaf /\ new = {}
  /\ pc' = "idle"
  /\ UNCHANGED <<list, new, cols, socks, threads, uaf, reads, sent, taken>>

-----------------------------------------------------------------------------
(* Sockets and threads.                                                    *)

\* The kernel: a descriptor in use by recvfrom keeps its socket alive; of several
\* sockets bound to a port (SO_REUSEADDR) the last one gets the packets.
alive(s) == socks[s].open \/ \E t \in DOMAIN threads : threads[t].fd = s
hears(s, p) == socks[s].port = p /\ socks[s].bound /\ alive(s)
receiver(p) == {s \in DOMAIN socks :
                  hears(s, p) /\ \A r \in DOMAIN socks : r > s => ~hears(r, p)}

Arrive(p) ==
  /\ ~uaf /\ Len(reads) + Len(sent) < MaxEvents
  /\ \E s \in receiver(p) :
       socks' = [socks EXCEPT ![s].buf = Append(@, Len(sent) + 1)]
  /\ sent' = Append(sent, p)
  /\ UNCHANGED <<pc, list, new, cols, threads, uaf, reads, taken>>

\* netFlowCollectLoop0: the thread asks the collector for its socket and waits in
\* recvfrom, which blocks.
Receive(t) ==
  /\ ~uaf /\ threads[t].fd = None
  /\ IF cols[threads[t].col].freed
     THEN uaf' = TRUE /\ UNCHANGED threads
     ELSE /\ threads' = [threads EXCEPT ![t].fd = cols[threads[t].col].socket]
          /\ UNCHANGED uaf
  /\ UNCHANGED <<pc, list, new, cols, socks, reads, sent, taken>>

Take(t) ==
  LET s == threads[t].fd
  IN /\ ~uaf /\ s # None
     /\ socks[s].buf # <<>>
     /\ taken' = [taken EXCEPT ![socks[s].port] = Append(@, Head(socks[s].buf))]
     /\ socks' = [socks EXCEPT ![s].buf = Tail(@)]
     /\ threads' = [threads EXCEPT ![t].fd = None]
     /\ UNCHANGED <<pc, list, new, cols, uaf, reads, sent>>

Next ==
  \/ ReadOption \/ (\E p \in Ports : ParsePort(p)) \/ ParseEnd
  \/ (\E c \in list : PurgeOld(c)) \/ PurgeOldEnd
  \/ (\E c \in new : PurgeNew(c)) \/ Concat
  \/ (\E c \in new : WakeSocket(c) \/ WakeBind(c)) \/ WakeUpFails \/ WakeUpEnd
  \/ \E p \in Ports : Arrive(p)
  \/ \E t \in DOMAIN threads : Receive(t) \/ Take(t)

Spec == Init /\ [][Next]_vars

-----------------------------------------------------------------------------
(* Properties.                                                             *)

Configured(n) == IF n = 0 THEN {} ELSE Range(reads[n])
Now == Configured(Len(reads))
Before == IF reads = <<>> THEN {} ELSE Configured(Len(reads) - 1)

\* A thread waits, or will wait, on the socket that gets the packets of port p.
Served(p) ==
  \E s \in receiver(p), t \in DOMAIN threads :
    \/ threads[t].fd = s
    \/ /\ threads[t].fd = None /\ ~cols[threads[t].col].freed
       /\ cols[threads[t].col].socket = s

\* wakeUpListener has given a listener of port p a socket, and not yet bound it.
Opening(p) == pc = "bind" /\ \E c \in First(new) : port(c) = p

\* A reload does not interrupt the ports that stay configured: at every moment of
\* the merge some thread reads the socket on which they receive.  Excepted are the
\* calls between socket() and bind() for the port itself: packets still go to the
\* old socket then, and its threads may already wait on the new one.
NoGap == ~uaf => \A p \in Now \cap Before : Served(p) \/ Opening(p)

\* Two configurations in a row had port p.
Kept(p) == \E n \in 2..Len(reads) : p \in Configured(n - 1) \cap Configured(n)

\* After a reload the listeners are those of the configuration: none is missing,
\* all of them are served, and no descriptor of another port is open.  ("It will
\* close all listener present in l1 and not present in l2", rb_listener.h:39.)
\* Excepted are ports that once outlived a reload: waking a listener that runs
\* replaces its descriptor, and the one before is closed by nobody.
Installed ==
  pc = "idle" /\ ~uaf =>
    /\ {port(c) : c \in list} = Now
    /\ \A p \in Now : Served(p)
    /\ \A s \in DOMAIN socks :
         socks[s].open => socks[s].port \in Now \/ Kept(socks[s].port)

Once(p) ==
  \A n, m \in DOMAIN reads : \A i \in DOMAIN reads[n], j \in DOMAIN reads[m] :
    reads[n][i] = p /\ reads[m][j] = p => n = m /\ i = j

\* q holds the packets that came for p, each once, in the order of their arrival.
InOrder(q, p) ==
  /\ \A i, j \in DOMAIN q : i < j => q[i] < q[j]
  /\ Range(q) = {n \in DOMAIN sent : sent[n] = p}

\* As long as a port was configured only once, it has one socket at most, its
\* packets are taken in the order in which they came, and those not taken wait in
\* that socket: none is lost, duplicated or overtaken.
StreamIntact ==
  ~uaf => \A p \in Now : Once(p) =>
    LET mine == {s \in DOMAIN socks : socks[s].port = p}
    IN \/ mine = {} /\ InOrder(taken[p], p)
       \/ \E s \in mine : mine = {s} /\ InOrder(taken[p] \o socks[s].buf, p)
=============================================================================
