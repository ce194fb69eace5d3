-------------------------- MODULE ListenersProofs --------------------------
(***************************************************************************)
(* Reading --collector-port again never leaves a port that stays without a *)
(* reader (but between socket() and bind() of that port), ends with the    *)
(* ports of the configuration served and, of the others, only those open   *)
(* that outlived a reload; a port that was named once keeps its packets,   *)
(* in their order: for any ports, any configurations and any number of     *)
(* reloads and packets.                                                    *)
(***************************************************************************)
EXTENDS Listeners, TLAPS

Positions == {"idle", "parse", "purge_old", "purge_new", "wake", "bind"}

Waking == pc \in {"wake", "bind"}

Shape ==
  /\ pc \in Positions
  /\ cols \in Seq([port : Ports, socket : Nat, freed : BOOLEAN])
  /\ socks \in Seq([port : Ports, bound : BOOLEAN, open : BOOLEAN, buf : Seq(Nat)])
  /\ threads \in Seq([col : Nat, fd : Nat])
  /\ reads \in Seq(Seq(Ports)) /\ sent \in Seq(Ports)
  /\ pc # "idle" => reads # <<>>

\* A descriptor belongs to one collector, and is bound to its port.
Owned ==
  \A c \in DOMAIN cols :
    /\ cols[c].socket # None =>
         cols[c].socket \in DOMAIN socks /\ socks[cols[c].socket].port = port(c)
    /\ \A d \in DOMAIN cols : cols[c].socket = cols[d].socket => c = d \/ cols[c].socket = None

\* What is on a list or has a thread was created, and what is on a list is
\* allocated; a new collector has no socket yet.
Listed ==
  /\ list \subseteq DOMAIN cols /\ new \subseteq DOMAIN cols
  /\ \A t \in DOMAIN threads : threads[t].col \in DOMAIN cols
  /\ \A c \in list \cup new : ~cols[c].freed
  /\ Waking => new \subseteq list
  /\ ~Waking => list \cap new = {} /\ \A c \in new : cols[c].socket = None

\* All sockets are bound but the last one, between socket() and bind().
Binding ==
  /\ \A s \in DOMAIN socks :
       socks[s].bound \/ (pc = "bind" /\ \A q \in DOMAIN socks : q <= s)
  /\ pc = "bind" =>
       \E c \in First(new) : /\ cols[c].socket \in DOMAIN socks
                           /\ ~socks[cols[c].socket].bound /\ socks[cols[c].socket].open

Ready(c) == cols[c].socket # None /\ socks[cols[c].socket].bound

\* A thread waits on the present socket of c, or will ask for it.
Tended(c) ==
  /\ socks[cols[c].socket].open
  /\ \E t \in DOMAIN threads : threads[t].col = c /\ threads[t].fd \in {None, cols[c].socket}
Tending == \A c \in list : Ready(c) => Tended(c)

\* Of all sockets that a port ever had, the last one is a listed collector's, unless
\* the port is being opened.
Stays(c) == pc = "purge_old" => is_present(c, new)
Newest(c) == \A r \in DOMAIN socks : r > cols[c].socket => socks[r].port # port(c)
Latest ==
  \A c \in list : Ready(c) /\ Stays(c) /\ ~Opening(port(c)) =>
    \E d \in list : port(d) = port(c) /\ Ready(d) /\ Newest(d)

\* How far the merge is.
PortsOf(l) == {port(c) : c \in l}
Covered ==
  /\ pc = "idle" => new = {} /\ PortsOf(list) = Now
  /\ pc = "parse" => PortsOf(list) = Before /\ PortsOf(new) = Now
  /\ pc = "purge_old" =>
       /\ PortsOf(new) = Now /\ PortsOf(list) \subseteq Before
       /\ Before \cap Now \subseteq PortsOf(list)
  /\ pc = "purge_new" =>
       /\ PortsOf(list) = Before \cap Now
       /\ PortsOf(new) \subseteq Now /\ Now \ Before \subseteq PortsOf(new)
  /\ Waking => PortsOf(list) = Now
  /\ \A c \in list : cols[c].socket = None => Waking /\ c \in new /\ port(c) \notin Before

\* The inductive invariant.
LInv == Shape /\ Owned /\ Listed /\ Binding /\ Tending /\ Latest /\ Covered

-----------------------------------------------------------------------------
(* The structures.                                                         *)

Col == [port : Ports, socket : Nat, freed : BOOLEAN]
Sock == [port : Ports, bound : BOOLEAN, open : BOOLEAN, buf : Seq(Nat)]

LEMMA Elements == ASSUME NEW S, NEW q \in Seq(S) PROVE \A i \in DOMAIN q : q[i] \in S
  OBVIOUS

\* Fields of a socket, replaced.
LEMMA BufSet ==
  ASSUME NEW x, x = [port |-> x.port, bound |-> x.bound, open |-> x.open, buf |-> x.buf], NEW b
  PROVE  [x EXCEPT !.buf = b] = [port |-> x.port, bound |-> x.bound, open |-> x.open, buf |-> b]
  OBVIOUS

LEMMA OpenSet ==
  ASSUME NEW x, x = [port |-> x.port, bound |-> x.bound, open |-> x.open, buf |-> x.buf], NEW b
  PROVE  [x EXCEPT !.open = b] = [port |-> x.port, bound |-> x.bound, open |-> b, buf |-> x.buf]
  OBVIOUS

LEMMA BoundSet ==
  ASSUME NEW x, x = [port |-> x.port, bound |-> x.bound, open |-> x.open, buf |-> x.buf], NEW b
  PROVE  [x EXCEPT !.bound = b] = [port |-> x.port, bound |-> b, open |-> x.open, buf |-> x.buf]
  OBVIOUS

\* Fields of a collector, replaced.
LEMMA ColSet ==
  ASSUME NEW x, x = [port |-> x.port, socket |-> x.socket, freed |-> x.freed], NEW b
  PROVE  /\ [x EXCEPT !.freed = b] = [port |-> x.port, socket |-> x.socket, freed |-> b]
         /\ [x EXCEPT !.socket = b] = [port |-> x.port, socket |-> b, freed |-> x.freed]
  OBVIOUS

LEMMA ShapeFacts ==
  ASSUME Shape
  PROVE  /\ DOMAIN cols = 1..Len(cols) /\ Len(cols) \in Nat
         /\ DOMAIN socks = 1..Len(socks) /\ Len(socks) \in Nat
         /\ DOMAIN threads = 1..Len(threads) /\ Len(threads) \in Nat
         /\ \A c \in DOMAIN cols :
              /\ cols[c] = [port |-> cols[c].port, socket |-> cols[c].socket, freed |-> cols[c].freed]
              /\ cols[c].port \in Ports /\ cols[c].socket \in Nat /\ cols[c].freed \in BOOLEAN
         /\ \A s \in DOMAIN socks :
              /\ socks[s] = [port |-> socks[s].port, bound |-> socks[s].bound,
                              open |-> socks[s].open, buf |-> socks[s].buf]
              /\ socks[s].port \in Ports /\ socks[s].bound \in BOOLEAN
              /\ socks[s].open \in BOOLEAN /\ socks[s].buf \in Seq(Nat)
         /\ \A t \in DOMAIN threads :
              /\ threads[t] = [col |-> threads[t].col, fd |-> threads[t].fd]
              /\ threads[t].col \in Nat /\ threads[t].fd \in Nat
<1>1. /\ DOMAIN cols = 1..Len(cols) /\ Len(cols) \in Nat
      /\ DOMAIN socks = 1..Len(socks) /\ Len(socks) \in Nat
      /\ DOMAIN threads = 1..Len(threads) /\ Len(threads) \in Nat
  BY DEF Shape
<1>2. /\ \A c \in DOMAIN cols : cols[c] \in Col
      /\ \A s \in DOMAIN socks : socks[s] \in Sock
      /\ \A t \in DOMAIN threads : threads[t] \in [col : Nat, fd : Nat]
  <2>1. cols \in Seq(Col) /\ socks \in Seq(Sock) /\ threads \in Seq([col : Nat, fd : Nat])
    BY DEF Shape, Col, Sock
  <2> QED
    BY <2>1, Elements
<1> QED
  BY <1>1, <1>2 DEF Col, Sock

\* Replacing one element keeps a sequence one.
LEMMA SeqKept ==
  ASSUME NEW S, NEW q \in Seq(S), NEW r, DOMAIN r = DOMAIN q, NEW i \in DOMAIN q, r[i] \in S,
         \A j \in DOMAIN q : j # i => r[j] = q[j], r = [j \in DOMAIN r |-> r[j]]
  PROVE  r \in Seq(S) /\ Len(r) = Len(q)
<1>1. Len(q) \in Nat /\ DOMAIN q = 1..Len(q) /\ \A j \in DOMAIN q : q[j] \in S
  OBVIOUS
<1>2. r = [j \in 1..Len(q) |-> r[j]] /\ \A j \in 1..Len(q) : r[j] \in S
  BY <1>1
<1> QED
  BY <1>1, <1>2

-----------------------------------------------------------------------------
(* Threads and packets.                                                    *)

\* Receiving disturbs neither collectors nor sockets.
LEMMA ReceivingL ==
  ASSUME LInv, Shape', UNCHANGED <<pc, list, new, cols, reads>>,
         DOMAIN socks' = DOMAIN socks, DOMAIN threads' = DOMAIN threads,
         \A s \in DOMAIN socks : /\ socks'[s].port = socks[s].port
                                 /\ socks'[s].bound = socks[s].bound
                                 /\ socks'[s].open = socks[s].open,
         \A t \in DOMAIN threads :
           /\ threads'[t].col = threads[t].col
           /\ threads'[t].fd \in {None, threads[t].fd, cols[threads[t].col].socket}
  PROVE  LInv'
<1>1. Owned' /\ Listed' /\ Binding'
  <2>1. Owned' /\ Listed'
    BY DEF LInv, Owned, Listed, Waking, port
  <2>2. First(new)' = First(new)
    BY DEF First
  <2> QED
    BY <2>1, <2>2 DEF LInv, Binding
<1>5. \A c \in list : Ready(c)' <=> Ready(c)
  BY DEF LInv, Owned, Listed, Ready
<1>2. Tending'
  <2>1. ASSUME NEW c \in list, Ready(c) PROVE Tended(c)'
    <3>1. Tended(c) /\ cols[c].socket \in DOMAIN socks
      BY <2>1 DEF LInv, Tending, Owned, Listed, Ready
    <3>2. PICK t \in DOMAIN threads : threads[t].col = c /\ threads[t].fd \in {None, cols[c].socket}
      BY <3>1 DEF Tended
    <3>3. threads'[t].col = c /\ threads'[t].fd \in {None, cols[c].socket}
      BY <3>2
    <3> QED
      BY <3>1, <3>3 DEF Tended
  <2> QED
    BY <2>1, <1>5 DEF Tending
<1>3. Latest'
  <2>1. \A c : Newest(c) => Newest(c)'
    BY DEF Newest, port
  <2>2. \A c : (Stays(c)' <=> Stays(c)) /\ port(c)' = port(c)
    BY DEF Stays, is_present, port
  <2>3. \A p : Opening(p)' <=> Opening(p)
    BY DEF Opening, First, port
  <2> QED
    BY <1>5, <2>1, <2>2, <2>3 DEF LInv, Latest
<1>4. Covered'
  <2>1. /\ Now' = Now /\ Before' = Before
        /\ PortsOf(list)' = PortsOf(list) /\ PortsOf(new)' = PortsOf(new)
    BY DEF PortsOf, port, Now, Before, Configured
  <2> QED
    BY <2>1 DEF LInv, Covered, Waking, port
<1> QED
  BY <1>1, <1>2, <1>3, <1>4 DEF LInv

LEMMA ArriveL == ASSUME LInv, NEW p \in Ports, Arrive(p) PROVE LInv'
<1>1. /\ UNCHANGED <<pc, list, new, cols, threads, reads>> /\ sent' = Append(sent, p)
      /\ \E s \in receiver(p) : socks' = [socks EXCEPT ![s].buf = Append(@, Len(sent) + 1)]
  BY DEF Arrive
<1>2. PICK s \in DOMAIN socks : socks' = [socks EXCEPT ![s].buf = Append(@, Len(sent) + 1)]
  BY <1>1 DEF receiver
<1> DEFINE v == [socks[s] EXCEPT !.buf = Append(@, Len(sent) + 1)]
<1>3. Shape
  BY DEF LInv
<1>4. Append(socks[s].buf, Len(sent) + 1) \in Seq(Nat) /\ sent' \in Seq(Ports)
  <2>1. Len(sent) + 1 \in Nat /\ socks[s].buf \in Seq(Nat)
    BY <1>3, ShapeFacts DEF Shape
  <2>2. sent' \in Seq(Ports)
    BY <1>1, <1>3 DEF Shape
  <2> QED
    BY <2>1, <2>2
<1>5. /\ v \in Sock /\ v.port = socks[s].port /\ v.bound = socks[s].bound
      /\ v.open = socks[s].open
  <2>1. v = [port |-> socks[s].port, bound |-> socks[s].bound, open |-> socks[s].open,
             buf |-> Append(socks[s].buf, Len(sent) + 1)]
    BY <1>3, ShapeFacts, BufSet
  <2> HIDE DEF v
  <2> QED
    BY <1>3, <1>4, <2>1, ShapeFacts DEF Sock
<1>6. socks' = [socks EXCEPT ![s] = v]
  BY <1>2
<1> HIDE DEF v
<1>7. /\ DOMAIN socks' = DOMAIN socks /\ socks'[s] = v
      /\ \A r \in DOMAIN socks : r # s => socks'[r] = socks[r]
      /\ socks' = [j \in DOMAIN socks' |-> socks'[j]]
  BY <1>6
<1>8. socks' \in Seq(Sock)
  <2>1. socks \in Seq(Sock)
    BY <1>3 DEF Shape, Sock
  <2> QED
    BY <2>1, <1>5, <1>7, SeqKept
<1>9. Shape'
  BY <1>1, <1>3, <1>4, <1>8 DEF Shape, Sock
<1> QED
  BY <1>1, <1>5, <1>7, <1>9, ReceivingL

LEMMA ThreadsKept ==
  ASSUME Shape, NEW t \in DOMAIN threads, NEW s \in Nat, threads' = [threads EXCEPT ![t].fd = s]
  PROVE  /\ DOMAIN threads' = DOMAIN threads /\ threads' \in Seq([col : Nat, fd : Nat])
         /\ threads'[t].col = threads[t].col /\ threads'[t].fd = s
         /\ \A r \in DOMAIN threads : r # t => threads'[r] = threads[r]
<1> DEFINE v == [threads[t] EXCEPT !.fd = s]
<1>1. v \in [col : Nat, fd : Nat] /\ v.col = threads[t].col /\ v.fd = s
  BY ShapeFacts
<1>2. threads' = [threads EXCEPT ![t] = v]
  OBVIOUS
<1> HIDE DEF v
<1>3. /\ DOMAIN threads' = DOMAIN threads /\ threads'[t] = v
      /\ \A r \in DOMAIN threads : r # t => threads'[r] = threads[r]
      /\ threads' = [j \in DOMAIN threads' |-> threads'[j]]
  BY <1>2
<1>4. threads' \in Seq([col : Nat, fd : Nat])
  <2>1. threads \in Seq([col : Nat, fd : Nat])
    BY DEF Shape
  <2> QED
    BY <2>1, <1>1, <1>3, SeqKept
<1> QED
  BY <1>1, <1>3, <1>4

LEMMA ReceiveL == ASSUME LInv, NEW t \in DOMAIN threads, Receive(t) PROVE LInv'
<1>1. /\ UNCHANGED <<pc, list, new, cols, socks, reads, sent>>
      /\ \/ UNCHANGED threads
         \/ threads' = [threads EXCEPT ![t].fd = cols[threads[t].col].socket]
  BY DEF Receive
<1>2. Shape
  BY DEF LInv
<1>3. CASE UNCHANGED threads
  <2>1. Shape'
    BY <1>1, <1>2, <1>3 DEF Shape
  <2> QED
    BY <1>1, <1>3, <2>1, ReceivingL
<1>4. CASE threads' = [threads EXCEPT ![t].fd = cols[threads[t].col].socket]
  <2> DEFINE s == cols[threads[t].col].socket
  <2>1. s \in Nat
    BY <1>2, ShapeFacts DEF LInv, Listed
  <2> HIDE DEF s
  <2>2. /\ DOMAIN threads' = DOMAIN threads /\ threads' \in Seq([col : Nat, fd : Nat])
        /\ threads'[t].col = threads[t].col /\ threads'[t].fd = s
        /\ \A r \in DOMAIN threads : r # t => threads'[r] = threads[r]
    BY <1>2, <1>4, <2>1, ThreadsKept DEF s
  <2>3. Shape'
    BY <1>1, <1>2, <2>2 DEF Shape
  <2>4. \A r \in DOMAIN threads :
          /\ threads'[r].col = threads[r].col
          /\ threads'[r].fd \in {None, threads[r].fd, cols[threads[r].col].socket}
    BY <2>2 DEF s
  <2> QED
    BY <1>1, <2>2, <2>3, <2>4, ReceivingL
<1> QED
  BY <1>1, <1>3, <1>4

LEMMA TakeL == ASSUME LInv, NEW t \in DOMAIN threads, Take(t) PROVE LInv'
<1> DEFINE s == threads[t].fd
<1>1. /\ UNCHANGED <<pc, list, new, cols, reads, sent>> /\ socks[s].buf # <<>>
      /\ socks' = [socks EXCEPT ![s].buf = Tail(@)]
      /\ threads' = [threads EXCEPT ![t].fd = None]
  BY DEF Take
<1>2. Shape
  BY DEF LInv
<1>3. /\ DOMAIN threads' = DOMAIN threads /\ threads' \in Seq([col : Nat, fd : Nat])
      /\ threads'[t].col = threads[t].col /\ threads'[t].fd = None
      /\ \A r \in DOMAIN threads : r # t => threads'[r] = threads[r]
  BY <1>1, <1>2, ThreadsKept DEF None
<1> HIDE DEF s
<1>4. /\ DOMAIN socks' = DOMAIN socks /\ socks' \in Seq(Sock)
      /\ \A r \in DOMAIN socks : /\ socks'[r].port = socks[r].port
                                 /\ socks'[r].bound = socks[r].bound
                                 /\ socks'[r].open = socks[r].open
  <2>1. socks \in Seq(Sock)
    BY <1>2 DEF Shape, Sock
  <2>2. CASE s \notin DOMAIN socks
    <3>1. DOMAIN socks' = DOMAIN socks /\ \A r \in DOMAIN socks : socks'[r] = socks[r]
      BY <1>1, <2>2
    <3>2. socks' = socks
      BY <1>1, <3>1, <2>1
    <3> QED
      BY <3>2, <2>1
  <2>3. CASE s \in DOMAIN socks
    <3> DEFINE v == [socks[s] EXCEPT !.buf = Tail(@)]
    <3>1. Tail(socks[s].buf) \in Seq(Nat)
      BY <1>1, <1>2, <2>3, ShapeFacts
    <3>2. /\ v \in Sock /\ v.port = socks[s].port /\ v.bound = socks[s].bound
          /\ v.open = socks[s].open
      <4>1. v = [port |-> socks[s].port, bound |-> socks[s].bound, open |-> socks[s].open,
                 buf |-> Tail(socks[s].buf)]
        BY <1>2, <2>3, ShapeFacts, BufSet
      <4> HIDE DEF v
      <4> QED
        BY <1>2, <2>3, <3>1, <4>1, ShapeFacts DEF Sock
    <3>3. socks' = [socks EXCEPT ![s] = v]
      BY <1>1
    <3> HIDE DEF v
    <3>4. /\ DOMAIN socks' = DOMAIN socks /\ socks'[s] = v
          /\ \A r \in DOMAIN socks : r # s => socks'[r] = socks[r]
          /\ socks' = [j \in DOMAIN socks' |-> socks'[j]]
      BY <3>3, <2>3
    <3>5. socks' \in Seq(Sock)
      BY <2>1, <2>3, <3>2, <3>4, SeqKept
    <3> QED
      BY <3>2, <3>4, <3>5
  <2> QED
    BY <2>2, <2>3
<1>5. Shape'
  BY <1>1, <1>2, <1>3, <1>4 DEF Shape, Sock
<1>6. \A r \in DOMAIN threads :
        /\ threads'[r].col = threads[r].col
        /\ threads'[r].fd \in {None, threads[r].fd, cols[threads[r].col].socket}
  BY <1>3
<1> QED
  BY <1>1, <1>3, <1>4, <1>5, <1>6, ReceivingL

-----------------------------------------------------------------------------
(* The steps between the loops.                                            *)

\* The configuration in force, while a new one is read.
LEMMA ReadsBegin ==
  ASSUME reads \in Seq(Seq(Ports)), reads' = Append(reads, <<>>)
  PROVE  /\ reads' \in Seq(Seq(Ports)) /\ reads' # <<>> /\ Now' = {} /\ Before' = Now
<1> DEFINE n == Len(reads)
<1>1. /\ n \in Nat /\ reads' \in Seq(Seq(Ports)) /\ Len(reads') = n + 1
      /\ reads'[n + 1] = <<>> /\ \A i \in 1..n : reads'[i] = reads[i]
  OBVIOUS
<1>2. reads' # <<>> /\ n + 1 # 0 /\ (n + 1) - 1 = n
  BY <1>1
<1>3. Range(<<>>) = {}
  BY DEF Range
<1>4. Now' = {}
  BY <1>1, <1>2, <1>3 DEF Now, Configured
<1>5. Before' = Now
  <2>1. CASE n = 0
    BY <1>1, <1>2, <2>1 DEF Now, Before, Configured
  <2>2. CASE n # 0
    <3>1. reads'[n] = reads[n]
      BY <1>1, <2>2
    <3> QED
      BY <1>1, <1>2, <2>2, <3>1 DEF Now, Before, Configured
  <2> QED
    BY <2>1, <2>2
<1> QED
  BY <1>1, <1>2, <1>4, <1>5

LEMMA ReadsGrow ==
  ASSUME reads \in Seq(Seq(Ports)), reads # <<>>, NEW p \in Ports,
         reads' = [reads EXCEPT ![Len(reads)] = Append(@, p)]
  PROVE  /\ reads' \in Seq(Seq(Ports)) /\ reads' # <<>>
         /\ Now' = Now \cup {p} /\ Before' = Before
<1> DEFINE n == Len(reads)
           v == Append(reads[n], p)
<1>1. n \in Nat /\ n > 0 /\ n \in DOMAIN reads /\ DOMAIN reads = 1..n /\ reads[n] \in Seq(Ports)
  OBVIOUS
<1>2. v \in Seq(Ports) /\ Range(v) = Range(reads[n]) \cup {p}
  <2> DEFINE u == reads[n]
             m == Len(u)
  <2>1. /\ v \in Seq(Ports) /\ v[m + 1] = p /\ \A i \in 1..m : v[i] = u[i]
        /\ m \in Nat /\ DOMAIN u = 1..m /\ DOMAIN v = 1..(m + 1)
    BY <1>1
  <2> HIDE DEF u, m, v
  <2>2. 1..(m + 1) = 1..m \cup {m + 1}
    BY <2>1
  <2>3. DOMAIN v = DOMAIN u \cup {m + 1} /\ \A i \in DOMAIN u : v[i] = u[i]
    BY <2>1, <2>2
  <2>4. Range(v) = Range(u) \cup {p}
    <3>1. Range(v) \subseteq Range(u) \cup {p}
      BY <2>1, <2>3 DEF Range
    <3>2. m + 1 \in DOMAIN v
      BY <2>3
    <3>3. Range(u) \cup {p} \subseteq Range(v)
      BY <2>1, <2>3, <3>2 DEF Range
    <3> QED
      BY <3>1, <3>3
  <2> QED
    BY <2>1, <2>4 DEF u
<1>3. reads' = [reads EXCEPT ![n] = v]
  OBVIOUS
<1> HIDE DEF v
<1>4. /\ DOMAIN reads' = DOMAIN reads /\ reads'[n] = v
      /\ \A i \in DOMAIN reads : i # n => reads'[i] = reads[i]
      /\ reads' = [j \in DOMAIN reads' |-> reads'[j]]
  BY <1>1, <1>3
<1>5. reads' \in Seq(Seq(Ports)) /\ Len(reads') = n
  BY <1>1, <1>2, <1>4, SeqKept
<1>6. reads' # <<>>
  BY <1>1, <1>5
<1>7. Now' = Now \cup {p}
  <2>1. Now = Range(reads[n]) /\ Now' = Range(reads'[n])
    BY <1>1, <1>5 DEF Now, Configured
  <2> QED
    BY <2>1, <1>2, <1>4
<1>8. Before' = Before
  <2>1. CASE n = 1
    BY <1>5, <1>6, <2>1 DEF Before, Configured
  <2>2. CASE n # 1
    <3>1. n - 1 \in DOMAIN reads /\ n - 1 # n /\ n - 1 # 0
      <4> HIDE DEF n
      <4> QED
        BY <1>1, <2>2
    <3> QED
      BY <1>4, <1>5, <1>6, <3>1 DEF Before, Configured
  <2> QED
    BY <2>1, <2>2
<1> QED
  BY <1>5, <1>6, <1>7, <1>8

\* What depends on the configuration only.
LEMMA SameReads == ASSUME UNCHANGED reads PROVE Now' = Now /\ Before' = Before
  BY DEF Now, Before, Configured

LEMMA ReadOptionL == ASSUME LInv, ReadOption PROVE LInv'
<1>1. /\ pc = "idle" /\ pc' = "parse" /\ reads' = Append(reads, <<>>)
      /\ UNCHANGED <<list, new, cols, socks, threads, sent>>
  BY DEF ReadOption
<1>2. reads' \in Seq(Seq(Ports)) /\ reads' # <<>> /\ Now' = {} /\ Before' = Now
  BY <1>1, ReadsBegin DEF LInv, Shape
<1>3. Shape' /\ Owned' /\ Listed' /\ Binding'
  BY <1>1, <1>2 DEF LInv, Shape, Positions, Waking, Owned, Listed, Binding, port
<1>4. Tending'
  BY <1>1 DEF LInv, Tending, Tended, Ready
<1>5. Latest'
  BY <1>1 DEF LInv, Latest, Stays, Newest, Ready, Opening, port
<1>6. Covered'
  <2>1. PortsOf(list)' = PortsOf(list) /\ PortsOf(new)' = {}
    BY <1>1 DEF PortsOf, port, LInv, Covered
  <2> QED
    BY <1>1, <1>2, <2>1 DEF LInv, Covered, Waking
<1> QED
  BY <1>3, <1>4, <1>5, <1>6 DEF LInv

\* A loop begins or ends, and the lists stay what they are.
LEMMA LoopL ==
  ASSUME LInv, ParseEnd \/ PurgeOldEnd \/ WakeUpFails \/ WakeUpEnd PROVE LInv'
<1>1. /\ UNCHANGED <<list, new, cols, socks, threads, reads, sent>>
      /\ \/ pc = "parse" /\ pc' = "purge_old"
         \/ pc = "purge_old" /\ pc' = "purge_new" /\ not_present(list, new) = {}
         \/ Waking /\ pc' = pc
         \/ pc = "wake" /\ pc' = "idle" /\ new = {}
  BY DEF ParseEnd, PurgeOldEnd, WakeUpFails, WakeUpEnd, Waking
<1>2. Shape' /\ Owned'
  BY <1>1 DEF LInv, Shape, Positions, Waking, Owned, port
<1>3. Listed' /\ Binding'
  <2>1. First(new)' = First(new)
    BY <1>1 DEF First
  <2> QED
    BY <1>1, <2>1 DEF LInv, Listed, Waking, Binding
<1>4. Tending'
  BY <1>1 DEF LInv, Tending, Tended, Ready
<1>5. Latest'
  <2>1. \A c \in list : Stays(c)' => Stays(c)
    BY <1>1 DEF Stays, not_present, is_present, port
  <2>2. \A c : (Newest(c)' <=> Newest(c)) /\ port(c)' = port(c) /\ (Ready(c)' <=> Ready(c))
    BY <1>1 DEF Newest, port, Ready
  <2>3. \A p : Opening(p)' <=> Opening(p)
    BY <1>1 DEF Opening, First, port, Waking
  <2> QED
    BY <1>1, <2>1, <2>2, <2>3 DEF LInv, Latest
<1>6. Covered'
  <2>1. /\ Now' = Now /\ Before' = Before
        /\ PortsOf(list)' = PortsOf(list) /\ PortsOf(new)' = PortsOf(new)
    BY <1>1, SameReads DEF PortsOf, port
  <2>2. pc = "purge_old" /\ not_present(list, new) = {} => PortsOf(list) \subseteq PortsOf(new)
    BY DEF not_present, is_present, PortsOf
  <2> QED
    BY <1>1, <2>1, <2>2 DEF LInv, Covered, Waking, port
<1> QED
  BY <1>2, <1>3, <1>4, <1>5, <1>6 DEF LInv

LEMMA ConcatL == ASSUME LInv, Concat PROVE LInv'
<1>1. /\ pc = "purge_new" /\ pc' = "wake" /\ present(new, list) = {}
      /\ list' = list \cup new /\ new' = list \cup new
      /\ UNCHANGED <<cols, socks, threads, reads, sent>>
  BY DEF Concat
<1>2. \A c \in new : cols[c].socket = None
  BY <1>1 DEF LInv, Listed, Waking
<1>3. Shape' /\ Owned' /\ Listed' /\ Binding'
  BY <1>1 DEF LInv, Shape, Positions, Owned, Listed, Waking, Binding, port
<1>4. Tending'
  BY <1>1, <1>2 DEF LInv, Tending, Tended, Ready
<1>5. Latest'
  <2>1. \A c : Newest(c)' <=> Newest(c)
    BY <1>1 DEF Newest, port
  <2>2. \A c \in list : Stays(c)
    BY <1>1 DEF Stays
  <2> QED
    BY <1>1, <1>2, <2>1, <2>2 DEF LInv, Latest, Ready, Opening, port
<1>6. Covered'
  <2>1. /\ Now' = Now /\ Before' = Before
        /\ PortsOf(list)' = PortsOf(list) \cup PortsOf(new)
    BY <1>1, SameReads DEF PortsOf, port
  <2>2. \A c \in new : port(c) \notin PortsOf(list)
    BY <1>1 DEF present, is_present, PortsOf
  <2>3. \A c \in new : port(c) \in Now
    BY <1>1 DEF LInv, Covered, PortsOf
  <2>4. PortsOf(list) = Before \cap Now /\ PortsOf(new) \subseteq Now
        /\ Now \ Before \subseteq PortsOf(new)
    BY <1>1 DEF LInv, Covered
  <2>5. PortsOf(list)' = Now'
    BY <2>1, <2>4
  <2>6. \A c \in list' : cols'[c].socket = None => c \in new' /\ port(c)' \notin Before'
    BY <1>1, <2>1, <2>2, <2>3, <2>4 DEF LInv, Covered, Waking, port
  <2> QED
    BY <1>1, <2>5, <2>6 DEF Covered, Waking
<1> QED
  BY <1>3, <1>4, <1>5, <1>6 DEF LInv

-----------------------------------------------------------------------------
(* Collectors are created, closed and woken.                               *)

LEMMA ParsePortL == ASSUME LInv, NEW p \in Ports, ParsePort(p) PROVE LInv'
<1> DEFINE n == Len(cols)
           v == createNetFlowListener(p)
<1>1. /\ pc = "parse" /\ pc' = pc /\ cols' = Append(cols, v) /\ new' = new \cup {n + 1}
      /\ reads' = [reads EXCEPT ![Len(reads)] = Append(@, p)]
      /\ UNCHANGED <<list, socks, threads, sent>>
  BY DEF ParsePort
<1>2. Shape /\ list \subseteq 1..n /\ new \subseteq 1..n /\ DOMAIN cols = 1..n /\ n \in Nat
  BY ShapeFacts DEF LInv, Listed
<1>3. /\ reads' \in Seq(Seq(Ports)) /\ reads' # <<>> /\ Now' = Now \cup {p} /\ Before' = Before
  BY <1>1, <1>2, ReadsGrow DEF Shape
<1>4. v \in Col /\ v.port = p /\ v.socket = None /\ ~v.freed
  BY DEF createNetFlowListener, Col, None
<1> HIDE DEF v
<1>5. /\ cols' \in Seq(Col) /\ DOMAIN cols' = 1..(n + 1) /\ cols'[n + 1] = v
      /\ \A c \in 1..n : cols'[c] = cols[c]
  <2>1. cols \in Seq(Col)
    BY <1>2 DEF Shape, Col
  <2> QED
    BY <1>1, <1>4, <2>1
<1> HIDE DEF n
<1>6. /\ \A c \in 1..(n + 1) : c \in 1..n \/ c = n + 1
      /\ \A c \in 1..n : c \in 1..(n + 1) /\ c # n + 1
      /\ n + 1 \in 1..(n + 1)
  BY <1>2
<1>7. Shape'
  BY <1>1, <1>2, <1>3, <1>5 DEF Shape, Col
<1>8. Owned'
  <2>1. ASSUME NEW c \in 1..(n + 1)
        PROVE  cols'[c].socket = None \/ c \in 1..n
    BY <1>4, <1>5, <1>6
  <2> QED
    BY <2>1, <1>1, <1>2, <1>5 DEF LInv, Owned, port
<1>9. Listed'
  BY <1>1, <1>2, <1>4, <1>5, <1>6 DEF LInv, Listed, Waking
<1>13. Binding' /\ \A c \in list : Ready(c)' <=> Ready(c)
  BY <1>1, <1>2, <1>5 DEF LInv, Binding, Ready
<1>10. Tending'
  <2>1. ASSUME NEW c \in list, Tended(c) PROVE Tended(c)'
    BY <2>1, <1>1, <1>2, <1>5 DEF Tended
  <2> QED
    BY <2>1, <1>1, <1>13 DEF LInv, Tending
<1>11. Latest'
  <2>1. \A c \in list : port(c)' = port(c) /\ (Newest(c) => Newest(c)')
    BY <1>1, <1>2, <1>5 DEF Newest, port
  <2>2. \A c \in list : Stays(c)
    BY <1>1 DEF Stays
  <2> QED
    BY <2>1, <2>2, <1>1, <1>13 DEF LInv, Latest, Opening
<1>12. Covered'
  <2>1. PortsOf(list)' = PortsOf(list)
    BY <1>1, <1>2, <1>5 DEF PortsOf, port
  <2>2. PortsOf(new)' = PortsOf(new) \cup {p}
    <3>1. \A c \in new : port(c)' = port(c)
      BY <1>2, <1>5 DEF port
    <3>2. cols'[n + 1].port = p
      BY <1>4, <1>5
    <3> QED
      BY <3>1, <3>2, <1>1 DEF PortsOf, port
  <2>3. \A c \in list : cols'[c] = cols[c]
    BY <1>2, <1>5
  <2> QED
    BY <2>1, <2>2, <2>3, <1>1, <1>3 DEF LInv, Covered, Waking
<1> QED
  BY <1>7, <1>8, <1>9, <1>10, <1>11, <1>12, <1>13 DEF LInv

\* closeNetFlowListener(c).
LEMMA CloseFacts ==
  ASSUME Shape, NEW c \in DOMAIN cols, closeNetFlowListener(c)
  PROVE  /\ cols' \in Seq(Col) /\ DOMAIN cols' = DOMAIN cols
         /\ cols'[c].port = cols[c].port /\ cols'[c].socket = cols[c].socket /\ cols'[c].freed
         /\ \A d \in DOMAIN cols : d # c => cols'[d] = cols[d]
         /\ socks' \in Seq(Sock) /\ DOMAIN socks' = DOMAIN socks
         /\ \A s \in DOMAIN socks :
              /\ socks'[s].port = socks[s].port /\ socks'[s].bound = socks[s].bound
              /\ s # cols[c].socket => socks'[s].open = socks[s].open
              /\ s = cols[c].socket => ~socks'[s].open
<1> DEFINE v == [cols[c] EXCEPT !.freed = TRUE]
<1>1. v = [port |-> cols[c].port, socket |-> cols[c].socket, freed |-> TRUE]
  BY ShapeFacts, ColSet
<1>2. cols' = [cols EXCEPT ![c] = v]
  BY DEF closeNetFlowListener
<1> HIDE DEF v
<1>3. v \in Col /\ v.port = cols[c].port /\ v.socket = cols[c].socket /\ v.freed
  BY <1>1, ShapeFacts DEF Col
<1>4. /\ DOMAIN cols' = DOMAIN cols /\ cols'[c] = v
      /\ \A d \in DOMAIN cols : d # c => cols'[d] = cols[d]
      /\ cols' = [j \in DOMAIN cols' |-> cols'[j]]
  BY <1>2
<1>5. cols' \in Seq(Col)
  <2>1. cols \in Seq(Col)
    BY DEF Shape, Col
  <2> QED
    BY <2>1, <1>3, <1>4, SeqKept
<1> DEFINE w(s) == IF cols[c].socket = s THEN [socks[s] EXCEPT !.open = FALSE] ELSE socks[s]
<1>6. socks' = [s \in DOMAIN socks |-> w(s)]
  BY DEF closeNetFlowListener
<1>7. ASSUME NEW s \in DOMAIN socks
      PROVE  /\ w(s) \in Sock /\ w(s).port = socks[s].port /\ w(s).bound = socks[s].bound
             /\ s # cols[c].socket => w(s).open = socks[s].open
             /\ s = cols[c].socket => ~w(s).open
  <2>1. [socks[s] EXCEPT !.open = FALSE] =
          [port |-> socks[s].port, bound |-> socks[s].bound, open |-> FALSE, buf |-> socks[s].buf]
    BY ShapeFacts, OpenSet
  <2> QED
    BY <2>1, ShapeFacts DEF Sock
<1> HIDE DEF w
<1>8. socks' \in Seq(Sock) /\ DOMAIN socks' = DOMAIN socks /\ \A s \in DOMAIN socks : socks'[s] = w(s)
  <2>1. DOMAIN socks = 1..Len(socks) /\ Len(socks) \in Nat
    BY ShapeFacts
  <2> QED
    BY <2>1, <1>6, <1>7
<1> QED
  BY <1>3, <1>4, <1>5, <1>7, <1>8

\* Of the collectors on a list that is purged, the others are left alone.
LEMMA CloseOthers ==
  ASSUME LInv, NEW c \in DOMAIN cols, closeNetFlowListener(c), UNCHANGED threads,
         NEW d \in list, d # c
  PROVE  /\ cols'[d] = cols[d] /\ port(d)' = port(d)
         /\ (Ready(d)' <=> Ready(d)) /\ (Ready(d) => Tended(d)') /\ (Newest(d) => Newest(d)')
<1>1. Shape /\ d \in DOMAIN cols
  BY DEF LInv, Listed
<1>2. /\ cols'[d] = cols[d] /\ DOMAIN socks' = DOMAIN socks
      /\ \A s \in DOMAIN socks :
           /\ socks'[s].port = socks[s].port /\ socks'[s].bound = socks[s].bound
           /\ s # cols[c].socket => socks'[s].open = socks[s].open
  BY <1>1, CloseFacts
<1>3. ASSUME Ready(d) PROVE Tended(d)'
  <2>1. Tended(d) /\ cols[d].socket \in DOMAIN socks /\ cols[d].socket # cols[c].socket
    BY <1>1, <1>3 DEF LInv, Tending, Owned, Ready
  <2> QED
    BY <2>1, <1>2 DEF Tended
<1>4. Ready(d)' <=> Ready(d)
  BY <1>1, <1>2 DEF LInv, Owned, Ready
<1> QED
  BY <1>2, <1>3, <1>4 DEF Newest, port

\* Closing keeps the shape, and descriptors with their collectors.
LEMMA CloseKeeps ==
  ASSUME LInv, NEW c \in DOMAIN cols, closeNetFlowListener(c),
         UNCHANGED <<pc, threads, reads, sent>>, ~Waking
  PROVE  Shape' /\ Owned' /\ Binding' /\ \A d \in DOMAIN cols : port(d)' = port(d)
<1>1. Shape
  BY DEF LInv
<1>2. /\ cols' \in Seq(Col) /\ DOMAIN cols' = DOMAIN cols
      /\ socks' \in Seq(Sock) /\ DOMAIN socks' = DOMAIN socks
      /\ \A d \in DOMAIN cols : cols'[d].port = cols[d].port /\ cols'[d].socket = cols[d].socket
      /\ \A s \in DOMAIN socks :
           socks'[s].port = socks[s].port /\ socks'[s].bound = socks[s].bound
  <2>1. /\ cols' \in Seq(Col) /\ DOMAIN cols' = DOMAIN cols
        /\ cols'[c].port = cols[c].port /\ cols'[c].socket = cols[c].socket
        /\ \A d \in DOMAIN cols : d # c => cols'[d] = cols[d]
        /\ socks' \in Seq(Sock) /\ DOMAIN socks' = DOMAIN socks
        /\ \A s \in DOMAIN socks :
             socks'[s].port = socks[s].port /\ socks'[s].bound = socks[s].bound
    BY <1>1, CloseFacts
  <2> QED
    BY <2>1
<1>3. Shape'
  BY <1>1, <1>2 DEF Shape, Col, Sock
<1>4. Owned'
  BY <1>2 DEF LInv, Owned, port
<1>5. Binding'
  BY <1>2 DEF LInv, Binding, Waking
<1> QED
  BY <1>2, <1>3, <1>4, <1>5 DEF port

LEMMA PurgeOldL == ASSUME LInv, NEW c \in list, PurgeOld(c) PROVE LInv'
<1>1. /\ pc = "purge_old" /\ pc' = pc /\ ~is_present(c, new) /\ closeNetFlowListener(c)
      /\ list' = list \ {c} /\ UNCHANGED <<new, threads, reads, sent>>
  BY DEF PurgeOld, First, not_present
<1>2. c \in DOMAIN cols /\ list \subseteq DOMAIN cols /\ new \subseteq DOMAIN cols /\ c \notin new
      /\ DOMAIN cols' = DOMAIN cols /\ \A d \in DOMAIN cols : d # c => cols'[d] = cols[d]
  <2>1. Shape /\ c \in DOMAIN cols /\ list \subseteq DOMAIN cols /\ new \subseteq DOMAIN cols
        /\ c \notin new
    BY <1>1 DEF LInv, Listed, Waking
  <2> QED
    BY <1>1, <2>1, CloseFacts
<1>3. Shape' /\ Owned' /\ Binding' /\ \A d \in DOMAIN cols : port(d)' = port(d)
  BY <1>1, <1>2, CloseKeeps DEF Waking
<1>4. Listed'
  BY <1>1, <1>2 DEF LInv, Listed, Waking
<1>5. Tending'
  BY <1>1, <1>2, CloseOthers DEF Tending
<1>6. Latest'
  <2>1. ASSUME NEW d \in list', Ready(d)', Stays(d)'
        PROVE  \E e \in list' : port(e)' = port(d)' /\ Ready(e)' /\ Newest(e)'
    <3>1. d \in list /\ d # c /\ Ready(d) /\ is_present(d, new)
      <4>1. d \in list /\ d # c /\ is_present(d, new)
        BY <2>1, <1>1, <1>2, <1>3 DEF Stays, is_present
      <4> QED
        BY <4>1, <2>1, <1>1, <1>2, CloseOthers
    <3>2. PICK e \in list : port(e) = port(d) /\ Ready(e) /\ Newest(e)
      BY <3>1, <1>1 DEF LInv, Latest, Stays, Opening
    <3>3. e # c
      BY <1>1, <3>1, <3>2 DEF is_present
    <3> QED
      BY <1>1, <1>2, <1>3, <3>1, <3>2, <3>3, CloseOthers
  <2> QED
    BY <2>1 DEF Latest
<1>7. Covered'
  <2>1. Now' = Now /\ Before' = Before
    BY <1>1, SameReads
  <2>2. PortsOf(new)' = PortsOf(new)
    BY <1>1, <1>2, <1>3 DEF PortsOf
  <2>3. PortsOf(list)' \subseteq PortsOf(list)
    BY <1>1, <1>2, <1>3 DEF PortsOf
  <2>4. PortsOf(new) = Now /\ PortsOf(list) \subseteq Before /\ Before \cap Now \subseteq PortsOf(list)
    BY <1>1 DEF LInv, Covered
  <2>5. ASSUME NEW p \in Before \cap Now PROVE p \in PortsOf(list)'
    <3>1. PICK d \in list : p = port(d)
      BY <2>4 DEF PortsOf
    <3>2. PICK e \in new : p = port(e)
      BY <2>4 DEF PortsOf
    <3>3. d # c
      BY <3>1, <3>2, <1>1 DEF is_present
    <3> QED
      BY <3>1, <3>3, <1>1, <1>2, <1>3 DEF PortsOf
  <2>6. \A d \in list' : cols'[d].socket # None
    BY <1>1, <1>2 DEF LInv, Covered, Waking
  <2> QED
    BY <1>1, <2>1, <2>2, <2>3, <2>4, <2>5, <2>6 DEF Covered, Waking
<1> QED
  BY <1>3, <1>4, <1>5, <1>6, <1>7 DEF LInv

LEMMA PurgeNewL == ASSUME LInv, NEW c \in new, PurgeNew(c) PROVE LInv'
<1>1. /\ pc = "purge_new" /\ pc' = pc /\ is_present(c, list) /\ closeNetFlowListener(c)
      /\ new' = new \ {c} /\ UNCHANGED <<list, threads, reads, sent>>
  BY DEF PurgeNew, First, present
<1>2. c \in DOMAIN cols /\ list \subseteq DOMAIN cols /\ new \subseteq DOMAIN cols /\ c \notin list
      /\ DOMAIN cols' = DOMAIN cols /\ \A d \in DOMAIN cols : d # c => cols'[d] = cols[d]
  <2>1. Shape /\ c \in DOMAIN cols /\ list \subseteq DOMAIN cols /\ new \subseteq DOMAIN cols
        /\ c \notin list
    BY <1>1 DEF LInv, Listed, Waking
  <2> QED
    BY <1>1, <2>1, CloseFacts
<1>3. Shape' /\ Owned' /\ Binding' /\ \A d \in DOMAIN cols : port(d)' = port(d)
  BY <1>1, <1>2, CloseKeeps DEF Waking
<1>4. Listed'
  BY <1>1, <1>2 DEF LInv, Listed, Waking
<1>5. ASSUME NEW d \in list
      PROVE  /\ cols'[d] = cols[d] /\ port(d)' = port(d)
             /\ (Ready(d)' <=> Ready(d)) /\ (Ready(d) => Tended(d)') /\ (Newest(d) => Newest(d)')
  BY <1>1, <1>2, CloseOthers
<1>6. Tending'
  BY <1>1, <1>5 DEF Tending
<1>7. Latest'
  <2>1. \A d \in list : Stays(d)
    BY <1>1 DEF Stays
  <2> QED
    BY <1>1, <1>5, <2>1 DEF LInv, Latest, Opening
<1>8. Covered'
  <2>1. Now' = Now /\ Before' = Before
    BY <1>1, SameReads
  <2>2. PortsOf(list)' = PortsOf(list)
    BY <1>1, <1>5 DEF PortsOf
  <2>3. PortsOf(new)' \subseteq PortsOf(new)
    BY <1>1, <1>2, <1>3 DEF PortsOf
  <2>4. /\ PortsOf(list) = Before \cap Now /\ PortsOf(new) \subseteq Now
        /\ Now \ Before \subseteq PortsOf(new)
    BY <1>1 DEF LInv, Covered
  <2>5. ASSUME NEW p \in Now \ Before PROVE p \in PortsOf(new)'
    <3>1. PICK d \in new : p = port(d)
      BY <2>4 DEF PortsOf
    <3>2. d # c
      <4>1. port(c) \in PortsOf(list)
        BY <1>1 DEF is_present, PortsOf
      <4> QED
        BY <4>1, <3>1, <2>4
    <3> QED
      BY <3>1, <3>2, <1>1, <1>2, <1>3 DEF PortsOf
  <2>6. \A d \in list' : cols'[d].socket # None
    BY <1>1, <1>5 DEF LInv, Covered, Waking
  <2> QED
    BY <1>1, <2>1, <2>2, <2>3, <2>4, <2>5, <2>6 DEF Covered, Waking
<1> QED
  BY <1>3, <1>4, <1>6, <1>7, <1>8 DEF LInv

\* wakeUpListener gives the collector a new socket, the last of all; it is not bound
\* yet.
LEMMA WakeSocketL == ASSUME LInv, NEW c \in new, WakeSocket(c) PROVE LInv'
<1> DEFINE n == Len(socks)
           v == [port |-> port(c), bound |-> FALSE, open |-> TRUE, buf |-> <<>>]
           w == [cols[c] EXCEPT !.socket = n + 1]
<1>1. /\ pc = "wake" /\ pc' = "bind" /\ socks' = Append(socks, v)
      /\ cols' = [cols EXCEPT ![c] = w] /\ c \in First(new)
      /\ UNCHANGED <<list, new, threads, reads, sent>>
  BY DEF WakeSocket
<1>2. /\ Shape /\ c \in list /\ list \subseteq DOMAIN cols /\ new \subseteq DOMAIN cols
      /\ c \in DOMAIN cols /\ n \in Nat /\ DOMAIN socks = 1..n /\ ~cols[c].freed
  BY <1>1, ShapeFacts DEF LInv, Listed, Waking
<1>3. v \in Sock /\ v.port = port(c) /\ v.open /\ ~v.bound
  BY <1>2, ShapeFacts DEF Sock, port
<1>4. w \in Col /\ w.port = port(c) /\ w.socket = n + 1 /\ ~w.freed
  <2>1. w = [port |-> cols[c].port, socket |-> n + 1, freed |-> cols[c].freed]
    BY <1>2, ShapeFacts, ColSet
  <2> HIDE DEF w
  <2> QED
    BY <2>1, <1>2, ShapeFacts DEF Col, port
<1> HIDE DEF v, w
<1>6. /\ DOMAIN cols' = DOMAIN cols /\ cols'[c] = w
      /\ \A d \in DOMAIN cols : d # c => cols'[d] = cols[d]
      /\ cols' = [j \in DOMAIN cols' |-> cols'[j]]
  BY <1>1, <1>2
<1>7. cols' \in Seq(Col)
  <2>1. cols \in Seq(Col)
    BY <1>2 DEF Shape, Col
  <2> QED
    BY <2>1, <1>2, <1>4, <1>6, SeqKept
<1>8. /\ socks' \in Seq(Sock) /\ DOMAIN socks' = 1..(n + 1) /\ socks'[n + 1] = v
      /\ \A s \in 1..n : socks'[s] = socks[s]
  <2>1. socks \in Seq(Sock)
    BY <1>2 DEF Shape, Sock
  <2> QED
    BY <2>1, <1>1, <1>3
<1> HIDE DEF n
<1>9. First(new)' = First(new)
  BY <1>1 DEF First
<1>10. Shape'
  BY <1>1, <1>2, <1>7, <1>8 DEF Shape, Positions, Col, Sock
<1>11. \A k \in Nat : /\ \A j \in 1..(k + 1) : j \in 1..k \/ j = k + 1
                      /\ \A j \in 1..(k + 1) : j <= k + 1
                      /\ \A j \in 1..k : j \in 1..(k + 1) /\ j # k + 1 /\ j < k + 1
                      /\ k + 1 \in 1..(k + 1) /\ k + 1 # None
  BY DEF None
<1>12. \A d \in DOMAIN cols : port(d)' = port(d)
  BY <1>4, <1>6 DEF port
<1>13. \A d \in DOMAIN cols : d # c /\ cols[d].socket # None => cols[d].socket \in 1..n
  BY <1>2 DEF LInv, Owned
<1>14. Owned'
  <2>1. ASSUME NEW d \in DOMAIN cols, cols'[d].socket # None
        PROVE  cols'[d].socket \in DOMAIN socks' /\ socks'[cols'[d].socket].port = port(d)'
    <3>1. CASE d = c
      BY <3>1, <1>2, <1>3, <1>4, <1>6, <1>8, <1>11, <1>12
    <3>2. CASE d # c
      <4>1. cols'[d] = cols[d] /\ cols[d].socket \in 1..n /\ socks[cols[d].socket].port = port(d)
        BY <2>1, <3>2, <1>6, <1>13 DEF LInv, Owned
      <4> QED
        BY <4>1, <1>2, <1>8, <1>11, <1>12
    <3> QED
      BY <3>1, <3>2
  <2>2. ASSUME NEW d \in DOMAIN cols, NEW e \in DOMAIN cols, cols'[d].socket = cols'[e].socket
        PROVE  d = e \/ cols'[d].socket = None
    <3>1. n + 1 \notin 1..n /\ n + 1 # None
      BY <1>2, <1>11
    <3>2. CASE d # c /\ e # c
      BY <2>2, <3>2, <1>6 DEF LInv, Owned
    <3>3. CASE d = c /\ e # c
      BY <2>2, <3>1, <3>3, <1>4, <1>6, <1>13
    <3>4. CASE d # c /\ e = c
      BY <2>2, <3>1, <3>4, <1>4, <1>6, <1>13
    <3> QED
      BY <3>2, <3>3, <3>4
  <2> QED
    BY <2>1, <2>2, <1>6 DEF Owned
<1>15. Listed'
  <2>1. \A d \in list \cup new : ~cols'[d].freed
    BY <1>2, <1>4, <1>6 DEF LInv, Listed
  <2> QED
    BY <1>1, <1>2, <1>6, <2>1 DEF LInv, Listed, Waking
<1>16. Binding'
  <2>1. \A s \in DOMAIN socks' : socks'[s].bound \/ s = n + 1
    BY <1>1, <1>2, <1>8, <1>11 DEF LInv, Binding
  <2>2. /\ cols'[c].socket \in DOMAIN socks' /\ ~socks'[cols'[c].socket].bound
        /\ socks'[cols'[c].socket].open
    BY <1>2, <1>3, <1>4, <1>6, <1>8, <1>11
  <2> QED
    BY <2>1, <2>2, <1>1, <1>2, <1>8, <1>9, <1>11 DEF Binding
<1>17. \A d \in list : /\ d # c => (Ready(d)' <=> Ready(d))
                       /\ ~Ready(c)'
  BY <1>2, <1>3, <1>4, <1>6, <1>8, <1>13 DEF Ready
<1>18. Tending'
  <2>1. ASSUME NEW d \in list, Ready(d)' PROVE Tended(d)'
    <3>1. d # c /\ Ready(d)
      BY <2>1, <1>17
    <3>2. cols'[d] = cols[d] /\ Tended(d) /\ cols[d].socket \in 1..n
      BY <3>1, <1>2, <1>6, <1>13 DEF LInv, Tending, Ready
    <3> QED
      BY <3>2, <1>1, <1>8 DEF Tended
  <2> QED
    BY <2>1, <1>1 DEF Tending
<1>19. Latest'
  <2>1. ASSUME NEW d \in list, Ready(d)', ~Opening(port(d))'
        PROVE  \E e \in list : port(e)' = port(d)' /\ Ready(e)' /\ Newest(e)'
    <3>1. d # c /\ Ready(d) /\ d \in DOMAIN cols
      BY <2>1, <1>2, <1>17
    <3>2. port(d) # port(c)
      BY <2>1, <3>1, <1>1, <1>2, <1>9, <1>12 DEF Opening
    <3>3. PICK e \in list : port(e) = port(d) /\ Ready(e) /\ Newest(e)
      BY <3>1, <1>1 DEF LInv, Latest, Stays, Opening
    <3>4. e # c /\ cols'[e] = cols[e] /\ e \in DOMAIN cols /\ Ready(e)'
      BY <3>2, <3>3, <1>2, <1>6, <1>17
    <3>5. Newest(e)'
      <4>1. ASSUME NEW r \in 1..(n + 1), r > cols[e].socket PROVE socks'[r].port # port(e)
        <5>1. CASE r \in 1..n
          BY <4>1, <5>1, <3>3, <1>2, <1>8 DEF Newest
        <5>2. CASE r = n + 1
          BY <5>2, <3>2, <3>3, <1>3, <1>8
        <5> QED
          BY <5>1, <5>2, <1>2, <1>11
      <4> QED
        BY <4>1, <3>4, <1>8, <1>12 DEF Newest
    <3> QED
      BY <3>1, <3>3, <3>4, <3>5, <1>12
  <2> QED
    BY <2>1, <1>1 DEF Latest
<1>20. Covered'
  <2>1. Now' = Now /\ Before' = Before
    BY <1>1, SameReads
  <2>2. PortsOf(list)' = PortsOf(list)
    BY <1>1, <1>2, <1>12 DEF PortsOf
  <2>3. \A d \in list : cols'[d].socket = None => d \in new' /\ port(d)' \notin Before
    <3>1. cols'[c].socket # None
      BY <1>2, <1>4, <1>6, <1>11
    <3> QED
      BY <3>1, <1>1, <1>2, <1>6, <1>12 DEF LInv, Covered
  <2> QED
    BY <1>1, <2>1, <2>2, <2>3 DEF LInv, Covered, Waking
<1> QED
  BY <1>10, <1>14, <1>15, <1>16, <1>18, <1>19, <1>20 DEF LInv

\* One socket is bound.
LEMMA BoundFacts ==
  ASSUME Shape, NEW s \in DOMAIN socks, socks' = [socks EXCEPT ![s].bound = TRUE]
  PROVE  /\ socks' \in Seq(Sock) /\ DOMAIN socks' = DOMAIN socks /\ socks'[s].bound
         /\ \A q \in DOMAIN socks : q # s => socks'[q] = socks[q]
         /\ \A q \in DOMAIN socks : /\ socks'[q].port = socks[q].port
                                    /\ socks'[q].open = socks[q].open
                                    /\ socks'[q].buf = socks[q].buf
<1> DEFINE v == [socks[s] EXCEPT !.bound = TRUE]
<1>1. v = [port |-> socks[s].port, bound |-> TRUE, open |-> socks[s].open,
           buf |-> socks[s].buf]
  BY ShapeFacts, BoundSet
<1>2. socks' = [socks EXCEPT ![s] = v]
  OBVIOUS
<1> HIDE DEF v
<1>3. /\ v \in Sock /\ v.bound /\ v.port = socks[s].port /\ v.open = socks[s].open
      /\ v.buf = socks[s].buf
  BY <1>1, ShapeFacts DEF Sock
<1>4. /\ DOMAIN socks' = DOMAIN socks /\ socks'[s] = v
      /\ \A q \in DOMAIN socks : q # s => socks'[q] = socks[q]
      /\ socks' = [j \in DOMAIN socks' |-> socks'[j]]
  BY <1>2
<1>5. socks' \in Seq(Sock)
  <2>1. socks \in Seq(Sock)
    BY DEF Shape, Sock
  <2> QED
    BY <2>1, <1>3, <1>4, SeqKept
<1> QED
  BY <1>3, <1>4, <1>5

\* The collector that is being opened is the first of those left to wake.
LEMMA BeingOpened ==
  ASSUME LInv, pc = "bind", NEW c \in First(new)
  PROVE  /\ cols[c].socket \in DOMAIN socks /\ ~socks[cols[c].socket].bound
         /\ socks[cols[c].socket].open
         /\ \A q \in DOMAIN socks : q <= cols[c].socket
         /\ \A d \in First(new) : d = c
         /\ c \in DOMAIN cols /\ c \in list /\ cols[c].socket # None
<1>1. new \subseteq DOMAIN cols /\ new \subseteq list /\ Shape
  BY DEF LInv, Listed, Waking
<1>2. \A d \in First(new) : d \in Nat /\ d \in new /\ d <= c /\ c <= d /\ c \in Nat
  BY <1>1, ShapeFacts DEF First
<1>3. \A d \in First(new) : d = c
  BY <1>2
<1>4. /\ cols[c].socket \in DOMAIN socks /\ ~socks[cols[c].socket].bound
      /\ socks[cols[c].socket].open
  BY <1>3 DEF LInv, Binding
<1>5. cols[c].socket # None
  BY <1>1, <1>4, ShapeFacts DEF None
<1> QED
  BY <1>1, <1>2, <1>3, <1>4, <1>5 DEF LInv, Binding

\* Once bound, the woken collector has the last socket of its port and a thread
\* that will ask for it; no other collector notices.
LEMMA WakeBindL == ASSUME LInv, NEW c \in new, WakeBind(c) PROVE LInv'
<1> DEFINE s == cols[c].socket
           h == [col |-> c, fd |-> None]
           m == Len(threads)
<1>1. /\ pc = "bind" /\ pc' = "wake" /\ socks' = [socks EXCEPT ![s].bound = TRUE]
      /\ threads' = Append(threads, h) /\ new' = new \ {c} /\ c \in First(new)
      /\ UNCHANGED <<list, cols, reads, sent>>
  BY DEF WakeBind
<1>2. /\ Shape /\ list \subseteq DOMAIN cols /\ new \subseteq list
      /\ m \in Nat /\ DOMAIN threads = 1..m
  BY <1>1, ShapeFacts DEF LInv, Listed, Waking
<1>3. /\ s \in DOMAIN socks /\ ~socks[s].bound /\ \A q \in DOMAIN socks : q <= s
      /\ \A d \in First(new) : d = c
      /\ c \in DOMAIN cols /\ c \in list /\ s # None
  BY <1>1, BeingOpened
<1>4. /\ socks' \in Seq(Sock) /\ DOMAIN socks' = DOMAIN socks /\ socks'[s].bound
      /\ \A q \in DOMAIN socks : q # s => socks'[q] = socks[q]
      /\ \A q \in DOMAIN socks : socks'[q].port = socks[q].port /\ socks'[q].open = socks[q].open
  BY <1>1, <1>2, <1>3, BoundFacts
<1>5. h \in [col : Nat, fd : Nat] /\ h.col = c /\ h.fd = None
  <2>1. c \in Nat
    BY <1>2, <1>3, ShapeFacts
  <2> QED
    BY <2>1 DEF None
<1> HIDE DEF h, s
<1>6. /\ threads' \in Seq([col : Nat, fd : Nat]) /\ DOMAIN threads' = 1..(m + 1)
      /\ threads'[m + 1] = h /\ \A t \in 1..m : threads'[t] = threads[t]
  <2>1. threads \in Seq([col : Nat, fd : Nat])
    BY <1>2 DEF Shape
  <2> QED
    BY <2>1, <1>1, <1>5
<1> HIDE DEF m
<1>7. /\ \A j \in 1..(m + 1) : j \in 1..m \/ j = m + 1
      /\ \A j \in 1..m : j \in 1..(m + 1) /\ j # m + 1
      /\ m + 1 \in 1..(m + 1)
  BY <1>2
<1>8. Shape'
  BY <1>1, <1>2, <1>4, <1>6 DEF Shape, Positions, Sock
<1>9. Owned'
  BY <1>1, <1>4 DEF LInv, Owned, port
<1>10. Listed'
  <2>1. \A t \in DOMAIN threads' : threads'[t].col \in DOMAIN cols'
    BY <1>1, <1>2, <1>3, <1>5, <1>6, <1>7 DEF LInv, Listed
  <2> QED
    BY <1>1, <1>2, <2>1 DEF LInv, Listed, Waking
<1>11. Binding'
  <2>1. \A q \in DOMAIN socks : q # s => socks[q].bound
    <3>1. \A q \in DOMAIN socks : q \in Nat /\ s \in Nat
      BY <1>2, <1>3, ShapeFacts
    <3>2. ASSUME NEW q \in DOMAIN socks, ~socks[q].bound PROVE q = s
      <4>1. q <= s /\ s <= q
        BY <3>2, <1>3 DEF LInv, Binding
      <4> QED
        BY <4>1, <3>1
    <3> QED
      BY <3>2
  <2> QED
    BY <2>1, <1>1, <1>4 DEF Binding
<1>12. \A d \in list : /\ cols'[d] = cols[d] /\ port(d)' = port(d)
                       /\ d # c => cols[d].socket # s /\ (Ready(d)' <=> Ready(d))
  <2>1. \A d \in list : d # c => cols[d].socket # s
    BY <1>2, <1>3 DEF LInv, Owned, s
  <2>2. \A d \in list : cols[d].socket # None => cols[d].socket \in DOMAIN socks
    BY <1>2 DEF LInv, Owned
  <2> QED
    BY <2>1, <2>2, <1>1, <1>4 DEF Ready, port
<1>13. cols[c].socket = s /\ Ready(c)'
  BY <1>1, <1>3, <1>4 DEF s, Ready
<1>14. socks[s].open
  BY <1>1, BeingOpened DEF s
<1>15. Tending'
  <2>1. ASSUME NEW d \in list, Ready(d)' PROVE Tended(d)'
    <3>1. CASE d = c
      <4>1. m + 1 \in DOMAIN threads' /\ threads'[m + 1].col = c /\ threads'[m + 1].fd = None
        BY <1>5, <1>6, <1>7
      <4>2. cols'[c].socket = s /\ socks'[s].open
        BY <1>1, <1>3, <1>4, <1>13, <1>14
      <4> QED
        BY <3>1, <4>1, <4>2 DEF Tended
    <3>2. CASE d # c
      <4>1. Ready(d) /\ Tended(d) /\ cols[d].socket \in DOMAIN socks
        BY <2>1, <3>2, <1>2, <1>12 DEF LInv, Tending, Owned, Ready
      <4>2. PICK t \in 1..m : threads[t].col = d /\ threads[t].fd \in {None, cols[d].socket}
        BY <4>1, <1>2 DEF Tended
      <4>3. t \in DOMAIN threads' /\ threads'[t] = threads[t]
        BY <1>6, <1>7
      <4> QED
        BY <4>1, <4>2, <4>3, <1>1, <1>4 DEF Tended
    <3> QED
      BY <3>1, <3>2
  <2> QED
    BY <2>1, <1>1 DEF Tending
<1>16. Latest'
  <2>1. Newest(c)'
    <3>1. \A q \in DOMAIN socks : q \in Nat /\ q <= s /\ s \in Nat
      BY <1>2, <1>3, ShapeFacts
    <3>2. \A q \in DOMAIN socks : ~(q > s)
      BY <3>1
    <3> QED
      BY <3>2, <1>1, <1>4, <1>13 DEF Newest
  <2>2. ASSUME NEW d \in list, Ready(d)'
        PROVE  \E e \in list : port(e)' = port(d)' /\ Ready(e)' /\ Newest(e)'
    <3>1. CASE port(d) = port(c)
      BY <3>1, <2>1, <1>3, <1>12, <1>13
    <3>2. CASE port(d) # port(c)
      <4>1. d # c /\ Ready(d)
        BY <2>2, <3>2, <1>12
      <4>2. ~Opening(port(d))
        BY <3>2, <1>3 DEF Opening
      <4>3. PICK e \in list : port(e) = port(d) /\ Ready(e) /\ Newest(e)
        BY <4>1, <4>2, <1>1 DEF LInv, Latest, Stays
      <4>4. e # c /\ Ready(e)'
        BY <3>2, <4>3, <1>12
      <4>5. Newest(e)'
        BY <4>3, <1>1, <1>4, <1>12 DEF Newest
      <4> QED
        BY <4>3, <4>4, <4>5, <1>12
    <3> QED
      BY <3>1, <3>2
  <2> QED
    BY <2>2, <1>1 DEF Latest
<1>17. Covered'
  <2>1. Now' = Now /\ Before' = Before
    BY <1>1, SameReads
  <2>2. PortsOf(list)' = PortsOf(list)
    BY <1>1, <1>12 DEF PortsOf
  <2>3. \A d \in list : cols'[d].socket = None => d \in new' /\ port(d)' \notin Before
    BY <1>1, <1>3, <1>12, <1>13 DEF LInv, Covered
  <2> QED
    BY <1>1, <2>1, <2>2, <2>3 DEF LInv, Covered, Waking
<1> QED
  BY <1>8, <1>9, <1>10, <1>11, <1>15, <1>16, <1>17 DEF LInv

-----------------------------------------------------------------------------
(* The theorems.                                                           *)

LEMMA InitL == Init => LInv
<1> SUFFICES ASSUME Init PROVE LInv
  OBVIOUS
<1>1. DOMAIN <<>> = {} /\ \A S : <<>> \in Seq(S)
  OBVIOUS
<1>2. Shape /\ Owned
  BY <1>1 DEF Init, Shape, Positions, Owned
<1>3. Listed /\ Binding /\ Tending /\ Latest
  BY <1>1 DEF Init, Listed, Waking, Binding, Tending, Latest
<1>4. Now = {}
  BY DEF Init, Now, Configured
<1>5. Covered
  BY <1>4 DEF Init, Covered, Waking, PortsOf
<1> QED
  BY <1>2, <1>3, <1>5 DEF LInv

LEMMA NextL == LInv /\ [Next]_vars => LInv'
<1> SUFFICES ASSUME LInv, [Next]_vars PROVE LInv'
  OBVIOUS
<1>1. CASE UNCHANGED vars
  <2>1. Shape'
    BY <1>1 DEF vars, LInv, Shape
  <2> QED
    BY <1>1, <2>1, ReceivingL DEF vars
<1>2. CASE ReadOption
  BY <1>2, ReadOptionL
<1>3. ASSUME NEW p \in Ports, ParsePort(p) PROVE LInv'
  BY <1>3, ParsePortL
<1>4. CASE ParseEnd \/ PurgeOldEnd \/ WakeUpFails \/ WakeUpEnd
  BY <1>4, LoopL
<1>5. ASSUME NEW c \in list, PurgeOld(c) PROVE LInv'
  BY <1>5, PurgeOldL
<1>6. ASSUME NEW c \in new, PurgeNew(c) PROVE LInv'
  BY <1>6, PurgeNewL
<1>7. CASE Concat
  BY <1>7, ConcatL
<1>8. ASSUME NEW c \in new, WakeSocket(c) \/ WakeBind(c) PROVE LInv'
  BY <1>8, WakeSocketL, WakeBindL
<1>9. ASSUME NEW p \in Ports, Arrive(p) PROVE LInv'
  BY <1>9, ArriveL
<1>10. ASSUME NEW t \in DOMAIN threads, Receive(t) \/ Take(t) PROVE LInv'
  BY <1>10, ReceiveL, TakeL
<1> QED
  BY <1>1, <1>2, <1>3, <1>4, <1>5, <1>6, <1>7, <1>8, <1>9, <1>10 DEF Next

\* LInv holds in every reachable state: of all sockets a port ever had, the last
\* belongs to a listed collector whose thread waits on it or will ask for it.
THEOREM ListenersInvariant == Spec => []LInv
  BY InitL, NextL, PTL DEF Spec

\* A listed collector with a bound socket serves its port, unless it is about to be purged.
LEMMA ServedBy ==
  ASSUME LInv, NEW c \in list, Ready(c), Stays(c), ~Opening(port(c)) PROVE Served(port(c))
<1>1. PICK d \in list : port(d) = port(c) /\ Ready(d) /\ Newest(d)
  BY DEF LInv, Latest
<1> DEFINE s == cols[d].socket
<1>2. /\ s \in DOMAIN socks /\ socks[s].port = port(d) /\ Tended(d) /\ ~cols[d].freed
      /\ socks[s].bound
  BY <1>1 DEF LInv, Owned, Listed, Tending, Ready
<1>3. s \in receiver(port(c))
  BY <1>1, <1>2 DEF receiver, hears, alive, Tended, Newest
<1>4. PICK t \in DOMAIN threads : threads[t].col = d /\ threads[t].fd \in {None, s}
  BY <1>2 DEF Tended
<1> HIDE DEF s
<1>5. threads[t].fd = s \/ (threads[t].fd = None /\ ~cols[threads[t].col].freed
                             /\ cols[threads[t].col].socket = s)
  BY <1>2, <1>4 DEF s
<1> QED
  BY <1>3, <1>5 DEF Served

\* In a list that stays, a port that was configured before has a bound socket,
\* unless it is the one that is being opened.
LEMMA ReadyUnlessOpening ==
  ASSUME LInv, NEW c \in list, cols[c].socket # None, ~Opening(port(c)) PROVE Ready(c)
<1>1. c \in DOMAIN cols /\ cols[c].socket \in DOMAIN socks /\ Shape
  BY DEF LInv, Listed, Owned
<1>2. ASSUME ~socks[cols[c].socket].bound PROVE FALSE
  <2>1. pc = "bind" /\ \A q \in DOMAIN socks : q <= cols[c].socket
    BY <1>1, <1>2 DEF LInv, Binding
  <2>2. PICK d \in First(new) : cols[d].socket \in DOMAIN socks /\ ~socks[cols[d].socket].bound
    BY <2>1 DEF LInv, Binding
  <2>3. d \in DOMAIN cols /\ \A q \in DOMAIN socks : q <= cols[d].socket
    BY <2>1, <2>2 DEF LInv, Binding, Listed, First
  <2>4. cols[c].socket = cols[d].socket
    <3>1. cols[c].socket \in Nat /\ cols[d].socket \in Nat
      BY <1>1, <2>3, ShapeFacts
    <3> QED
      BY <3>1, <1>1, <2>1, <2>2, <2>3
  <2>5. c = d
    BY <1>1, <2>3, <2>4 DEF LInv, Owned
  <2> QED
    BY <2>1, <2>2, <2>5 DEF Opening
<1> QED
  BY <1>2 DEF Ready

\* While parseOptions merges the lists, and however threads and packets interleave
\* with it, the packets of a port that stays configured go to a socket that some
\* listener thread reads, but for the calls between socket() and bind() for that
\* very port: for any ports and any number of reloads.
THEOREM ListenersNoGap == Spec => []NoGap
<1>1. ASSUME LInv, NEW p \in Now \cap Before, ~Opening(p) PROVE Served(p)
  <2>1. p \in PortsOf(list)
    BY <1>1 DEF LInv, Covered, Shape, Positions, Waking, PortsOf
  <2>2. PICK c \in list : p = port(c)
    BY <2>1 DEF PortsOf
  <2>3. cols[c].socket # None
    BY <1>1, <2>2 DEF LInv, Covered
  <2>4. Stays(c)
    <3>1. CASE pc = "purge_old"
      <4>1. p \in PortsOf(new)
        BY <1>1, <3>1 DEF LInv, Covered
      <4> QED
        BY <4>1, <2>2 DEF Stays, is_present, PortsOf
    <3>2. CASE pc # "purge_old"
      BY <3>2 DEF Stays
    <3> QED
      BY <3>1, <3>2
  <2> QED
    BY <1>1, <2>2, <2>3, <2>4, ReadyUnlessOpening, ServedBy
<1>2. LInv => NoGap
  BY <1>1 DEF NoGap
<1> QED
  BY <1>2, ListenersInvariant, PTL

-----------------------------------------------------------------------------
(* The descriptors of removed ports.                                       *)

\* What is woken again was configured before.
Rewoken == Waking => \A c \in new : Ready(c) => port(c) \in Before \cap Now

\* An open descriptor is the present one of a listed collector, or its port once
\* outlived a reload.
Accounted ==
  \A s \in DOMAIN socks :
    socks[s].open => (\E c \in list : cols[c].socket = s) \/ Kept(socks[s].port)

\* The inductive invariant of the descriptors, on top of LInv.
OInv == LInv /\ Rewoken /\ Accounted

\* A port that is in two configurations in a row stays one that was.
LEMMA KeptGrows ==
  ASSUME reads \in Seq(Seq(Ports)), reads' \in Seq(Seq(Ports)), Len(reads) <= Len(reads'),
         \A n \in 1..Len(reads) : Range(reads[n]) \subseteq Range(reads'[n]), NEW p, Kept(p)
  PROVE  Kept(p)'
<1>1. PICK n \in 2..Len(reads) : p \in Configured(n - 1) \cap Configured(n)
  BY DEF Kept
<1>2. /\ n \in 1..Len(reads) /\ n - 1 \in 1..Len(reads) /\ n # 0 /\ n - 1 # 0
      /\ n \in 2..Len(reads')
  <2>1. Len(reads) \in Nat /\ Len(reads') \in Nat
    OBVIOUS
  <2> QED
    BY <2>1
<1>3. p \in Range(reads[n - 1]) /\ p \in Range(reads[n])
  BY <1>1, <1>2 DEF Configured
<1>4. p \in Range(reads'[n - 1]) /\ p \in Range(reads'[n])
  BY <1>2, <1>3
<1> QED
  BY <1>2, <1>4 DEF Kept, Configured

LEMMA KeptNow == ASSUME reads \in Seq(Seq(Ports)), NEW p \in Before \cap Now PROVE Kept(p)
<1>1. reads # <<>> /\ p \in Configured(Len(reads) - 1) /\ p \in Configured(Len(reads))
  BY DEF Before, Now
<1>2. Len(reads) \in Nat /\ Len(reads) # 0 /\ Len(reads) - 1 # 0
  BY <1>1 DEF Configured
<1>3. Len(reads) \in 2..Len(reads)
  <2>1. \A k \in Nat : k # 0 /\ k - 1 # 0 => k \in 2..k
    OBVIOUS
  <2> QED
    BY <1>2, <2>1
<1> QED
  BY <1>1, <1>3 DEF Kept

LEMMA SameKept == ASSUME UNCHANGED reads PROVE \A p : Kept(p)' <=> Kept(p)
  BY DEF Kept, Configured

\* Collectors and lists stay what they are, and no descriptor is opened.
LEMMA QuietO ==
  ASSUME OInv, LInv', UNCHANGED <<list, new, cols, reads>>, ~Waking' \/ UNCHANGED pc,
         DOMAIN socks' = DOMAIN socks,
         \A s \in DOMAIN socks : /\ socks'[s].port = socks[s].port
                                 /\ socks'[s].bound = socks[s].bound
                                 /\ socks'[s].open = socks[s].open
  PROVE  OInv'
<1>1. Now' = Now /\ Before' = Before /\ \A p : Kept(p)' <=> Kept(p)
  BY SameReads, SameKept
<1>2. Accounted'
  BY <1>1 DEF OInv, Accounted
<1>3. Rewoken'
  <2>1. CASE ~Waking'
    BY <2>1 DEF Rewoken
  <2>2. CASE UNCHANGED pc
    <3>1. ASSUME NEW c \in new, Ready(c)' PROVE Ready(c) /\ port(c)' = port(c)
      <4>1. cols[c].socket \in DOMAIN socks
        BY <3>1 DEF OInv, LInv, Listed, Owned, Ready
      <4> QED
        BY <3>1, <4>1 DEF Ready, port
    <3> QED
      BY <1>1, <2>2, <3>1 DEF OInv, Rewoken, Waking
  <2> QED
    BY <2>1, <2>2
<1> QED
  BY <1>2, <1>3 DEF OInv

LEMMA PacketO ==
  ASSUME OInv, LInv', UNCHANGED vars \/ (\E p \in Ports : Arrive(p))
                      \/ (\E t \in DOMAIN threads : Receive(t) \/ Take(t))
  PROVE  OInv'
<1>1. UNCHANGED <<pc, list, new, cols, reads>>
  BY DEF vars, Arrive, Receive, Take
<1>2. Shape
  BY DEF OInv, LInv
<1>3. CASE UNCHANGED socks
  BY <1>1, <1>3, QuietO
<1>4. ASSUME NEW s \in DOMAIN socks, NEW b, socks' = [socks EXCEPT ![s].buf = b] PROVE OInv'
  <2> DEFINE v == [socks[s] EXCEPT !.buf = b]
  <2>1. v = [port |-> socks[s].port, bound |-> socks[s].bound, open |-> socks[s].open, buf |-> b]
    BY <1>2, ShapeFacts, BufSet
  <2>2. socks' = [socks EXCEPT ![s] = v]
    BY <1>4
  <2> HIDE DEF v
  <2>3. v.port = socks[s].port /\ v.bound = socks[s].bound /\ v.open = socks[s].open
    BY <2>1
  <2> QED
    BY <1>1, <2>2, <2>3, QuietO
<1>5. ASSUME NEW p \in Ports, Arrive(p) PROVE OInv'
  <2>1. PICK s \in DOMAIN socks : socks' = [socks EXCEPT ![s].buf = Append(@, Len(sent) + 1)]
    BY <1>5 DEF Arrive, receiver
  <2> QED
    BY <2>1, <1>4
<1>6. ASSUME NEW t \in DOMAIN threads, Receive(t) PROVE OInv'
  BY <1>6, <1>3 DEF Receive
<1>7. ASSUME NEW t \in DOMAIN threads, Take(t) PROVE OInv'
  <2>1. PICK s : s = threads[t].fd
    OBVIOUS
  <2>2. socks' = [socks EXCEPT ![s].buf = Tail(@)]
    BY <1>7, <2>1 DEF Take
  <2>3. CASE s \in DOMAIN socks
    BY <2>2, <2>3, <1>4
  <2>4. CASE s \notin DOMAIN socks
    <3>1. DOMAIN socks' = DOMAIN socks /\ \A q \in DOMAIN socks : socks'[q] = socks[q]
      BY <2>2, <2>4
    <3> QED
      BY <3>1, <1>1, QuietO
  <2> QED
    BY <2>3, <2>4
<1> QED
  BY <1>3, <1>5, <1>6, <1>7 DEF vars

\* The configuration is read.
LEMMA ReadO ==
  ASSUME OInv, LInv', ReadOption \/ (\E p \in Ports : ParsePort(p)) PROVE OInv'
<1>1. reads \in Seq(Seq(Ports)) /\ reads' \in Seq(Seq(Ports)) /\ Shape
  BY DEF OInv, LInv, Shape
<1>2. UNCHANGED <<list, socks>> /\ pc' = "parse"
  BY DEF ReadOption, ParsePort
<1>3. \A c \in list : cols'[c] = cols[c]
  <2>1. CASE ReadOption
    BY <2>1 DEF ReadOption
  <2>2. ASSUME NEW p \in Ports, ParsePort(p) PROVE \A c \in list : cols'[c] = cols[c]
    <3>1. cols' = Append(cols, createNetFlowListener(p)) /\ cols \in Seq(Col)
          /\ list \subseteq DOMAIN cols
      BY <2>2, <1>1 DEF ParsePort, Shape, Col, OInv, LInv, Listed
    <3> QED
      BY <3>1
  <2> QED
    BY <2>1, <2>2
<1>4. Len(reads) <= Len(reads') /\ \A n \in 1..Len(reads) : Range(reads[n]) \subseteq Range(reads'[n])
  <2>1. CASE ReadOption
    <3>1. reads' = Append(reads, <<>>)
      BY <2>1 DEF ReadOption
    <3>2. Len(reads') = Len(reads) + 1 /\ Len(reads) \in Nat
          /\ \A n \in 1..Len(reads) : reads'[n] = reads[n]
      BY <3>1, <1>1
    <3> QED
      BY <3>2
  <2>2. ASSUME NEW p \in Ports, ParsePort(p)
        PROVE  Len(reads) <= Len(reads')
               /\ \A n \in 1..Len(reads) : Range(reads[n]) \subseteq Range(reads'[n])
    <3> DEFINE k == Len(reads)
               v == Append(reads[k], p)
    <3>1. reads # <<>> /\ reads' = [reads EXCEPT ![k] = v]
      BY <2>2 DEF ParsePort, OInv, LInv, Shape
    <3>2. k \in DOMAIN reads /\ DOMAIN reads = 1..k /\ reads[k] \in Seq(Ports) /\ k \in Nat
      BY <3>1, <1>1
    <3>3. Range(reads[k]) \subseteq Range(v)
      <4>1. \A i \in DOMAIN reads[k] : i \in DOMAIN v /\ v[i] = reads[k][i]
        BY <3>2
      <4> HIDE DEF v, k
      <4> QED
        BY <4>1 DEF Range
    <3> HIDE DEF v
    <3>4. /\ DOMAIN reads' = DOMAIN reads /\ reads'[k] = v
          /\ \A i \in DOMAIN reads : i # k => reads'[i] = reads[i]
          /\ reads' = [j \in DOMAIN reads' |-> reads'[j]]
      BY <3>1, <3>2
    <3>5. Len(reads') = k
      <4>1. v \in Seq(Ports)
        BY <3>2 DEF v
      <4> QED
        BY <4>1, <1>1, <3>2, <3>4, SeqKept
    <3>6. ASSUME NEW n \in 1..k PROVE Range(reads[n]) \subseteq Range(reads'[n])
      BY <3>2, <3>3, <3>4
    <3> QED
      BY <3>2, <3>5, <3>6
  <2> QED
    BY <2>1, <2>2
<1>5. \A p : Kept(p) => Kept(p)'
  BY <1>1, <1>4, KeptGrows
<1> QED
  BY <1>2, <1>3, <1>5 DEF OInv, Rewoken, Waking, Accounted

\* The merge closes the present descriptor of what it takes off the list.
LEMMA MergeO ==
  ASSUME OInv, LInv',
         ParseEnd \/ PurgeOldEnd \/ WakeUpFails \/ WakeUpEnd \/ Concat
         \/ (\E c \in list : PurgeOld(c)) \/ (\E c \in new : PurgeNew(c))
  PROVE  OInv'
<1>1. UNCHANGED reads /\ Shape
  BY DEF OInv, LInv, ParseEnd, PurgeOldEnd, WakeUpFails, WakeUpEnd, Concat, PurgeOld, PurgeNew
<1>2. Now' = Now /\ Before' = Before /\ \A p : Kept(p)' <=> Kept(p)
  BY <1>1, SameReads, SameKept
<1>3. CASE ParseEnd \/ PurgeOldEnd \/ WakeUpFails \/ WakeUpEnd
  <2>1. UNCHANGED <<list, new, cols, socks, reads>> /\ (~Waking' \/ UNCHANGED pc)
    BY <1>3 DEF ParseEnd, PurgeOldEnd, WakeUpFails, WakeUpEnd, Waking
  <2> QED
    BY <2>1, QuietO
<1>4. CASE Concat
  <2>1. /\ pc = "purge_new" /\ pc' = "wake" /\ list' = list \cup new /\ new' = list \cup new
        /\ UNCHANGED <<cols, socks>>
    BY <1>4 DEF Concat
  <2>2. Accounted'
    BY <1>2, <2>1 DEF OInv, Accounted
  <2>3. \A c \in new : ~Ready(c)
    BY <2>1 DEF OInv, LInv, Listed, Waking, Ready
  <2>4. \A c \in list : port(c) \in Before \cap Now
    BY <2>1 DEF OInv, LInv, Covered, PortsOf
  <2>5. Rewoken'
    BY <1>2, <2>1, <2>3, <2>4 DEF Rewoken, Ready, port
  <2> QED
    BY <2>2, <2>5 DEF OInv
<1>5. ASSUME NEW c \in DOMAIN cols, closeNetFlowListener(c), list \ {c} \subseteq list', ~Waking'
      PROVE  OInv'
  <2>1. /\ DOMAIN socks' = DOMAIN socks
        /\ \A d \in DOMAIN cols : d # c => cols'[d] = cols[d]
        /\ \A s \in DOMAIN socks :
             /\ socks'[s].port = socks[s].port
             /\ s # cols[c].socket => socks'[s].open = socks[s].open
             /\ s = cols[c].socket => ~socks'[s].open
    BY <1>1, <1>5, CloseFacts
  <2>2. ASSUME NEW s \in DOMAIN socks, socks'[s].open
        PROVE  (\E d \in list' : cols'[d].socket = s) \/ Kept(socks[s].port)'
    <3>1. s # cols[c].socket /\ socks[s].open /\ socks'[s].port = socks[s].port
      BY <2>1, <2>2
    <3>2. CASE Kept(socks[s].port)
      BY <3>1, <3>2, <1>1 DEF Kept, Configured
    <3>3. CASE \E d \in list : cols[d].socket = s
      <4>1. PICK d \in list : cols[d].socket = s
        BY <3>3
      <4>2. d # c /\ d \in DOMAIN cols
        BY <3>1, <4>1 DEF OInv, LInv, Listed
      <4> QED
        BY <4>1, <4>2, <1>5, <2>1
    <3> QED
      BY <3>1, <3>2, <3>3 DEF OInv, Accounted
  <2> QED
    BY <1>5, <2>1, <2>2 DEF OInv, Accounted, Rewoken
<1>6. ASSUME NEW c \in list, PurgeOld(c) PROVE OInv'
  <2>1. c \in DOMAIN cols
    BY DEF OInv, LInv, Listed
  <2> QED
    BY <1>5, <1>6, <2>1 DEF PurgeOld, Waking
<1>7. ASSUME NEW c \in new, PurgeNew(c) PROVE OInv'
  <2>1. c \in DOMAIN cols
    BY DEF OInv, LInv, Listed
  <2> QED
    BY <1>5, <1>7, <2>1 DEF PurgeNew, Waking
<1> QED
  BY <1>3, <1>4, <1>6, <1>7

\* socket() forgets a descriptor only of a port that was configured before.
LEMMA WakeSocketO == ASSUME OInv, LInv', NEW c \in new, WakeSocket(c) PROVE OInv'
<1> DEFINE n == Len(socks)
           v == [port |-> port(c), bound |-> FALSE, open |-> TRUE, buf |-> <<>>]
<1>1. /\ pc = "wake" /\ pc' = "bind" /\ socks' = Append(socks, v)
      /\ cols' = [cols EXCEPT ![c].socket = n + 1] /\ UNCHANGED <<list, new, reads>>
  BY DEF WakeSocket
<1>2. /\ Shape /\ c \in list /\ list \subseteq DOMAIN cols /\ new \subseteq list
      /\ c \in DOMAIN cols /\ n \in Nat /\ DOMAIN socks = 1..n
  BY <1>1, ShapeFacts DEF OInv, LInv, Listed, Waking
<1>3. ~v.bound
  OBVIOUS
<1> HIDE DEF v
<1>4. /\ DOMAIN socks' = 1..(n + 1) /\ socks'[n + 1] = v /\ \A s \in 1..n : socks'[s] = socks[s]
  <2>1. socks \in Seq(Sock)
    BY <1>2 DEF Shape, Sock
  <2> QED
    BY <2>1, <1>1
<1> HIDE DEF n
<1>5. /\ cols'[c].socket = n + 1 /\ cols'[c].port = cols[c].port
      /\ \A d \in DOMAIN cols : d # c => cols'[d] = cols[d]
  <2>1. [cols[c] EXCEPT !.socket = n + 1] =
          [port |-> cols[c].port, socket |-> n + 1, freed |-> cols[c].freed]
    BY <1>2, ShapeFacts, ColSet
  <2> QED
    BY <2>1, <1>1, <1>2
<1>6. \A s \in 1..(n + 1) : s \in 1..n \/ s = n + 1
  BY <1>2
<1>7. Now' = Now /\ Before' = Before /\ \A p : Kept(p)' <=> Kept(p)
  BY <1>1, SameReads, SameKept
<1>8. ASSUME NEW s \in 1..n, socks[s].open
      PROVE  (\E d \in list : cols'[d].socket = s) \/ Kept(socks[s].port)
  <2>1. CASE Kept(socks[s].port)
    BY <2>1
  <2>2. CASE cols[c].socket = s
    <3>1. socks[s].bound /\ socks[s].port = port(c) /\ cols[c].socket # None
      <4>1. socks[s].bound
        BY <1>1, <1>2, <1>8 DEF OInv, LInv, Binding
      <4>2. s # None
        BY <1>2 DEF None
      <4> QED
        BY <4>1, <4>2, <2>2, <1>2 DEF OInv, LInv, Owned
    <3>2. port(c) \in Before \cap Now
      BY <3>1, <2>2, <1>1 DEF OInv, Rewoken, Waking, Ready
    <3> QED
      BY <3>1, <3>2, <1>2, KeptNow DEF Shape
  <2>3. CASE cols[c].socket # s /\ ~Kept(socks[s].port)
    <3>1. PICK d \in list : cols[d].socket = s
      BY <2>3, <1>2, <1>8 DEF OInv, Accounted
    <3> QED
      BY <3>1, <2>3, <1>2, <1>5
  <2> QED
    BY <2>1, <2>2, <2>3
<1>9. Accounted'
  <2>1. ASSUME NEW s \in 1..(n + 1), socks'[s].open
        PROVE  (\E d \in list : cols'[d].socket = s) \/ Kept(socks[s].port)'
    <3>1. CASE s = n + 1
      BY <3>1, <1>2, <1>5
    <3>2. CASE s \in 1..n
      <4>1. socks'[s] = socks[s] /\ socks[s].open
        BY <2>1, <3>2, <1>4
      <4>2. Kept(socks[s].port) => Kept(socks[s].port)'
        BY <4>1, <1>1 DEF Kept, Configured
      <4> QED
        BY <3>2, <4>1, <4>2, <1>8
    <3> QED
      BY <3>1, <3>2, <1>6
  <2> QED
    BY <2>1, <1>1, <1>4 DEF Accounted
<1>10. Rewoken'
  <2>1. ASSUME NEW d \in new, Ready(d)' PROVE port(d)' \in Before \cap Now
    <3>1. d # c
      BY <2>1, <1>3, <1>4, <1>5 DEF Ready
    <3>2. cols'[d] = cols[d] /\ cols[d].socket # None
      BY <2>1, <3>1, <1>2, <1>5 DEF Ready
    <3>3. cols[d].socket \in 1..n
      BY <3>2, <1>2 DEF OInv, LInv, Owned
    <3> QED
      BY <2>1, <3>2, <3>3, <1>1, <1>4 DEF Ready, OInv, Rewoken, Waking, port
  <2> QED
    BY <2>1, <1>1, <1>7 DEF Rewoken
<1> QED
  BY <1>9, <1>10 DEF OInv

LEMMA WakeBindO == ASSUME OInv, LInv', NEW c \in new, WakeBind(c) PROVE OInv'
<1>1. /\ pc = "bind" /\ socks' = [socks EXCEPT ![cols[c].socket].bound = TRUE]
      /\ new' = new \ {c} /\ c \in First(new) /\ UNCHANGED <<list, cols, reads>>
  BY DEF WakeBind
<1>2. /\ cols[c].socket \in DOMAIN socks /\ c \in DOMAIN cols /\ cols[c].socket # None
      /\ Shape /\ new \subseteq DOMAIN cols
  BY <1>1, BeingOpened DEF OInv, LInv, Listed
<1>3. /\ DOMAIN socks' = DOMAIN socks
      /\ \A q \in DOMAIN socks : q # cols[c].socket => socks'[q] = socks[q]
      /\ \A q \in DOMAIN socks : socks'[q].port = socks[q].port /\ socks'[q].open = socks[q].open
  BY <1>1, <1>2, BoundFacts
<1>4. Now' = Now /\ Before' = Before /\ \A p : Kept(p)' <=> Kept(p)
  BY <1>1, SameReads, SameKept
<1>5. Accounted'
  BY <1>1, <1>3, <1>4 DEF OInv, Accounted
<1>6. ASSUME NEW d \in new \ {c}, Ready(d)' PROVE port(d)' \in Before \cap Now
  <2>1. cols[d].socket # None /\ cols[d].socket # cols[c].socket /\ cols[d].socket \in DOMAIN socks
    BY <1>1, <1>2, <1>6 DEF OInv, LInv, Owned, Ready
  <2>2. Ready(d)
    BY <2>1, <1>1, <1>3, <1>6 DEF Ready
  <2> QED
    BY <2>2, <1>1, <1>6 DEF OInv, Rewoken, Waking, port
<1> QED
  BY <1>1, <1>4, <1>5, <1>6 DEF OInv, Rewoken

LEMMA InitO == Init => OInv
<1> SUFFICES ASSUME Init PROVE OInv
  OBVIOUS
<1>1. DOMAIN <<>> = {}
  OBVIOUS
<1>2. Rewoken /\ Accounted
  BY <1>1 DEF Init, Rewoken, Waking, Accounted
<1> QED
  BY <1>2, InitL DEF OInv

LEMMA NextO == OInv /\ [Next]_vars => OInv'
<1> SUFFICES ASSUME OInv, [Next]_vars PROVE OInv'
  OBVIOUS
<1>1. LInv'
  BY NextL DEF OInv
<1>2. CASE UNCHANGED vars \/ (\E p \in Ports : Arrive(p))
           \/ (\E t \in DOMAIN threads : Receive(t) \/ Take(t))
  BY <1>1, <1>2, PacketO
<1>3. CASE ReadOption \/ (\E p \in Ports : ParsePort(p))
  BY <1>1, <1>3, ReadO
<1>4. CASE ParseEnd \/ PurgeOldEnd \/ WakeUpFails \/ WakeUpEnd \/ Concat
           \/ (\E c \in list : PurgeOld(c)) \/ (\E c \in new : PurgeNew(c))
  BY <1>1, <1>4, MergeO
<1>5. ASSUME NEW c \in new, WakeSocket(c) \/ WakeBind(c) PROVE OInv'
  BY <1>1, <1>5, WakeSocketO, WakeBindO
<1> QED
  BY <1>2, <1>3, <1>4, <1>5 DEF Next

\* When parseOptions is done, whatever was listed before, the listed ports are those
\* of --collector-port, a thread serves each of them, and a descriptor of any other
\* port is open only if that port once outlived a reload.
THEOREM ListenersInstalled == Spec => []Installed
<1>1. ASSUME OInv, pc = "idle"
      PROVE  /\ PortsOf(list) = Now /\ \A p \in Now : Served(p)
             /\ \A s \in DOMAIN socks :
                  socks[s].open => socks[s].port \in Now \/ Kept(socks[s].port)
  <2>1. PortsOf(list) = Now /\ LInv
    BY <1>1 DEF OInv, LInv, Covered
  <2>2. ASSUME NEW p \in Now PROVE Served(p)
    <3>1. PICK c \in list : p = port(c)
      BY <2>1 DEF PortsOf
    <3>2. cols[c].socket # None /\ Stays(c) /\ ~Opening(port(c))
      BY <1>1, <2>1, <3>1 DEF LInv, Covered, Waking, Stays, Opening
    <3> QED
      BY <2>1, <3>1, <3>2, ReadyUnlessOpening, ServedBy
  <2>3. ASSUME NEW s \in DOMAIN socks, socks[s].open, ~Kept(socks[s].port)
        PROVE  socks[s].port \in Now
    <3>1. PICK c \in list : cols[c].socket = s
      BY <1>1, <2>3 DEF OInv, Accounted
    <3>2. cols[c].socket # None
      BY <1>1, <2>1, <3>1 DEF LInv, Covered, Waking
    <3>3. socks[s].port = port(c)
      BY <2>1, <3>1, <3>2 DEF LInv, Listed, Owned
    <3> QED
      BY <2>1, <3>1, <3>3 DEF PortsOf
  <2> QED
    BY <2>1, <2>2, <2>3
<1>2. OInv => Installed
  BY <1>1 DEF Installed, PortsOf
<1> QED
  BY <1>2, InitO, NextO, PTL DEF Spec

-----------------------------------------------------------------------------
(* The stream of a port configured once.                                   *)

\* q is the subsequence of the places of p in u.
PlacesOf(q, p, u) ==
  /\ \A i, j \in DOMAIN q : i < j => q[i] < q[j]
  /\ Range(q) = {n \in DOMAIN u : u[n] = p}

SocketsOf(p) == {s \in DOMAIN socks : socks[s].port = p}
Known == {p \in Ports : \E n \in DOMAIN reads : p \in Range(reads[n])}

Histories ==
  /\ taken \in [Ports -> Seq(Nat)]
  /\ \A t \in DOMAIN threads : threads[t].fd = None \/ threads[t].fd \in DOMAIN socks

\* Nothing has come for p yet.
Untouched(p) == SocketsOf(p) = {} /\ taken[p] = <<>> /\ PlacesOf(<<>>, p, sent)

\* Nothing is there for a port that was never configured.
Fresh == \A p \in Ports \ Known : Untouched(p) /\ \A c \in DOMAIN cols : port(c) # p

Late == {"wake", "bind", "idle"}

\* A port configured once has one collector, which is woken once.
Sole(p) ==
  /\ \A c, d \in DOMAIN cols : port(c) = p /\ port(d) = p => c = d
  /\ SocketsOf(p) # {} => pc \in Late /\ (p \notin PortsOf(new) \/ Opening(p))
Flowing(p) ==
  \E s \in SocketsOf(p) : SocketsOf(p) = {s} /\ PlacesOf(taken[p] \o socks[s].buf, p, sent)
Streams == \A p \in Now : Once(p) => Sole(p) /\ (Untouched(p) \/ Flowing(p))

\* The inductive invariant of the streams, on top of LInv.
SInv == LInv /\ Histories /\ Fresh /\ Streams

\* Steps that leave the packets alone: only the waking of a listener matters.
LEMMA QuietS ==
  ASSUME SInv, LInv', Histories', UNCHANGED <<reads, sent, taken>>,
         DOMAIN cols' = DOMAIN cols, \A c \in DOMAIN cols : cols'[c].port = cols[c].port,
         DOMAIN socks' = DOMAIN socks,
         \A s \in DOMAIN socks : socks'[s].port = socks[s].port /\ socks'[s].buf = socks[s].buf,
         pc \in Late => pc' \in Late,
         \A p : pc \in Late /\ Sole(p) /\ (p \notin PortsOf(new) \/ Opening(p))
                  => p \notin PortsOf(new)' \/ Opening(p)'
  PROVE  SInv'
<1>1. /\ Now' = Now /\ Known' = Known /\ \A p : Once(p)' <=> Once(p)
  BY DEF Now, Configured, Known, Once
<1>2. \A p : SocketsOf(p)' = SocketsOf(p)
  BY DEF SocketsOf
<1>3. \A p : Untouched(p) => Untouched(p)'
  BY <1>2 DEF Untouched
<1>4. Fresh'
  BY <1>1, <1>3 DEF SInv, Fresh, port
<1>5. \A p : Sole(p) => Sole(p)'
  BY <1>2 DEF Sole, port
<1>6. \A p : Flowing(p) => Flowing(p)'
  BY <1>2 DEF Flowing, SocketsOf
<1>7. Streams'
  BY <1>1, <1>3, <1>5, <1>6 DEF SInv, Streams
<1> QED
  BY <1>4, <1>7 DEF SInv

\* Closing a socket leaves what waits in it.
LEMMA CloseBuffers ==
  ASSUME Shape, NEW c \in DOMAIN cols, closeNetFlowListener(c)
  PROVE  \A s \in DOMAIN socks : socks'[s].buf = socks[s].buf
<1>1. ASSUME NEW s \in DOMAIN socks PROVE socks'[s].buf = socks[s].buf
  <2>1. [socks[s] EXCEPT !.open = FALSE] =
          [port |-> socks[s].port, bound |-> socks[s].bound, open |-> FALSE, buf |-> socks[s].buf]
    BY ShapeFacts, OpenSet
  <2>2. [socks[s] EXCEPT !.open = FALSE].buf = socks[s].buf
    BY <2>1
  <2> QED
    BY <2>2 DEF closeNetFlowListener
<1> QED
  BY <1>1

MergeStep ==
  \/ ParseEnd \/ PurgeOldEnd \/ WakeUpFails \/ WakeUpEnd \/ Concat
  \/ (\E c \in list : PurgeOld(c)) \/ (\E c \in new : PurgeNew(c))

LEMMA MergeS == ASSUME SInv, LInv', MergeStep \/ UNCHANGED vars PROVE SInv'
<1>1. UNCHANGED <<reads, sent, taken, threads>>
  BY DEF MergeStep, vars, ParseEnd, PurgeOldEnd, WakeUpFails, WakeUpEnd, Concat,
         PurgeOld, PurgeNew
<1>2. pc \in Late => /\ pc' \in Late /\ new' = new /\ cols' = cols
                    /\ (pc' = pc \/ pc = "wake")
  BY DEF Late, MergeStep, vars, ParseEnd, PurgeOldEnd, WakeUpFails, WakeUpEnd, Concat,
         PurgeOld, PurgeNew
<1>3. pc \in Late => /\ PortsOf(new)' = PortsOf(new)
                    /\ \A p : Opening(p) => Opening(p)'
  BY <1>2 DEF PortsOf, port, Opening, First
<1>4. /\ DOMAIN cols' = DOMAIN cols /\ \A c \in DOMAIN cols : cols'[c].port = cols[c].port
      /\ DOMAIN socks' = DOMAIN socks
      /\ \A s \in DOMAIN socks : socks'[s].port = socks[s].port /\ socks'[s].buf = socks[s].buf
  <2>1. CASE UNCHANGED <<cols, socks>>
    BY <2>1
  <2>2. ASSUME NEW c \in list \cup new, closeNetFlowListener(c)
        PROVE  /\ DOMAIN cols' = DOMAIN cols /\ \A d \in DOMAIN cols : cols'[d].port = cols[d].port
               /\ DOMAIN socks' = DOMAIN socks
               /\ \A s \in DOMAIN socks : socks'[s].port = socks[s].port /\ socks'[s].buf = socks[s].buf
    <3>1. Shape /\ c \in DOMAIN cols
      BY <2>2 DEF SInv, LInv, Listed
    <3> QED
      BY <2>2, <3>1, CloseFacts, CloseBuffers
  <2> QED
    BY <2>1, <2>2 DEF MergeStep, vars, ParseEnd, PurgeOldEnd, WakeUpFails, WakeUpEnd, Concat,
         PurgeOld, PurgeNew
<1>5. Histories'
  BY <1>1, <1>4 DEF SInv, Histories
<1>6. UNCHANGED <<reads, sent, taken>>
  BY <1>1
<1> QED
  BY <1>2, <1>3, <1>4, <1>5, <1>6, QuietS

LEMMA ReceiveS == ASSUME SInv, LInv', NEW t \in DOMAIN threads, Receive(t) PROVE SInv'
<1>1. /\ UNCHANGED <<pc, new, cols, socks, reads, sent, taken>>
      /\ \/ UNCHANGED threads
         \/ threads' = [threads EXCEPT ![t].fd = cols[threads[t].col].socket]
  BY DEF Receive
<1>2. Shape /\ threads[t].col \in DOMAIN cols
  BY DEF SInv, LInv, Listed
<1>3. Histories'
  <2>1. CASE UNCHANGED threads
    BY <1>1, <2>1 DEF SInv, Histories
  <2>2. CASE threads' = [threads EXCEPT ![t].fd = cols[threads[t].col].socket]
    <3> DEFINE s == cols[threads[t].col].socket
    <3>1. s \in Nat /\ (s = None \/ s \in DOMAIN socks)
      BY <1>2, ShapeFacts DEF SInv, LInv, Owned
    <3> HIDE DEF s
    <3>2. /\ DOMAIN threads' = DOMAIN threads /\ threads'[t].fd = s
          /\ \A r \in DOMAIN threads : r # t => threads'[r] = threads[r]
      BY <1>2, <2>2, <3>1, ThreadsKept DEF s
    <3> QED
      BY <1>1, <3>1, <3>2 DEF SInv, Histories
  <2> QED
    BY <1>1, <2>1, <2>2
<1>4. /\ UNCHANGED <<pc, reads, sent, taken>> /\ PortsOf(new)' = PortsOf(new)
      /\ \A p : Opening(p)' <=> Opening(p)
  BY <1>1 DEF PortsOf, port, Opening, First
<1> QED
  BY <1>1, <1>3, <1>4, QuietS

-----------------------------------------------------------------------------
(* Configurations.                                                         *)

LEMMA ReadOptionS == ASSUME SInv, LInv', ReadOption PROVE SInv'
<1>1. /\ reads' = Append(reads, <<>>) /\ UNCHANGED <<new, cols, socks, threads, sent, taken>>
  BY DEF ReadOption
<1>2. reads \in Seq(Seq(Ports))
  BY DEF SInv, LInv, Shape
<1>3. Now' = {}
  BY <1>1, <1>2, ReadsBegin
<1>4. Known \subseteq Known'
  <2>1. /\ \A n \in DOMAIN reads : n \in DOMAIN reads' /\ reads'[n] = reads[n]
    BY <1>1, <1>2
  <2> QED
    BY <2>1 DEF Known
<1>5. Fresh'
  <2>1. \A p : Untouched(p) => Untouched(p)'
    BY <1>1 DEF Untouched, SocketsOf
  <2> QED
    BY <1>1, <1>4, <2>1 DEF SInv, Fresh, port
<1>6. Histories' /\ Streams'
  BY <1>1, <1>3 DEF SInv, Histories, Streams
<1> QED
  BY <1>5, <1>6 DEF SInv

OnceIn(R, p) ==
  \A n, m \in DOMAIN R : \A i \in DOMAIN R[n], j \in DOMAIN R[m] :
    R[n][i] = p /\ R[m][j] = p => n = m /\ i = j

LEMMA OnceMeans == \A p : (Once(p) <=> OnceIn(reads, p)) /\ (Once(p)' <=> OnceIn(reads', p))
  BY DEF Once, OnceIn

LEMMA OnceUsed ==
  ASSUME NEW R, NEW p, OnceIn(R, p), NEW a \in DOMAIN R, NEW b \in DOMAIN R,
         NEW x \in DOMAIN R[a], NEW y \in DOMAIN R[b], R[a][x] = p, R[b][y] = p
  PROVE  a = b /\ x = y
  BY DEF OnceIn

\* What is named at two places is not named once.
LEMMA NotOnce ==
  ASSUME NEW R, NEW p, OnceIn(R, p), NEW a, NEW b, NEW x, NEW y,
         a \in DOMAIN R /\ x \in DOMAIN R[a] /\ R[a][x] = p,
         b \in DOMAIN R /\ y \in DOMAIN R[b] /\ R[b][y] = p,
         ~(a = b /\ x = y)
  PROVE  FALSE
  BY OnceUsed

\* What was named once before was named once.
LEMMA OnceBefore ==
  ASSUME NEW R, NEW Q, NEW p, OnceIn(Q, p), DOMAIN R \subseteq DOMAIN Q,
         \A k \in DOMAIN R : \A i \in DOMAIN R[k] : i \in DOMAIN Q[k] /\ Q[k][i] = R[k][i]
  PROVE  OnceIn(R, p)
<1> SUFFICES ASSUME NEW a \in DOMAIN R, NEW b \in DOMAIN R,
                    NEW x \in DOMAIN R[a], NEW y \in DOMAIN R[b], R[a][x] = p, R[b][y] = p
             PROVE  a = b /\ x = y
  BY DEF OnceIn
<1>1. /\ a \in DOMAIN Q /\ x \in DOMAIN Q[a] /\ Q[a][x] = p
      /\ b \in DOMAIN Q /\ y \in DOMAIN Q[b] /\ Q[b][y] = p
  OBVIOUS
<1> QED
  BY <1>1, OnceUsed

\* A port that the new configuration names, and that was named once at most.
LEMMA OnceGrows ==
  ASSUME reads \in Seq(Seq(Ports)), reads # <<>>, NEW p \in Ports,
         reads' = [reads EXCEPT ![Len(reads)] = Append(@, p)]
  PROVE  /\ Known' = Known \cup {p}
         /\ Once(p)' => p \notin Known
         /\ \A q : Once(q)' => Once(q)
<1> DEFINE n == Len(reads)
           u == reads[n]
           m == Len(u)
           v == Append(u, p)
<1>1. n \in DOMAIN reads /\ u \in Seq(Ports)
  OBVIOUS
<1>2. /\ m \in Nat /\ DOMAIN u = 1..m /\ DOMAIN v = 1..(m + 1) /\ v[m + 1] = p
      /\ \A i \in 1..m : v[i] = u[i]
  BY <1>1
<1>3. reads' = [reads EXCEPT ![n] = v]
  OBVIOUS
<1> HIDE DEF n, u, m, v
<1>4. /\ DOMAIN reads' = DOMAIN reads /\ reads'[n] = v /\ u = reads[n]
      /\ \A i \in DOMAIN reads : i # n => reads'[i] = reads[i]
  BY <1>1, <1>3 DEF u
<1>5. /\ \A i \in 1..(m + 1) : i \in 1..m \/ i = m + 1
      /\ \A i \in 1..m : i \in 1..(m + 1) /\ i # m + 1
      /\ m + 1 \in 1..(m + 1)
  BY <1>2
<1>6. \A k \in DOMAIN reads : \A i \in DOMAIN reads[k] :
        i \in DOMAIN reads'[k] /\ reads'[k][i] = reads[k][i] /\ ~(k = n /\ i = m + 1)
  BY <1>2, <1>4, <1>5
<1>7. n \in DOMAIN reads' /\ m + 1 \in DOMAIN reads'[n] /\ reads'[n][m + 1] = p
  BY <1>1, <1>2, <1>4, <1>5
<1>8. \A q : Once(q)' => Once(q)
  <2>1. \A q : OnceIn(reads', q) => OnceIn(reads, q)
    BY <1>4, <1>6, OnceBefore
  <2> QED
    BY <2>1, OnceMeans
<1>9. Once(p)' => p \notin Known
  <2>1. SUFFICES ASSUME Once(p)', p \in Known PROVE FALSE
    OBVIOUS
  <2>2. PICK k \in DOMAIN reads : \E i \in DOMAIN reads[k] : reads[k][i] = p
    BY <2>1 DEF Known, Range
  <2>3. PICK i \in DOMAIN reads[k] : reads[k][i] = p
    BY <2>2
  <2>4. i \in DOMAIN reads'[k] /\ reads'[k][i] = p /\ ~(k = n /\ i = m + 1) /\ k \in DOMAIN reads'
    BY <2>3, <1>4, <1>6
  <2>5. OnceIn(reads', p)
    BY <2>1, OnceMeans
  <2>6. PICK j : j = m + 1
    OBVIOUS
  <2>7. n \in DOMAIN reads' /\ j \in DOMAIN reads'[n] /\ reads'[n][j] = p
    BY <1>7, <2>6
  <2>8. k \in DOMAIN reads' /\ i \in DOMAIN reads'[k] /\ reads'[k][i] = p
    BY <2>4
  <2>9. ~(k = n /\ i = j)
    BY <2>4, <2>6
  <2> QED
    BY ONLY <2>5, <2>7, <2>8, <2>9, NotOnce
<1>10. Known' = Known \cup {p}
  <2>1. \A k \in DOMAIN reads : k # n => Range(reads'[k]) = Range(reads[k])
    BY <1>4
  <2>2. Range(reads'[n]) = Range(reads[n]) \cup {p}
    <3>1. Range(v) \subseteq Range(u) \cup {p}
      BY <1>2, <1>5 DEF Range
    <3>2. Range(u) \cup {p} \subseteq Range(v)
      BY <1>2, <1>5 DEF Range
    <3> QED
      BY <3>1, <3>2, <1>4
  <2> QED
    BY <2>1, <2>2, <1>1, <1>4 DEF Known
<1> QED
  BY <1>8, <1>9, <1>10

LEMMA ParsePortS == ASSUME SInv, LInv', NEW p \in Ports, ParsePort(p) PROVE SInv'
<1> DEFINE n == Len(cols)
           v == createNetFlowListener(p)
<1>1. /\ pc = "parse" /\ pc' = pc /\ cols' = Append(cols, v) /\ new' = new \cup {n + 1}
      /\ reads' = [reads EXCEPT ![Len(reads)] = Append(@, p)]
      /\ UNCHANGED <<socks, threads, sent, taken>>
  BY DEF ParsePort
<1>2. Shape /\ reads \in Seq(Seq(Ports)) /\ reads # <<>>
  BY <1>1 DEF SInv, LInv, Shape
<1>3. /\ Known' = Known \cup {p} /\ (Once(p)' => p \notin Known) /\ \A q : Once(q)' => Once(q)
  BY <1>1, <1>2, OnceGrows
<1>4. Now' = Now \cup {p}
  BY <1>1, <1>2, ReadsGrow
<1>5. /\ n \in Nat /\ DOMAIN cols = 1..n /\ DOMAIN cols' = 1..(n + 1) /\ cols'[n + 1].port = p
      /\ \A c \in 1..n : cols'[c] = cols[c]
  <2>1. cols \in Seq(Col)
    BY <1>2 DEF Shape, Col
  <2> QED
    BY <1>1, <2>1 DEF createNetFlowListener
<1> HIDE DEF n, v
<1>6. \A c \in DOMAIN cols' : \/ c \in DOMAIN cols /\ port(c)' = port(c)
                              \/ c = n + 1 /\ port(c)' = p
  <2>1. ASSUME NEW c \in 1..(n + 1)
        PROVE  (c \in 1..n /\ cols'[c].port = cols[c].port) \/ (c = n + 1 /\ cols'[c].port = p)
    <3>1. c \in 1..n \/ c = n + 1
      BY <1>5
    <3> QED
      BY <3>1, <1>5
  <2> QED
    BY <2>1, <1>5 DEF port
<1>7. \A q : SocketsOf(q)' = SocketsOf(q) /\ (Untouched(q)' <=> Untouched(q))
             /\ (Flowing(q) => Flowing(q)')
  BY <1>1 DEF SocketsOf, Untouched, Flowing
<1>8. Fresh'
  <2>1. ASSUME NEW q \in Ports \ Known' PROVE Untouched(q)' /\ \A c \in DOMAIN cols' : port(c)' # q
    <3>1. q \in Ports \ Known /\ q # p
      BY <2>1, <1>3
    <3> QED
      BY <3>1, <1>6, <1>7 DEF SInv, Fresh
  <2> QED
    BY <2>1 DEF Fresh
<1>9. Streams'
  <2>1. ASSUME NEW q \in Now', Once(q)' PROVE Sole(q)' /\ (Untouched(q)' \/ Flowing(q)')
    <3>1. CASE q = p
      <4>1. Untouched(q) /\ \A c \in DOMAIN cols : port(c) # q
        BY <2>1, <3>1, <1>3 DEF SInv, Fresh
      <4>2. SocketsOf(q)' = {}
        BY <4>1, <1>7 DEF Untouched
      <4>3. \A c, d \in DOMAIN cols' : port(c)' = q /\ port(d)' = q => c = d
        BY <4>1, <1>6
      <4> QED
        BY <4>1, <4>2, <4>3, <1>7 DEF Sole
    <3>2. CASE q # p
      <4>1. Sole(q) /\ (Untouched(q) \/ Flowing(q))
        BY <2>1, <3>2, <1>3, <1>4 DEF SInv, Streams
      <4>2. SocketsOf(q)' = {}
        BY <4>1, <1>1, <1>7 DEF Sole, Late
      <4>3. \A c, d \in DOMAIN cols' : port(c)' = q /\ port(d)' = q => c = d
        BY <4>1, <3>2, <1>6 DEF Sole
      <4> QED
        BY <4>1, <4>2, <4>3, <1>7 DEF Sole
    <3> QED
      BY <3>1, <3>2
  <2> QED
    BY <2>1 DEF Streams
<1>10. Histories'
  BY <1>1 DEF SInv, Histories
<1> QED
  BY <1>8, <1>9, <1>10 DEF SInv
-----------------------------------------------------------------------------
(* Sockets and packets.                                                    *)

\* The first socket of a port begins empty.
LEMMA WakeSocketS == ASSUME SInv, LInv', NEW c \in new, WakeSocket(c) PROVE SInv'
<1> DEFINE n == Len(socks)
           v == [port |-> port(c), bound |-> FALSE, open |-> TRUE, buf |-> <<>>]
           w == [cols[c] EXCEPT !.socket = n + 1]
<1>1. /\ pc = "wake" /\ pc' = "bind" /\ socks' = Append(socks, v) /\ c \in First(new)
      /\ cols' = [cols EXCEPT ![c] = w] /\ UNCHANGED <<new, threads, reads, sent, taken>>
  BY DEF WakeSocket
<1>2. /\ Shape /\ new \subseteq DOMAIN cols /\ c \in DOMAIN cols /\ port(c) \in Ports
      /\ n \in Nat /\ DOMAIN socks = 1..n
  BY ShapeFacts DEF SInv, LInv, Listed, port
<1>3. v.port = port(c) /\ v.buf = <<>>
  OBVIOUS
<1>4. w.port = port(c)
  <2>1. w = [port |-> cols[c].port, socket |-> n + 1, freed |-> cols[c].freed]
    BY <1>2, ShapeFacts, ColSet
  <2> HIDE DEF w
  <2> QED
    BY <2>1 DEF port
<1> HIDE DEF v, w
<1>5. DOMAIN cols' = DOMAIN cols /\ \A d \in DOMAIN cols : port(d)' = port(d)
  BY <1>1, <1>2, <1>4 DEF port
<1>6. /\ DOMAIN socks' = 1..(n + 1) /\ socks'[n + 1] = v /\ \A s \in 1..n : socks'[s] = socks[s]
  <2>1. socks \in Seq(Sock)
    BY <1>2 DEF Shape, Sock
  <2> QED
    BY <2>1, <1>1
<1> HIDE DEF n
<1>7. \A k \in Nat : /\ \A j \in 1..(k + 1) : j \in 1..k \/ j = k + 1
                     /\ \A j \in 1..k : j \in 1..(k + 1) /\ j # k + 1
                     /\ k + 1 \in 1..(k + 1)
  OBVIOUS
<1>8. Histories'
  <2>1. \A t \in DOMAIN threads' : threads'[t].fd = None \/ threads'[t].fd \in DOMAIN socks'
    BY <1>1, <1>2, <1>6, <1>7 DEF SInv, Histories
  <2> QED
    BY <2>1, <1>1 DEF SInv, Histories
<1>9. \A s \in DOMAIN socks' : (s \in DOMAIN socks /\ socks'[s] = socks[s]) \/ (s = n + 1 /\ socks'[s] = v)
  BY <1>2, <1>6, <1>7
<1>10. n + 1 \in DOMAIN socks' /\ n + 1 \notin DOMAIN socks
  BY <1>2, <1>6, <1>7
<1>11. DOMAIN socks \subseteq DOMAIN socks' /\ \A s \in DOMAIN socks : socks'[s] = socks[s]
  BY <1>2, <1>6, <1>7
<1>12. ASSUME NEW q, q # port(c)
       PROVE  /\ SocketsOf(q)' = SocketsOf(q) /\ (Untouched(q) => Untouched(q)')
              /\ (Flowing(q) => Flowing(q)')
  <2>1. SocketsOf(q)' = SocketsOf(q)
    BY <1>3, <1>9, <1>11, <1>12 DEF SocketsOf
  <2>2. \A s \in SocketsOf(q) : socks'[s] = socks[s]
    BY <1>11 DEF SocketsOf
  <2> QED
    BY <2>1, <2>2, <1>1 DEF Untouched, Flowing
<1>13. ASSUME SocketsOf(port(c)) = {} PROVE SocketsOf(port(c))' = {n + 1}
  <2>1. \A s \in DOMAIN socks' : socks'[s].port = port(c) <=> s = n + 1
    BY <1>3, <1>9, <1>10, <1>13 DEF SocketsOf
  <2>2. port(c)' = port(c)
    BY <1>2, <1>5
  <2> QED
    BY <2>1, <2>2, <1>10 DEF SocketsOf
<1>14. Now' = Now /\ Known' = Known /\ \A q : Once(q)' <=> Once(q)
  BY <1>1 DEF Now, Configured, Known, Once
<1>15. Fresh'
  <2>1. ASSUME NEW q \in Ports \ Known PROVE Untouched(q)' /\ \A d \in DOMAIN cols' : port(d)' # q
    <3>1. Untouched(q) /\ \A d \in DOMAIN cols : port(d) # q
      BY DEF SInv, Fresh
    <3> QED
      BY <3>1, <1>2, <1>5, <1>12
  <2> QED
    BY <2>1, <1>14 DEF Fresh
<1>16. Streams'
  <2>1. ASSUME NEW q \in Now, Once(q) PROVE Sole(q)' /\ (Untouched(q)' \/ Flowing(q)')
    <3>1. Sole(q) /\ (Untouched(q) \/ Flowing(q))
      BY <2>1 DEF SInv, Streams
    <3>2. \A d, e \in DOMAIN cols' : port(d)' = q /\ port(e)' = q => d = e
      BY <3>1, <1>5 DEF Sole
    <3>3. CASE q # port(c)
      <4>1. PortsOf(new)' \subseteq PortsOf(new)
        BY <1>1, <1>2, <1>5 DEF PortsOf
      <4> QED
        BY <3>1, <3>2, <3>3, <4>1, <1>1, <1>12 DEF Sole, Opening, Late
    <3>4. CASE q = port(c)
      <4>1. SocketsOf(q) = {}
        BY <3>1, <3>4, <1>1 DEF Sole, Opening, PortsOf
      <4>2. taken[q] = <<>> /\ PlacesOf(<<>>, q, sent)
        BY <3>1, <4>1 DEF Untouched, Flowing
      <4>3. SocketsOf(q)' = {n + 1}
        <5>1. q = port(c)'
          BY <3>4, <1>2, <1>5
        <5> QED
          BY <3>4, <4>1, <5>1, <1>13 DEF SocketsOf
      <4>4. taken'[q] \o socks'[n + 1].buf = <<>>
        BY <4>2, <1>1, <1>3, <1>6
      <4>5. Flowing(q)'
        BY <4>2, <4>3, <4>4, <1>1 DEF Flowing
      <4>6. Opening(q)'
        BY <3>4, <1>1, <1>2, <1>5 DEF Opening, First
      <4> QED
        BY <3>2, <4>5, <4>6, <1>1 DEF Sole, Late
    <3> QED
      BY <3>3, <3>4
  <2> QED
    BY <2>1, <1>14 DEF Streams
<1> QED
  BY <1>8, <1>15, <1>16 DEF SInv

\* Binding a socket leaves what waits in sockets, and ends the opening of its port.
LEMMA WakeBindS == ASSUME SInv, LInv', NEW c \in new, WakeBind(c) PROVE SInv'
<1> DEFINE h == [col |-> c, fd |-> None]
           m == Len(threads)
<1>1. /\ pc = "bind" /\ pc' = "wake" /\ socks' = [socks EXCEPT ![cols[c].socket].bound = TRUE]
      /\ threads' = Append(threads, h) /\ new' = new \ {c} /\ c \in First(new)
      /\ UNCHANGED <<cols, reads, sent, taken>>
  BY DEF WakeBind
<1>2. /\ cols[c].socket \in DOMAIN socks /\ Shape /\ \A d \in First(new) : d = c
      /\ new \subseteq DOMAIN cols /\ c \in DOMAIN cols
  BY <1>1, BeingOpened DEF SInv, LInv, Listed
<1>3. /\ DOMAIN socks' = DOMAIN socks
      /\ \A s \in DOMAIN socks : socks'[s].port = socks[s].port /\ socks'[s].buf = socks[s].buf
  BY <1>1, <1>2, BoundFacts
<1>4. Histories'
  <2>1. threads \in Seq([col : Nat, fd : Nat])
    BY <1>2 DEF Shape
  <2>2. h.fd = None
    OBVIOUS
  <2> HIDE DEF h
  <2>3. /\ DOMAIN threads' = 1..(m + 1) /\ threads'[m + 1] = h /\ m \in Nat
        /\ DOMAIN threads = 1..m /\ \A t \in 1..m : threads'[t] = threads[t]
    BY <2>1, <1>1
  <2> HIDE DEF m
  <2>4. \A t \in 1..(m + 1) : t \in 1..m \/ t = m + 1
    BY <2>3
  <2>5. \A t \in DOMAIN threads' : threads'[t].fd = None \/ threads'[t].fd \in DOMAIN socks'
    BY <2>2, <2>3, <2>4, <1>3 DEF SInv, Histories
  <2> QED
    BY <2>5, <1>1 DEF SInv, Histories
<1>5. ASSUME NEW p, Sole(p), p \notin PortsOf(new) \/ Opening(p) PROVE p \notin PortsOf(new)'
  <2>1. \A d \in new \ {c} : port(d)' = port(d) /\ d \in DOMAIN cols
    BY <1>1, <1>2 DEF port
  <2>2. CASE p \notin PortsOf(new)
    BY <2>1, <2>2, <1>1 DEF PortsOf
  <2>3. CASE Opening(p)
    <3>1. port(c) = p
      BY <2>3, <1>2 DEF Opening
    <3>2. \A d \in new \ {c} : port(d) # p
      BY <2>1, <3>1, <1>2, <1>5 DEF Sole
    <3> QED
      BY <2>1, <3>2, <1>1 DEF PortsOf
  <2> QED
    BY <2>2, <2>3, <1>5
<1>6. pc' \in Late /\ DOMAIN cols' = DOMAIN cols /\ UNCHANGED <<reads, sent, taken>>
      /\ \A d \in DOMAIN cols : cols'[d].port = cols[d].port
  BY <1>1 DEF Late
<1> QED
  BY <1>3, <1>4, <1>5, <1>6, QuietS

LEMMA Concatenated ==
  ASSUME NEW a \in Seq(Nat), NEW b \in Seq(Nat)
  PROVE  /\ a \o b \in Seq(Nat) /\ Len(a \o b) = Len(a) + Len(b)
         /\ \A i \in 1..Len(a) : (a \o b)[i] = a[i]
         /\ \A i \in 1..Len(b) : (a \o b)[Len(a) + i] = b[i]
  OBVIOUS

LEMMA Appended ==
  ASSUME NEW a \in Seq(Nat), NEW k \in Nat
  PROVE  /\ Append(a, k) \in Seq(Nat) /\ Len(Append(a, k)) = Len(a) + 1
         /\ \A i \in 1..Len(a) : Append(a, k)[i] = a[i]
         /\ Append(a, k)[Len(a) + 1] = k
  OBVIOUS

LEMMA SameSequence ==
  ASSUME NEW a \in Seq(Nat), NEW b \in Seq(Nat), Len(a) = Len(b),
         \A i \in 1..Len(a) : a[i] = b[i]
  PROVE  a = b
  OBVIOUS

LEMMA AppendTo ==
  ASSUME NEW a \in Seq(Nat), NEW b \in Seq(Nat), NEW k \in Nat
  PROVE  a \o Append(b, k) = Append(a \o b, k)
<1>1. PICK c, l, g, r : c = Append(b, k) /\ l = a \o c /\ g = a \o b /\ r = Append(g, k)
  OBVIOUS
<1>2. PICK x \in Nat, y \in Nat : x = Len(a) /\ y = Len(b)
  OBVIOUS
<1>3. /\ c \in Seq(Nat) /\ Len(c) = y + 1 /\ c[y + 1] = k /\ \A i \in 1..y : c[i] = b[i]
  BY <1>1, <1>2, Appended
<1>4. /\ l \in Seq(Nat) /\ Len(l) = x + (y + 1)
      /\ \A i \in 1..x : l[i] = a[i]
      /\ \A i \in 1..(y + 1) : l[x + i] = c[i]
  BY <1>1, <1>2, <1>3, Concatenated
<1>5. /\ g \in Seq(Nat) /\ Len(g) = x + y
      /\ \A i \in 1..x : g[i] = a[i]
      /\ \A i \in 1..y : g[x + i] = b[i]
  BY <1>1, <1>2, Concatenated
<1>6. /\ r \in Seq(Nat) /\ Len(r) = (x + y) + 1 /\ r[(x + y) + 1] = k
      /\ \A i \in 1..(x + y) : r[i] = g[i]
  <2>1. /\ r \in Seq(Nat) /\ Len(r) = Len(g) + 1 /\ r[Len(g) + 1] = k
        /\ \A i \in 1..Len(g) : r[i] = g[i]
    BY <1>1, <1>5, Appended
  <2> QED
    BY <2>1, <1>5
<1>7. ASSUME NEW i \in 1..(x + y + 1) PROVE l[i] = r[i]
  <2>1. CASE i <= x
    BY <2>1, <1>4, <1>5, <1>6
  <2>2. CASE i > x /\ i <= x + y
    <3>1. PICK j \in 1..y : i = x + j
      <4>1. i - x \in 1..y /\ i = x + (i - x)
        BY <2>2
      <4> QED
        BY <4>1
    <3>2. j \in 1..(y + 1) /\ x + j \in 1..(x + y)
      OBVIOUS
    <3>3. l[x + j] = c[j] /\ c[j] = b[j] /\ g[x + j] = b[j]
      BY <3>2, <1>3, <1>4, <1>5
    <3> QED
      BY <3>1, <3>2, <3>3, <1>6
  <2>3. CASE i = x + (y + 1)
    <3>1. l[x + (y + 1)] = c[y + 1] /\ x + (y + 1) = (x + y) + 1
      BY <1>4
    <3> QED
      BY <2>3, <3>1, <1>3, <1>6
  <2> QED
    BY <2>1, <2>2, <2>3
<1>8. l = r
  <2>1. Len(l) = x + y + 1 /\ Len(r) = x + y + 1
    BY <1>4, <1>6
  <2> QED
    BY <2>1, <1>4, <1>6, <1>7, SameSequence
<1> QED
  BY <1>1, <1>8

LEMMA HeadOver ==
  ASSUME NEW a \in Seq(Nat), NEW b \in Seq(Nat), b # <<>>
  PROVE  Append(a, Head(b)) \o Tail(b) = a \o b /\ Head(b) \in Nat /\ Tail(b) \in Seq(Nat)
<1>1. PICK h, d, c, l, r : h = Head(b) /\ d = Tail(b) /\ c = Append(a, h) /\ l = c \o d
                           /\ r = a \o b
  OBVIOUS
<1>2. PICK x \in Nat, y \in Nat : x = Len(a) /\ Len(b) = y + 1
  <2>1. Len(a) \in Nat /\ Len(b) \in Nat /\ Len(b) # 0
    OBVIOUS
  <2>2. Len(b) - 1 \in Nat /\ Len(b) = (Len(b) - 1) + 1
    BY <2>1
  <2> QED
    BY <2>1, <2>2
<1>3. h = b[1] /\ h \in Nat /\ d \in Seq(Nat) /\ Len(d) = y /\ \A i \in 1..y : d[i] = b[i + 1]
  BY <1>1, <1>2
<1>4. /\ c \in Seq(Nat) /\ Len(c) = x + 1 /\ c[x + 1] = h /\ \A i \in 1..x : c[i] = a[i]
  BY <1>1, <1>2, <1>3, Appended
<1>5. /\ l \in Seq(Nat) /\ Len(l) = (x + 1) + y
      /\ \A i \in 1..(x + 1) : l[i] = c[i]
      /\ \A i \in 1..y : l[(x + 1) + i] = d[i]
  <2>1. /\ l \in Seq(Nat) /\ Len(l) = Len(c) + Len(d)
        /\ \A i \in 1..Len(c) : l[i] = c[i]
        /\ \A i \in 1..Len(d) : l[Len(c) + i] = d[i]
    <3>1. l = c \o d /\ c \in Seq(Nat) /\ d \in Seq(Nat)
      BY <1>1, <1>3, <1>4
    <3> QED
      BY ONLY <3>1, Concatenated
  <2> QED
    BY <2>1, <1>3, <1>4
<1>6. /\ r \in Seq(Nat) /\ Len(r) = x + (y + 1)
      /\ \A i \in 1..x : r[i] = a[i]
      /\ \A i \in 1..(y + 1) : r[x + i] = b[i]
  <2>1. /\ r \in Seq(Nat) /\ Len(r) = Len(a) + Len(b)
        /\ \A i \in 1..Len(a) : r[i] = a[i]
        /\ \A i \in 1..Len(b) : r[Len(a) + i] = b[i]
    BY <1>1, Concatenated
  <2> QED
    BY <2>1, <1>2
<1>7. ASSUME NEW i \in 1..(x + y + 1) PROVE l[i] = r[i]
  <2>1. CASE i <= x
    BY <2>1, <1>4, <1>5, <1>6
  <2>2. CASE i = x + 1
    BY <2>2, <1>3, <1>4, <1>5, <1>6
  <2>3. CASE i > x + 1
    <3>1. PICK j \in 1..y : i = (x + 1) + j
      <4>1. i - (x + 1) \in 1..y /\ i = (x + 1) + (i - (x + 1))
        BY <2>3
      <4> QED
        BY <4>1
    <3>2. l[(x + 1) + j] = d[j] /\ d[j] = b[j + 1]
      BY <1>3, <1>5
    <3>3. r[x + (j + 1)] = b[j + 1] /\ x + (j + 1) = (x + 1) + j
      BY <1>6
    <3> QED
      BY <3>1, <3>2, <3>3
  <2> QED
    BY <2>1, <2>2, <2>3
<1>8. l = r
  <2>1. Len(l) = x + y + 1 /\ Len(r) = x + y + 1
    BY <1>5, <1>6
  <2> QED
    BY <2>1, <1>5, <1>6, <1>7, SameSequence
<1> QED
  BY <1>1, <1>3, <1>8

\* A packet for p comes after all others of p.
LEMMA PlacesGrow ==
  ASSUME NEW q \in Seq(Nat), NEW p, NEW u \in Seq(Ports), p \in Ports, PlacesOf(q, p, u)
  PROVE  PlacesOf(Append(q, Len(u) + 1), p, Append(u, p))
<1> DEFINE k == Len(u)
           w == Append(u, p)
           m == Len(q)
           r == Append(q, k + 1)
<1>1. /\ k \in Nat /\ DOMAIN u = 1..k /\ DOMAIN w = 1..(k + 1) /\ w[k + 1] = p
      /\ \A i \in 1..k : w[i] = u[i]
  OBVIOUS
<1>2. /\ m \in Nat /\ DOMAIN q = 1..m /\ DOMAIN r = 1..(m + 1) /\ r[m + 1] = k + 1
      /\ \A i \in 1..m : r[i] = q[i] /\ q[i] \in Nat
  OBVIOUS
<1> HIDE DEF k, w, m, r
<1>3. \A x \in Nat : /\ \A j \in 1..(x + 1) : j \in 1..x \/ j = x + 1
                     /\ \A j \in 1..x : j \in 1..(x + 1) /\ j # x + 1
                     /\ x + 1 \in 1..(x + 1)
  OBVIOUS
<1>4. Range(q) = {n \in 1..k : u[n] = p} /\ \A i \in 1..m : q[i] \in 1..k
  BY <1>1, <1>2 DEF PlacesOf, Range
<1>5. Range(r) = Range(q) \cup {k + 1}
  <2>1. Range(r) \subseteq Range(q) \cup {k + 1}
    BY <1>2, <1>3 DEF Range
  <2>2. Range(q) \cup {k + 1} \subseteq Range(r)
    BY <1>2, <1>3 DEF Range
  <2> QED
    BY <2>1, <2>2
<1>6. {n \in DOMAIN w : w[n] = p} = {n \in 1..k : u[n] = p} \cup {k + 1}
  BY <1>1, <1>3
<1>7. ASSUME NEW i \in DOMAIN r, NEW j \in DOMAIN r, i < j PROVE r[i] < r[j]
  <2>1. i \in 1..m
    BY <1>2, <1>7
  <2>2. CASE j \in 1..m
    BY <2>1, <2>2, <1>2, <1>7 DEF PlacesOf
  <2>3. CASE j = m + 1
    <3>1. r[i] \in 1..k /\ r[j] = k + 1
      BY <2>1, <2>3, <1>2, <1>4
    <3> QED
      BY <3>1, <1>1
  <2> QED
    BY <2>2, <2>3, <1>2, <1>3
<1> QED
  BY <1>4, <1>5, <1>6, <1>7 DEF PlacesOf, r, w, k

\* Packets of other ports do not matter.
LEMMA PlacesKept ==
  ASSUME NEW q, NEW p, NEW x \in Ports, x # p, NEW u \in Seq(Ports), PlacesOf(q, p, u)
  PROVE  PlacesOf(q, p, Append(u, x))
<1> DEFINE k == Len(u)
           w == Append(u, x)
<1>1. /\ k \in Nat /\ DOMAIN u = 1..k /\ DOMAIN w = 1..(k + 1) /\ w[k + 1] = x
      /\ \A i \in 1..k : w[i] = u[i]
  OBVIOUS
<1> HIDE DEF k, w
<1>2. /\ \A j \in 1..(k + 1) : j \in 1..k \/ j = k + 1
      /\ \A j \in 1..k : j \in 1..(k + 1)
  BY <1>1
<1>3. {n \in DOMAIN w : w[n] = p} = {n \in DOMAIN u : u[n] = p}
  BY <1>1, <1>2
<1> QED
  BY <1>3 DEF PlacesOf, w

\* One buffer changes.
LEMMA BufferS ==
  ASSUME Shape, NEW s \in DOMAIN socks, NEW b, socks' = [socks EXCEPT ![s].buf = b]
  PROVE  /\ DOMAIN socks' = DOMAIN socks /\ socks'[s].buf = b
         /\ \A r \in DOMAIN socks : socks'[r].port = socks[r].port
         /\ \A r \in DOMAIN socks : r # s => socks'[r] = socks[r]
         /\ \A q : SocketsOf(q)' = SocketsOf(q)
<1> DEFINE v == [socks[s] EXCEPT !.buf = b]
<1>1. v = [port |-> socks[s].port, bound |-> socks[s].bound, open |-> socks[s].open, buf |-> b]
  BY ShapeFacts, BufSet
<1>2. socks' = [socks EXCEPT ![s] = v]
  OBVIOUS
<1> HIDE DEF v
<1>3. v.port = socks[s].port /\ v.buf = b
  BY <1>1
<1>4. /\ DOMAIN socks' = DOMAIN socks /\ socks'[s] = v
      /\ \A r \in DOMAIN socks : r # s => socks'[r] = socks[r]
  BY <1>2
<1>5. \A r \in DOMAIN socks : socks'[r].port = socks[r].port
  BY <1>3, <1>4
<1>6. \A q : SocketsOf(q)' = SocketsOf(q)
  BY <1>4, <1>5 DEF SocketsOf
<1> QED
  BY <1>3, <1>4, <1>5, <1>6

\* A packet comes or is taken: what the other ports have stays, and x goes on.
LEMMA PacketS ==
  ASSUME SInv, LInv', Histories', UNCHANGED <<pc, new, cols, reads>>,
         \A q : SocketsOf(q)' = SocketsOf(q), NEW x, SocketsOf(x) # {},
         \A q \in Ports : q # x => (Untouched(q) => Untouched(q)') /\ (Flowing(q) => Flowing(q)'),
         x \in Now /\ Flowing(x) => Flowing(x)'
  PROVE  SInv'
<1>1. Now' = Now /\ Known' = Known /\ \A q : Once(q)' <=> Once(q)
  BY DEF Now, Configured, Known, Once
<1>2. Now \subseteq Ports
  <2>1. reads \in Seq(Seq(Ports))
    BY DEF SInv, LInv, Shape
  <2>2. CASE reads = <<>>
    BY <2>2 DEF Now, Configured
  <2>3. CASE reads # <<>>
    <3>1. Len(reads) # 0 /\ reads[Len(reads)] \in Seq(Ports)
      BY <2>1, <2>3
    <3>2. Range(reads[Len(reads)]) \subseteq Ports
      BY <3>1, Elements DEF Range
    <3> QED
      BY <3>1, <3>2 DEF Now, Configured
  <2> QED
    BY <2>2, <2>3
<1>3. Fresh'
  <2>1. \A q \in Ports \ Known : q # x
    BY DEF SInv, Fresh, Untouched
  <2> QED
    BY <2>1, <1>1 DEF SInv, Fresh, port
<1>4. \A q : Sole(q) => Sole(q)'
  <2>1. PortsOf(new)' = PortsOf(new) /\ \A q : Opening(q)' <=> Opening(q)
    BY DEF PortsOf, port, Opening, First
  <2> QED
    BY <2>1 DEF Sole, port
<1>5. Streams'
  <2>1. ASSUME NEW q \in Now, Once(q) PROVE Sole(q)' /\ (Untouched(q)' \/ Flowing(q)')
    <3>1. Sole(q) /\ (Untouched(q) \/ Flowing(q)) /\ q \in Ports
      BY <2>1, <1>2 DEF SInv, Streams
    <3>2. CASE q = x
      BY <3>1, <3>2, <1>4 DEF Untouched
    <3>3. CASE q # x
      BY <3>1, <3>3, <1>4
    <3> QED
      BY <3>2, <3>3
  <2> QED
    BY <2>1, <1>1 DEF Streams
<1> QED
  BY <1>3, <1>5 DEF SInv

LEMMA ArriveS == ASSUME SInv, LInv', NEW x \in Ports, Arrive(x) PROVE SInv'
<1>1. /\ UNCHANGED <<pc, new, cols, threads, reads, taken>> /\ sent' = Append(sent, x)
      /\ \E s \in receiver(x) : socks' = [socks EXCEPT ![s].buf = Append(@, Len(sent) + 1)]
  BY DEF Arrive
<1>2. PICK s \in DOMAIN socks : /\ socks[s].port = x
                                /\ socks' = [socks EXCEPT ![s].buf = Append(@, Len(sent) + 1)]
  BY <1>1 DEF receiver, hears
<1> DEFINE k == Len(sent) + 1
           b == Append(socks[s].buf, k)
<1>3. /\ Shape /\ sent \in Seq(Ports) /\ k \in Nat /\ socks[s].buf \in Seq(Nat)
      /\ taken \in [Ports -> Seq(Nat)]
  <2>1. Shape /\ sent \in Seq(Ports) /\ taken \in [Ports -> Seq(Nat)]
    BY DEF SInv, LInv, Shape, Histories
  <2> QED
    BY <2>1, ShapeFacts
<1>4. /\ DOMAIN socks' = DOMAIN socks /\ socks'[s].buf = b
      /\ \A r \in DOMAIN socks : r # s => socks'[r] = socks[r]
      /\ \A q : SocketsOf(q)' = SocketsOf(q)
  <2>1. socks' = [socks EXCEPT ![s].buf = b]
    BY <1>2
  <2> HIDE DEF b
  <2> QED
    BY <2>1, <1>3, BufferS
<1> HIDE DEF b
<1>5. Histories'
  BY <1>1, <1>4 DEF SInv, Histories
<1>6. s \in SocketsOf(x)
  BY <1>2 DEF SocketsOf
<1>7. ASSUME NEW q \in Ports, q # x
      PROVE  (Untouched(q) => Untouched(q)') /\ (Flowing(q) => Flowing(q)')
  <2>1. \A z : PlacesOf(z, q, sent) => PlacesOf(z, q, sent')
    BY <1>1, <1>3, <1>7, PlacesKept
  <2>2. \A r \in SocketsOf(q) : socks'[r] = socks[r]
    BY <1>2, <1>4, <1>7 DEF SocketsOf
  <2>3. Untouched(q) => Untouched(q)'
    BY <2>1, <1>1, <1>4 DEF Untouched
  <2>4. Flowing(q) => Flowing(q)'
    BY <2>1, <2>2, <1>1, <1>4 DEF Flowing
  <2> QED
    BY <2>3, <2>4
<1>8. ASSUME Flowing(x) PROVE Flowing(x)'
  <2>1. SocketsOf(x) = {s} /\ PlacesOf(taken[x] \o socks[s].buf, x, sent)
    BY <1>6, <1>8 DEF Flowing
  <2>2. taken[x] \in Seq(Nat) /\ taken[x] \o socks[s].buf \in Seq(Nat)
    BY <1>3
  <2>3. PlacesOf(Append(taken[x] \o socks[s].buf, k), x, sent')
    BY <2>1, <2>2, <1>1, <1>3, PlacesGrow
  <2>4. taken[x] \o b = Append(taken[x] \o socks[s].buf, k)
    <3> HIDE DEF k
    <3> QED
      BY <2>2, <1>3, AppendTo DEF b
  <2>5. taken'[x] \o socks'[s].buf = Append(taken[x] \o socks[s].buf, k)
    BY <2>4, <1>1, <1>4
  <2> HIDE DEF k
  <2> QED
    BY <2>1, <2>3, <2>5, <1>4 DEF Flowing
<1>9. UNCHANGED <<pc, new, cols, reads>> /\ SocketsOf(x) # {}
  BY <1>1, <1>6
<1> QED
  BY <1>4, <1>5, <1>7, <1>8, <1>9, PacketS

LEMMA TakeS == ASSUME SInv, LInv', NEW t \in DOMAIN threads, Take(t) PROVE SInv'
<1>1. PICK s, x : s = threads[t].fd /\ x = socks[s].port
  OBVIOUS
<1> DEFINE b == Tail(socks[s].buf)
           h == Head(socks[s].buf)
<1>2. /\ UNCHANGED <<pc, new, cols, reads, sent>> /\ s # None /\ socks[s].buf # <<>>
      /\ socks' = [socks EXCEPT ![s].buf = b]
      /\ taken' = [taken EXCEPT ![x] = Append(@, h)]
      /\ threads' = [threads EXCEPT ![t].fd = None]
  BY <1>1 DEF Take
<1>3. Shape /\ s \in DOMAIN socks /\ taken \in [Ports -> Seq(Nat)]
  BY <1>1, <1>2 DEF SInv, LInv, Histories
<1>4. x \in Ports /\ socks[s].buf \in Seq(Nat)
  BY <1>1, <1>3, ShapeFacts
<1>5. b \in Seq(Nat) /\ h \in Nat /\ Append(taken[x], h) \o b = taken[x] \o socks[s].buf
  BY <1>2, <1>3, <1>4, HeadOver
<1>6. /\ DOMAIN threads' = DOMAIN threads /\ threads'[t].fd = None
      /\ \A r \in DOMAIN threads : r # t => threads'[r] = threads[r]
  BY <1>2, <1>3, ThreadsKept DEF None
<1> HIDE DEF b, h
<1>7. /\ DOMAIN socks' = DOMAIN socks /\ socks'[s].buf = b
      /\ \A r \in DOMAIN socks : r # s => socks'[r] = socks[r]
      /\ \A q : SocketsOf(q)' = SocketsOf(q)
  BY <1>2, <1>3, BufferS
<1>8. s \in SocketsOf(x)
  BY <1>1, <1>3 DEF SocketsOf
<1>9. /\ taken' \in [Ports -> Seq(Nat)] /\ taken'[x] = Append(taken[x], h)
      /\ \A q \in Ports : q # x => taken'[q] = taken[q]
  <2>1. Append(taken[x], h) \in Seq(Nat)
    BY <1>3, <1>4, <1>5
  <2> QED
    BY <2>1, <1>2, <1>3, <1>4
<1>20. Histories'
  BY <1>6, <1>7, <1>9 DEF SInv, Histories
<1>21. ASSUME NEW q \in Ports, q # x
       PROVE  (Untouched(q) => Untouched(q)') /\ (Flowing(q) => Flowing(q)')
  <2>1. \A r \in SocketsOf(q) : socks'[r] = socks[r]
    BY <1>1, <1>7, <1>21 DEF SocketsOf
  <2>2. taken'[q] = taken[q] /\ sent' = sent
    BY <1>2, <1>9, <1>21
  <2>3. Untouched(q) => Untouched(q)'
    BY <2>2, <1>7 DEF Untouched
  <2>4. Flowing(q) => Flowing(q)'
    BY <2>1, <2>2, <1>7 DEF Flowing
  <2> QED
    BY <2>3, <2>4
<1>22. ASSUME Flowing(x) PROVE Flowing(x)'
  <2>1. SocketsOf(x) = {s} /\ PlacesOf(taken[x] \o socks[s].buf, x, sent)
    BY <1>8, <1>22 DEF Flowing
  <2>2. taken'[x] \o socks'[s].buf = taken[x] \o socks[s].buf
    BY <1>5, <1>7, <1>9
  <2>3. \E r \in SocketsOf(x) : SocketsOf(x) = {r} /\ PlacesOf(taken'[x] \o socks'[r].buf, x, sent')
    BY <2>1, <2>2, <1>2
  <2> QED
    BY <2>3, <1>7 DEF Flowing
<1> QED
  BY <1>2, <1>7, <1>8, <1>20, <1>21, <1>22, PacketS

LEMMA InitS == Init => SInv
<1> SUFFICES ASSUME Init PROVE SInv
  OBVIOUS
<1>1. DOMAIN <<>> = {} /\ Range(<<>>) = {} /\ \A S : <<>> \in Seq(S)
  BY DEF Range
<1>2. LInv
  BY InitL
<1>3. Histories
  BY <1>1 DEF Init, Histories
<1>4. \A p \in Ports : Untouched(p)
  BY <1>1 DEF Init, Untouched, SocketsOf, PlacesOf
<1>5. Fresh
  BY <1>1, <1>4 DEF Init, Fresh
<1>6. Now = {}
  BY DEF Init, Now, Configured
<1> QED
  BY <1>2, <1>3, <1>5, <1>6 DEF SInv, Streams

LEMMA NextS == SInv /\ [Next]_vars => SInv'
<1> SUFFICES ASSUME SInv, [Next]_vars PROVE SInv'
  OBVIOUS
<1>1. LInv'
  BY NextL DEF SInv
<1>2. CASE MergeStep \/ UNCHANGED vars
  BY <1>1, <1>2, MergeS
<1>3. CASE ReadOption
  BY <1>1, <1>3, ReadOptionS
<1>4. ASSUME NEW p \in Ports, ParsePort(p) \/ Arrive(p) PROVE SInv'
  BY <1>1, <1>4, ParsePortS, ArriveS
<1>5. ASSUME NEW c \in new, WakeSocket(c) \/ WakeBind(c) PROVE SInv'
  BY <1>1, <1>5, WakeSocketS, WakeBindS
<1>6. ASSUME NEW t \in DOMAIN threads, Receive(t) \/ Take(t) PROVE SInv'
  BY <1>1, <1>6, ReceiveS, TakeS
<1> QED
  BY <1>2, <1>3, <1>4, <1>5, <1>6 DEF Next, MergeStep

\* As long as --collector-port named a port only once, whatever else was read
\* before and however threads and packets interleave with the merge, the port has
\* one socket at most, and what its thread took followed by what waits there is
\* all that came, in order: for any ports and any number of reloads and packets.
THEOREM ListenersStreamIntact == Spec => []StreamIntact
<1>1. ASSUME SInv, NEW p \in Now, Once(p)
      PROVE  \/ SocketsOf(p) = {} /\ InOrder(taken[p], p)
             \/ \E s \in SocketsOf(p) :
                  SocketsOf(p) = {s} /\ InOrder(taken[p] \o socks[s].buf, p)
  <2>1. \A q : InOrder(q, p) <=> PlacesOf(q, p, sent)
    BY DEF InOrder, PlacesOf
  <2> QED
    BY <1>1, <2>1 DEF SInv, Streams, Untouched, Flowing
<1>2. SInv => StreamIntact
  BY <1>1 DEF StreamIntact, SocketsOf
<1> QED
  BY <1>2, InitS, NextS, PTL DEF Spec
=============================================================================
