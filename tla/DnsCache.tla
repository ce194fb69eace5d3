------------------------------ MODULE DnsCache ------------------------------
(***************************************************************************)
(* The cache of reverse DNS answers (rb_dns_cache.c): reference-counted    *)
(* entries in an AVL tree keyed by address and in an LRU list, under one   *)
(* mutex, with a limit on memory.  The workers look names up; the DNS      *)
(* threads save the answers; both keep the element they were given until   *)
(* dns_cache_decref_elm, which may be long after the entry left the cache. *)
(*                                                                         *)
(* An entry stands for a block of memory.  Bytes[S] is the memory that a   *)
(* set S of blocks takes, so the accounting of rd_memctx (stats.bytes_out) *)
(* is Bytes[live].  Every operation holds the mutex from start to end, so  *)
(* an operation is one step, except dns_cache_save_elm, whose eviction     *)
(* loop is taken turn by turn with job set (the mutex is held by it).      *)
(***************************************************************************)
EXTENDS Naturals, Sequences

CONSTANTS Entries,     \* blocks of memory an entry may occupy
          Addrs,       \* IP addresses
          Bytes,       \* Bytes[S]: memory taken by the blocks in S
          max_mem_b,   \* limit of the cache
          timeout_s,   \* age at which an entry is not valid any more
          MaxTime,     \* bound: the clock
          MaxHandles   \* bound: references handed out on one entry

\* Memory adds up over disjoint sets of blocks.
ASSUME BytesAssumption ==
  /\ Bytes \in [SUBSET Entries -> Nat]
  /\ \A S, T \in SUBSET Entries :
       S \cap T = {} => Bytes[S \cup T] = Bytes[S] + Bytes[T]

ASSUME CacheAssumption ==
  /\ Addrs # {}
  /\ max_mem_b \in Nat /\ timeout_s \in Nat
  /\ MaxTime \in Nat /\ MaxHandles \in Nat

VARIABLES live,     \* blocks allocated from the memory context
          addr,     \* entry->elm.addr
          checked,  \* entry->last_checked
          refcnt,   \* entry->refcnt
          avl,      \* entries in the AVL tree (the database)
          lru,      \* entries in the LRU list, most recently used first
          handles,  \* handles[e]: references callers hold on entry e
          job,      \* dns_cache_save_elm in its loop, or NoJob
          ret,      \* what the last dns_cache_save_elm returned
          now       \* the clock

vars == <<live, addr, checked, refcnt, avl, lru, handles, job, ret, now>>

NoJob == [busy |-> FALSE]

\* The locals of dns_cache_save_elm: the address, the block it will allocate,
\* the memory in use when it started, the memory evicted since; and, for the
\* properties, the entries alive but outside the cache when it started.
Jobs == [busy : {TRUE}, addr : Addrs, new : Entries, bytes_out : Nat,
         freed_size : Nat, pinned : SUBSET Entries]

\* What dns_cache_save_elm can return: the elm of an entry, NULL, or the address
\* of the elm of an entry at NULL, which is not NULL (elm is not the first
\* member of struct dns_cache_entry).
Pointers == {"elm", "NULL", "elm of NULL"}

InSeq(s) == {s[i] : i \in DOMAIN s}

\* TAILQ_REMOVE of the i-th element.
lru_remove(i) ==
  [j \in 1..(Len(lru) - 1) |-> IF j < i THEN lru[j] ELSE lru[j + 1]]

position(e) == CHOOSE i \in DOMAIN lru : lru[i] = e

\* Slip, for the mutation runs: 0 == entry->refcnt-- frees one reference late.
decref_late(e) ==
  /\ refcnt' = [refcnt EXCEPT ![e] = @ - 1]
  /\ live' = IF refcnt[e] = 0 THEN live \ {e} ELSE live

\* dns_cache_decref_elm0 on entry e: drop a reference, free it with the last.
decref(e) ==
  /\ refcnt' = [refcnt EXCEPT ![e] = @ - 1]
  /\ live' = IF refcnt[e] = 1 THEN live \ {e} ELSE live

Init ==
  /\ live = {} /\ avl = {} /\ lru = <<>> /\ job = NoJob /\ now = 0 /\ ret = "NULL"
  /\ addr = [e \in Entries |-> CHOOSE a \in Addrs : TRUE]
  /\ checked = [e \in Entries |-> 0]
  /\ refcnt = [e \in Entries |-> 0]
  /\ handles = [e \in Entries |-> 0]

-----------------------------------------------------------------------------
\* Slip, for the mutation runs: the element is returned without a reference.
GetHitUncounted(e) ==
  /\ job = NoJob /\ e \in avl /\ handles[e] < MaxHandles
  /\ now - checked[e] <= timeout_s
  /\ lru' = <<e>> \o lru_remove(position(e))
  /\ handles' = [handles EXCEPT ![e] = @ + 1]
  /\ UNCHANGED <<live, addr, checked, refcnt, avl, job, ret, now>>

\* dns_cache_get_elm finds a valid entry: it moves to the front of the LRU
\* list and the caller gets a reference.
GetHit(e) ==
  /\ job = NoJob /\ e \in avl /\ handles[e] < MaxHandles
  /\ now - checked[e] <= timeout_s
  /\ lru' = <<e>> \o lru_remove(position(e))
  /\ refcnt' = [refcnt EXCEPT ![e] = @ + 1]
  /\ handles' = [handles EXCEPT ![e] = @ + 1]
  /\ UNCHANGED <<live, addr, checked, avl, job, ret, now>>

\* Slip, for the mutation runs: the expired entry stays in the tree.
GetExpiredKeepsTree(e) ==
  /\ job = NoJob /\ e \in avl
  /\ now - checked[e] > timeout_s
  /\ lru' = lru_remove(position(e))
  /\ decref(e)
  /\ UNCHANGED <<addr, checked, avl, handles, job, ret, now>>

\* dns_cache_get_elm finds an entry that is too old: it leaves tree and list,
\* and the reference of the database is dropped.  The caller gets NULL.
GetExpired(e) ==
  /\ job = NoJob /\ e \in avl
  /\ now - checked[e] > timeout_s
  /\ lru' = lru_remove(position(e))
  /\ avl' = avl \ {e}
  /\ decref(e)
  /\ UNCHANGED <<addr, checked, handles, job, ret, now>>

\* Slip, for the mutation runs: the reference is dropped twice.
ReleaseTwice(e) ==
  /\ job = NoJob /\ handles[e] > 0
  /\ handles' = [handles EXCEPT ![e] = @ - 1]
  /\ refcnt' = [refcnt EXCEPT ![e] = @ - 2]
  /\ live' = live \ {e}
  /\ UNCHANGED <<addr, checked, avl, lru, job, ret, now>>

\* dns_cache_decref_elm by a caller that holds a reference.
Release(e) ==
  /\ job = NoJob /\ handles[e] > 0
  /\ handles' = [handles EXCEPT ![e] = @ - 1]
  /\ decref(e)
  /\ UNCHANGED <<addr, checked, avl, lru, job, ret, now>>

\* dns_cache_save_elm takes the mutex and reads the memory in use.  The size
\* of block e is the size that the name needs.
SaveBegin(a, e) ==
  /\ job = NoJob /\ e \notin live
  /\ job' = [busy |-> TRUE, addr |-> a, new |-> e, bytes_out |-> Bytes[live],
             freed_size |-> 0, pinned |-> live \ avl]
  /\ UNCHANGED <<live, addr, checked, refcnt, avl, lru, handles, ret, now>>

\* Slip, for the mutation runs: the new entry is left out of the count.
TooMuchAlready == job.bytes_out > max_mem_b + job.freed_size

\* The condition of its while loop.
TooMuch ==
  job.bytes_out + Bytes[{job.new}] > max_mem_b + job.freed_size

\* Slip, for the mutation runs: freed_size is not kept.
SaveEvictUncounted ==
  /\ job # NoJob /\ TooMuch /\ lru # <<>>
  /\ lru' = lru_remove(Len(lru))
  /\ avl' = avl \ {lru[Len(lru)]}
  /\ decref(lru[Len(lru)])
  /\ UNCHANGED <<addr, checked, handles, job, ret, now>>

\* One turn of the loop: the least recently used entry leaves the cache.
SaveEvict ==
  /\ job # NoJob /\ TooMuch /\ lru # <<>>
  /\ LET old_entry == lru[Len(lru)]
     IN /\ lru' = lru_remove(Len(lru))
        /\ avl' = avl \ {old_entry}
        /\ job' = [job EXCEPT !.freed_size = @ + Bytes[{old_entry}]]
        /\ decref(old_entry)
  /\ UNCHANGED <<addr, checked, handles, ret, now>>

\* Nothing left to evict: "Can't allocate DNs cache element because cache
\* limit", and NULL for the caller.
SaveRefused ==
  /\ job # NoJob /\ TooMuch /\ lru = <<>>
  /\ job' = NoJob /\ ret' = "NULL"
  /\ UNCHANGED <<live, addr, checked, refcnt, avl, lru, handles, now>>

\* The entry is allocated with two references (database and caller), goes to
\* the front of the list and into the tree, where it replaces an entry of the
\* same address, which leaves the list and loses the database's reference.
SaveInsert ==
  /\ job # NoJob /\ ~TooMuch
  /\ LET e == job.new
         old == {o \in avl : addr[o] = job.addr}
     IN /\ addr' = [addr EXCEPT ![e] = job.addr]
        /\ checked' = [checked EXCEPT ![e] = now]
        /\ handles' = [handles EXCEPT ![e] = 1]
        /\ avl' = (avl \ old) \cup {e}
        /\ \/ /\ old = {}
              /\ lru' = <<e>> \o lru
              /\ refcnt' = [refcnt EXCEPT ![e] = 2]
              /\ live' = live \cup {e}
           \/ \E oldentry \in old :
                /\ lru' = <<e>> \o lru_remove(position(oldentry))
                /\ refcnt' = [refcnt EXCEPT ![e] = 2, ![oldentry] = @ - 1]
                /\ live' = IF refcnt[oldentry] = 1
                           THEN (live \ {oldentry}) \cup {e}
                           ELSE live \cup {e}
  /\ job' = NoJob /\ ret' = "elm"
  /\ UNCHANGED now

\* There is room, but rd_memctx_calloc fails: what was evicted for the new entry
\* stays evicted, and &entry->elm is returned all the same.
SaveUnallocated ==
  /\ job # NoJob /\ ~TooMuch
  /\ job' = NoJob /\ ret' = "elm of NULL"
  /\ UNCHANGED <<live, addr, checked, refcnt, avl, lru, handles, now>>

\* Time passes.
Tick ==
  /\ now < MaxTime
  /\ now' = now + 1
  /\ UNCHANGED <<live, addr, checked, refcnt, avl, lru, handles, job, ret>>

Next ==
  \/ \E e \in Entries : GetHit(e) \/ GetExpired(e) \/ Release(e)
  \/ \E a \in Addrs, e \in Entries : SaveBegin(a, e)
  \/ SaveEvict \/ SaveRefused \/ SaveInsert \/ SaveUnallocated
  \/ Tick

Spec == Init /\ [][Next]_vars

-----------------------------------------------------------------------------
(* Properties.                                                             *)

\* Every variable has its type.
TypeOK ==
  /\ live \in SUBSET Entries
  /\ addr \in [Entries -> Addrs]
  /\ checked \in [Entries -> Nat]
  /\ refcnt \in [Entries -> Nat]
  /\ avl \in SUBSET Entries
  /\ lru \in Seq(Entries)
  /\ handles \in [Entries -> Nat]
  /\ job \in Jobs \cup {NoJob}
  /\ ret \in Pointers
  /\ now \in Nat

\* refcnt counts exactly the references there are: the callers' and, for an
\* entry of the database, the database's own.  ("It's possible to use node
\* after delete it from database.")
RefcntExact ==
  \A e \in Entries :
    refcnt[e] = handles[e] + (IF e \in avl THEN 1 ELSE 0)

\* An entry is allocated exactly as long as somebody refers to it: nothing in
\* the database or in a caller's hands is ever freed, and nothing leaks.
LiveExactly == \A e \in Entries : e \in live <=> refcnt[e] > 0

\* Tree and list hold the same entries, each once, and no address has two.
TreeIsList ==
  /\ avl = InSeq(lru)
  /\ \A i, j \in DOMAIN lru : lru[i] = lru[j] => i = j
  /\ \A d, e \in avl : addr[d] = addr[e] => d = e

\* The entries of the cache never take more than the configured memory,
\* although the loop that makes room works on a count taken before it began.
DatabaseFits == Bytes[avl] <= max_mem_b

\* The answer "cache limit" (NULL) is given only when the entries that callers
\* still hold from outside the cache leave no room: a full cache alone never
\* refuses a name, since its own entries make way.  The other way to save
\* nothing, a failed allocation, does not return NULL, so that the caller, which
\* keeps the name itself if and only if it gets NULL, takes no notice of it.
RefusedOnlyWhenPinned ==
  [][job.busy /\ ~job'.busy /\ ret' = "NULL"
       => Bytes[job.pinned] + Bytes[{job.new}] > max_mem_b]_vars
=============================================================================
