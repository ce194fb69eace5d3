--------------------------- MODULE DnsCacheProofs ---------------------------
(***************************************************************************)
(* The cache of DNS answers is right for any number of entries, addresses, *)
(* sizes, limits and timeouts.                                             *)
(***************************************************************************)
EXTENDS DnsCache, TLAPS

\* While a save is in its loop, the block it will use is still free, and the
\* count it took at the start splits into what was pinned outside the cache,
\* what is in the cache now, and what it has evicted.
JobInv ==
  job # NoJob =>
    /\ job.new \notin live
    /\ job.bytes_out = Bytes[job.pinned] + Bytes[avl] + job.freed_size

\* The inductive invariant.
IInv == TypeOK /\ RefcntExact /\ LiveExactly /\ TreeIsList /\ JobInv
          /\ DatabaseFits

-----------------------------------------------------------------------------
(* Memory.                                                                 *)

\* Taking blocks away from a set takes exactly their memory away.
LEMMA BytesDiff ==
  ASSUME NEW S \in SUBSET Entries, NEW T \in SUBSET S
  PROVE  /\ Bytes[S] \in Nat /\ Bytes[T] \in Nat /\ Bytes[S \ T] \in Nat
         /\ Bytes[S] = Bytes[S \ T] + Bytes[T]
<1>1. S \ T \in SUBSET Entries /\ T \in SUBSET Entries
  OBVIOUS
<1>2. (S \ T) \cap T = {} /\ (S \ T) \cup T = S
  OBVIOUS
<1>3. Bytes[(S \ T) \cup T] = Bytes[S \ T] + Bytes[T]
  BY <1>1, <1>2, BytesAssumption
<1>4. Bytes[S] \in Nat /\ Bytes[T] \in Nat /\ Bytes[S \ T] \in Nat
  BY <1>1, BytesAssumption
<1> QED
  BY <1>2, <1>3, <1>4

\* An empty set of blocks takes no memory.
LEMMA BytesEmpty == Bytes[{}] = 0
<1>1. Bytes[{} \cup {}] = Bytes[{}] + Bytes[{}]
  BY BytesAssumption
<1>2. Bytes[{}] \in Nat
  BY BytesAssumption
<1>3. {} \cup {} = {}
  OBVIOUS
<1>4. \A n \in Nat : n = n + n => n = 0
  OBVIOUS
<1>5. Bytes[{}] = Bytes[{}] + Bytes[{}]
  BY <1>1, <1>3, Zenon
<1> QED
  BY <1>2, <1>4, <1>5, Zenon

-----------------------------------------------------------------------------
(* The LRU list.                                                           *)

Injective(s) == \A i, j \in DOMAIN s : s[i] = s[j] => i = j

\* Unlinking the i-th element of a list without repetition removes exactly
\* that element.
LEMMA RemoveOne ==
  ASSUME lru \in Seq(Entries), Injective(lru), NEW i \in DOMAIN lru
  PROVE  /\ lru_remove(i) \in Seq(Entries)
         /\ InSeq(lru_remove(i)) = InSeq(lru) \ {lru[i]}
         /\ Injective(lru_remove(i))
<1> DEFINE r == lru_remove(i)
           n == Len(lru)
<1>1. n \in Nat /\ DOMAIN lru = 1..n /\ i \in 1..n /\ n - 1 \in Nat
  OBVIOUS
<1>2. DOMAIN r = 1..(n - 1)
      /\ \A j \in 1..(n - 1) : r[j] = IF j < i THEN lru[j] ELSE lru[j + 1]
  BY DEF lru_remove
<1>3. \A j \in 1..(n - 1) : r[j] \in Entries
  BY <1>1, <1>2
<1>4. r \in Seq(Entries)
  BY <1>1, <1>3 DEF lru_remove
<1>5. InSeq(r) \subseteq InSeq(lru) \ {lru[i]}
  <2> SUFFICES ASSUME NEW j \in 1..(n - 1)
               PROVE  r[j] \in InSeq(lru) \ {lru[i]}
    BY <1>2 DEF InSeq
  <2> QED
    BY <1>1, <1>2 DEF InSeq, Injective
<1>6. InSeq(lru) \ {lru[i]} \subseteq InSeq(r)
  <2> SUFFICES ASSUME NEW k \in 1..n, k # i
               PROVE  lru[k] \in InSeq(r)
    BY <1>1 DEF InSeq
  <2>1. CASE k < i
    BY <2>1, <1>1, <1>2 DEF InSeq
  <2>2. CASE k > i
    <3>1. k - 1 \in 1..(n - 1) /\ ~(k - 1 < i) /\ (k - 1) + 1 = k
      BY <2>2, <1>1
    <3>2. r[k - 1] = lru[k]
      BY <3>1, <1>2
    <3> QED
      BY <3>1, <3>2, <1>2 DEF InSeq
  <2> QED
    BY <2>1, <2>2, <1>1
<1>7. Injective(r)
  <2> DEFINE old(j) == IF j < i THEN j ELSE j + 1
  <2>1. \A j \in 1..(n - 1) : old(j) \in 1..n /\ r[j] = lru[old(j)]
    BY <1>1, <1>2
  <2>2. \A j, k \in 1..(n - 1) : old(j) = old(k) => j = k
    BY <1>1
  <2>3. \A j, k \in 1..n : lru[j] = lru[k] => j = k
    BY <1>1 DEF Injective
  <2>4. DOMAIN r = 1..(n - 1)
    BY <1>2
  <2> HIDE DEF old, r
  <2> QED
    BY <2>1, <2>2, <2>3, <2>4 DEF Injective
<1> QED
  BY <1>4, <1>5, <1>6, <1>7

\* Linking a new element at the head adds exactly that element.
LEMMA PushOne ==
  ASSUME NEW s \in Seq(Entries), Injective(s), NEW e \in Entries,
         e \notin InSeq(s)
  PROVE  /\ <<e>> \o s \in Seq(Entries)
         /\ InSeq(<<e>> \o s) = InSeq(s) \cup {e}
         /\ Injective(<<e>> \o s)
<1> DEFINE r == <<e>> \o s
           n == Len(s)
<1>1. n \in Nat /\ DOMAIN s = 1..n
  OBVIOUS
<1>2. r \in Seq(Entries) /\ DOMAIN r = 1..(n + 1)
  BY <1>1
<1>3. \A j \in 1..(n + 1) : r[j] = IF j = 1 THEN e ELSE s[j - 1]
  BY <1>1
<1>4. InSeq(r) \subseteq InSeq(s) \cup {e}
  <2> SUFFICES ASSUME NEW j \in 1..(n + 1)
               PROVE  r[j] \in InSeq(s) \cup {e}
    BY <1>2 DEF InSeq
  <2> QED
    BY <1>1, <1>3 DEF InSeq
<1>5. e \in InSeq(r)
  BY <1>1, <1>2, <1>3 DEF InSeq
<1>6. ASSUME NEW k \in 1..n PROVE s[k] \in InSeq(r)
  <2>1. k + 1 \in 1..(n + 1) /\ (k + 1) - 1 = k /\ k + 1 # 1
    BY <1>1
  <2>2. r[k + 1] = s[k]
    BY <2>1, <1>3
  <2> QED
    BY <2>1, <2>2, <1>2 DEF InSeq
<1>7. InSeq(s) \subseteq InSeq(r)
  BY <1>1, <1>6 DEF InSeq
<1>8. Injective(r)
  <2>1. \A k \in 1..n : s[k] # e
    BY <1>1 DEF InSeq
  <2> QED
    BY <1>1, <1>2, <1>3, <2>1 DEF Injective
<1> QED
  BY <1>2, <1>4, <1>5, <1>7, <1>8

-----------------------------------------------------------------------------
(* The invariant.                                                          *)

\* An entry of the database has a place in the list.
LEMMA Position ==
  ASSUME IInv, NEW e \in avl
  PROVE  /\ position(e) \in DOMAIN lru /\ lru[position(e)] = e
         /\ lru_remove(position(e)) \in Seq(Entries)
         /\ InSeq(lru_remove(position(e))) = avl \ {e}
         /\ Injective(lru_remove(position(e)))
<1>1. \E i \in DOMAIN lru : lru[i] = e
  BY DEF IInv, TreeIsList, InSeq
<1>2. position(e) \in DOMAIN lru /\ lru[position(e)] = e
  BY <1>1 DEF position
<1>3. lru \in Seq(Entries) /\ Injective(lru) /\ avl = InSeq(lru)
  BY DEF IInv, TypeOK, TreeIsList, Injective
<1> QED
  BY <1>2, <1>3, RemoveOne

\* The invariant holds in the empty cache.
LEMMA InitInv == Init => IInv
<1> SUFFICES ASSUME Init PROVE IInv
  OBVIOUS
<1>1. TypeOK
  BY CacheAssumption DEF Init, TypeOK, Pointers
<1>2. RefcntExact /\ LiveExactly
  BY DEF Init, RefcntExact, LiveExactly
<1>3. TreeIsList
  BY DEF Init, TreeIsList, InSeq
<1>4. JobInv
  BY DEF Init, JobInv
<1>5. DatabaseFits
  BY BytesEmpty, CacheAssumption DEF Init, DatabaseFits
<1> QED
  BY <1>1, <1>2, <1>3, <1>4, <1>5 DEF IInv

\* A reference to a live entry more keeps the invariant.
LEMMA GetHitInv == ASSUME IInv, NEW e \in Entries, GetHit(e) PROVE IInv'
<1> USE DEF GetHit
<1>1. e \in avl /\ e \in Entries
  BY DEF IInv, TypeOK
<1>2. /\ lru' \in Seq(Entries) /\ InSeq(lru') = avl /\ Injective(lru')
  <2>1. e \notin InSeq(lru_remove(position(e)))
    BY <1>1, Position
  <2>2. /\ lru' \in Seq(Entries) /\ Injective(lru')
        /\ InSeq(lru') = InSeq(lru_remove(position(e))) \cup {e}
    BY <1>1, <2>1, Position, PushOne
  <2>3. InSeq(lru_remove(position(e))) = avl \ {e}
    BY <1>1, Position
  <2> QED
    BY <1>1, <2>2, <2>3
<1>3. TypeOK'
  BY <1>2 DEF IInv, TypeOK
<1>4. RefcntExact'
  BY DEF IInv, TypeOK, RefcntExact
<1>5. LiveExactly'
  BY <1>1 DEF IInv, TypeOK, RefcntExact, LiveExactly
<1>6. TreeIsList'
  BY <1>2 DEF IInv, TreeIsList, Injective
<1>7. JobInv' /\ DatabaseFits'
  BY DEF IInv, JobInv, DatabaseFits
<1> QED
  BY <1>3, <1>4, <1>5, <1>6, <1>7 DEF IInv

\* Expiry takes the entry and the reference of the database away together.
LEMMA GetExpiredInv ==
  ASSUME IInv, NEW e \in Entries, GetExpired(e) PROVE IInv'
<1> USE DEF GetExpired, decref
<1>1. e \in avl
  OBVIOUS
<1>2. /\ lru' \in Seq(Entries) /\ InSeq(lru') = avl' /\ Injective(lru')
  BY <1>1, Position
<1>3. refcnt[e] = handles[e] + 1 /\ refcnt[e] \in Nat /\ handles[e] \in Nat
  BY <1>1 DEF IInv, TypeOK, RefcntExact
<1>4. TypeOK'
  BY <1>2, <1>3 DEF IInv, TypeOK
<1>5. RefcntExact'
  BY <1>3 DEF IInv, TypeOK, RefcntExact
<1>6. LiveExactly'
  BY <1>3 DEF IInv, TypeOK, LiveExactly
<1>7. TreeIsList'
  BY <1>2 DEF IInv, TreeIsList, Injective
<1>8. JobInv'
  BY DEF IInv, JobInv
<1>9. DatabaseFits'
  <2>1. Bytes[avl] = Bytes[avl \ {e}] + Bytes[{e}]
        /\ Bytes[avl \ {e}] \in Nat /\ Bytes[{e}] \in Nat
    BY <1>1, BytesDiff DEF IInv, TypeOK
  <2> QED
    BY <2>1, CacheAssumption DEF IInv, DatabaseFits
<1> QED
  BY <1>4, <1>5, <1>6, <1>7, <1>8, <1>9 DEF IInv

\* A caller gives its reference back.
LEMMA ReleaseInv == ASSUME IInv, NEW e \in Entries, Release(e) PROVE IInv'
<1> USE DEF Release, decref
<1>1. handles[e] \in Nat /\ handles[e] > 0 /\ refcnt[e] \in Nat
      /\ refcnt[e] = handles[e] + (IF e \in avl THEN 1 ELSE 0)
  BY DEF IInv, TypeOK, RefcntExact
<1>2. TypeOK'
  <2>1. handles' \in [Entries -> Nat] /\ refcnt' \in [Entries -> Nat]
    BY <1>1 DEF IInv, TypeOK
  <2> QED
    BY <2>1 DEF IInv, TypeOK
<1>3. RefcntExact'
  BY <1>1 DEF IInv, TypeOK, RefcntExact
<1>4. LiveExactly'
  BY <1>1 DEF IInv, TypeOK, LiveExactly
<1>5. TreeIsList' /\ JobInv' /\ DatabaseFits'
  BY DEF IInv, TreeIsList, JobInv, DatabaseFits, InSeq
<1> QED
  BY <1>2, <1>3, <1>4, <1>5 DEF IInv

\* The snapshot that a save starts from splits as JobInv says.
LEMMA SaveBeginInv ==
  ASSUME IInv, NEW a \in Addrs, NEW e \in Entries, SaveBegin(a, e)
  PROVE  IInv'
<1> USE DEF SaveBegin
<1>1. avl \in SUBSET live /\ live \in SUBSET Entries
  BY DEF IInv, TypeOK, RefcntExact, LiveExactly
<1>2. Bytes[live] = Bytes[live \ avl] + Bytes[avl]
      /\ Bytes[live] \in Nat /\ Bytes[live \ avl] \in Nat /\ Bytes[avl] \in Nat
  BY <1>1, BytesDiff
<1>3. job' \in Jobs
  BY <1>1, <1>2 DEF Jobs
<1>4. TypeOK'
  BY <1>3 DEF IInv, TypeOK
<1>5. JobInv'
  BY <1>2 DEF JobInv
<1>6. RefcntExact' /\ LiveExactly' /\ TreeIsList' /\ DatabaseFits'
  BY DEF IInv, RefcntExact, LiveExactly, TreeIsList, DatabaseFits, InSeq
<1> QED
  BY <1>4, <1>5, <1>6 DEF IInv

\* A save in its loop has the locals it should have.
LEMMA JobFacts ==
  ASSUME IInv, job # NoJob
  PROVE  /\ job \in Jobs /\ job.addr \in Addrs /\ job.new \in Entries
         /\ job.new \notin live /\ job.new \notin avl
         /\ refcnt[job.new] = 0 /\ handles[job.new] = 0
         /\ job.freed_size \in Nat /\ job.bytes_out \in Nat
         /\ Bytes[job.pinned] \in Nat /\ Bytes[avl] \in Nat
         /\ Bytes[{job.new}] \in Nat
         /\ job.bytes_out = Bytes[job.pinned] + Bytes[avl] + job.freed_size
<1>1. job \in Jobs
  BY DEF IInv, TypeOK
<1>2. /\ job.addr \in Addrs /\ job.new \in Entries /\ job.freed_size \in Nat
      /\ job.bytes_out \in Nat /\ job.pinned \in SUBSET Entries
  BY <1>1 DEF Jobs
<1>3. /\ job.new \notin live
      /\ job.bytes_out = Bytes[job.pinned] + Bytes[avl] + job.freed_size
  BY DEF IInv, JobInv
<1>4. refcnt[job.new] \in Nat /\ handles[job.new] \in Nat
      /\ ~(refcnt[job.new] > 0)
  BY <1>2, <1>3 DEF IInv, TypeOK, LiveExactly
<1>5. refcnt[job.new] = handles[job.new]
                          + (IF job.new \in avl THEN 1 ELSE 0)
  BY <1>2 DEF IInv, RefcntExact
<1>6. Bytes[job.pinned] \in Nat /\ Bytes[avl] \in Nat /\ Bytes[{job.new}] \in Nat
  BY <1>2, BytesAssumption DEF IInv, TypeOK
<1> QED
  BY <1>1, <1>2, <1>3, <1>4, <1>5, <1>6

\* Eviction moves memory from the cache to freed_size, whether or not the
\* entry is freed at once.
LEMMA SaveEvictInv == ASSUME IInv, SaveEvict PROVE IInv'
<1> DEFINE o == lru[Len(lru)]
<1>0. /\ job # NoJob /\ lru # <<>>
      /\ lru' = lru_remove(Len(lru))
      /\ avl' = avl \ {o}
      /\ job' = [job EXCEPT !.freed_size = job.freed_size + Bytes[{o}]]
      /\ refcnt' = [refcnt EXCEPT ![o] = refcnt[o] - 1]
      /\ live' = IF refcnt[o] = 1 THEN live \ {o} ELSE live
      /\ UNCHANGED <<addr, checked, handles, ret, now>>
  BY DEF SaveEvict, decref
<1>1. lru \in Seq(Entries) /\ lru # <<>> /\ job # NoJob
  BY <1>0 DEF IInv, TypeOK
<1> HIDE DEF o
<1>2. Len(lru) \in DOMAIN lru
  BY <1>1
<1>3. o \in avl /\ o \in Entries
  BY <1>1, <1>2 DEF IInv, TreeIsList, InSeq, o
<1>4. /\ lru' \in Seq(Entries) /\ InSeq(lru') = avl' /\ Injective(lru')
  BY <1>0, <1>1, <1>2, RemoveOne DEF IInv, TreeIsList, Injective, o
<1>5. refcnt[o] = handles[o] + 1 /\ refcnt[o] \in Nat /\ handles[o] \in Nat
  BY <1>3 DEF IInv, TypeOK, RefcntExact
<1>6. Bytes[avl] = Bytes[avl \ {o}] + Bytes[{o}]
        /\ Bytes[avl \ {o}] \in Nat /\ Bytes[{o}] \in Nat
  BY <1>3, BytesDiff DEF IInv, TypeOK
<1>7. /\ job' \in Jobs /\ job'.new = job.new /\ job'.pinned = job.pinned
      /\ job'.bytes_out = job.bytes_out
      /\ job'.freed_size = job.freed_size + Bytes[{o}]
  <2>1. job \in Jobs /\ job.freed_size + Bytes[{o}] \in Nat
    BY <1>1, <1>6, JobFacts
  <2> QED
    BY <1>0, <2>1 DEF Jobs
<1>8. TypeOK'
  <2>1. refcnt' \in [Entries -> Nat] /\ live' \in SUBSET Entries
    BY <1>0, <1>3, <1>5 DEF IInv, TypeOK
  <2> QED
    BY <1>0, <1>4, <1>7, <2>1 DEF IInv, TypeOK
<1>9. RefcntExact'
  BY <1>0, <1>3, <1>5 DEF IInv, TypeOK, RefcntExact
<1>10. LiveExactly'
  <2> SUFFICES ASSUME NEW x \in Entries PROVE x \in live' <=> refcnt'[x] > 0
    BY DEF LiveExactly
  <2>1. refcnt \in [Entries -> Nat] /\ (x \in live <=> refcnt[x] > 0)
    BY DEF IInv, TypeOK, LiveExactly
  <2> QED
    BY <1>0, <1>3, <1>5, <2>1
<1>11. TreeIsList'
  BY <1>0, <1>3, <1>4 DEF IInv, TreeIsList, Injective
<1>12. JobInv'
  <2>1. job.new \notin live'
    BY <1>0, JobFacts
  <2>2. /\ job.bytes_out = Bytes[job.pinned] + Bytes[avl] + job.freed_size
        /\ Bytes[job.pinned] \in Nat /\ job.freed_size \in Nat
    BY <1>0, JobFacts
  <2>3. avl' = avl \ {o}
    BY <1>0
  <2>4. Bytes[job.pinned] + (Bytes[avl \ {o}] + Bytes[{o}]) + job.freed_size
          = Bytes[job.pinned] + Bytes[avl \ {o}] + (job.freed_size + Bytes[{o}])
    BY <1>6, <2>2
  <2>5. job'.bytes_out = Bytes[job'.pinned] + Bytes[avl'] + job'.freed_size
    BY <1>6, <1>7, <2>2, <2>3, <2>4, Zenon
  <2> QED
    BY <1>7, <2>1, <2>5 DEF JobInv
<1>13. DatabaseFits'
  BY <1>0, <1>6, CacheAssumption DEF IInv, DatabaseFits
<1> QED
  BY <1>8, <1>9, <1>10, <1>11, <1>12, <1>13 DEF IInv

\* A refused save changes nothing more.
LEMMA SaveRefusedInv == ASSUME IInv, SaveRefused PROVE IInv'
<1> USE DEF SaveRefused
<1>1. TypeOK' /\ JobInv'
  BY DEF IInv, TypeOK, JobInv, Pointers
<1>2. RefcntExact' /\ LiveExactly'
  BY DEF IInv, RefcntExact, LiveExactly
<1>3. TreeIsList' /\ DatabaseFits'
  BY DEF IInv, TreeIsList, DatabaseFits, InSeq
<1> QED
  BY <1>1, <1>2, <1>3 DEF IInv

\* A save without memory for the entry leaves the cache as its loop left it.
LEMMA SaveUnallocatedInv == ASSUME IInv, SaveUnallocated PROVE IInv'
<1> USE DEF SaveUnallocated
<1>1. TypeOK' /\ JobInv'
  BY DEF IInv, TypeOK, JobInv, Pointers
<1>2. RefcntExact' /\ LiveExactly'
  BY DEF IInv, RefcntExact, LiveExactly
<1>3. TreeIsList' /\ DatabaseFits'
  BY DEF IInv, TreeIsList, DatabaseFits, InSeq
<1> QED
  BY <1>1, <1>2, <1>3 DEF IInv

\* The new entry enters with two references; the entry it replaces, if any,
\* loses the reference of the database.
LEMMA SaveInsertInv == ASSUME IInv, SaveInsert PROVE IInv'
<1> DEFINE e == job.new
           old == {o \in avl : addr[o] = job.addr}
<1>0. /\ job # NoJob /\ ~TooMuch /\ job' = NoJob /\ now' = now /\ ret' = "elm"
      /\ addr' = [addr EXCEPT ![e] = job.addr]
      /\ checked' = [checked EXCEPT ![e] = now]
      /\ handles' = [handles EXCEPT ![e] = 1]
      /\ avl' = (avl \ old) \cup {e}
  BY DEF SaveInsert
<1>1. \/ /\ old = {} /\ lru' = <<e>> \o lru
         /\ refcnt' = [refcnt EXCEPT ![e] = 2] /\ live' = live \cup {e}
      \/ \E o \in old :
           /\ lru' = <<e>> \o lru_remove(position(o))
           /\ refcnt' = [refcnt EXCEPT ![e] = 2, ![o] = refcnt[o] - 1]
           /\ live' = IF refcnt[o] = 1 THEN (live \ {o}) \cup {e}
                      ELSE live \cup {e}
  BY DEF SaveInsert
<1>2. /\ e \in Entries /\ e \notin live /\ e \notin avl /\ job.addr \in Addrs
      /\ refcnt[e] = 0 /\ handles[e] = 0
  BY <1>0, JobFacts
<1>3. \A c, d \in old : c = d
  BY DEF IInv, TreeIsList
<1>4. /\ addr' \in [Entries -> Addrs] /\ checked' \in [Entries -> Nat]
      /\ handles' \in [Entries -> Nat] /\ avl' \in SUBSET Entries
      /\ now' \in Nat /\ job' \in Jobs \cup {NoJob} /\ ret' \in Pointers
  BY <1>0, <1>2 DEF IInv, TypeOK, Pointers
<1>5. JobInv'
  BY <1>0 DEF JobInv
<1>6. DatabaseFits'
  <2>1. avl \in SUBSET Entries /\ old \in SUBSET avl
    BY DEF IInv, TypeOK
  <2>2. Bytes[avl] = Bytes[avl \ old] + Bytes[old]
        /\ Bytes[avl \ old] \in Nat /\ Bytes[old] \in Nat
    BY <2>1, BytesDiff
  <2>3. Bytes[(avl \ old) \cup {e}] = Bytes[avl \ old] + Bytes[{e}]
    <3>1. /\ avl \ old \in SUBSET Entries /\ {e} \in SUBSET Entries
          /\ (avl \ old) \cap {e} = {}
      BY <1>2, <2>1
    <3> QED
      BY <3>1, BytesAssumption
  <2>4. /\ job.bytes_out \in Nat /\ Bytes[{e}] \in Nat /\ job.freed_size \in Nat
        /\ Bytes[job.pinned] \in Nat /\ Bytes[avl] \in Nat
        /\ job.bytes_out = Bytes[job.pinned] + Bytes[avl] + job.freed_size
    BY <1>0, JobFacts
  <2>5. ~(job.bytes_out + Bytes[{e}] > max_mem_b + job.freed_size)
    BY <1>0 DEF TooMuch
  <2>6. Bytes[avl \ old] + Bytes[{e}] <= max_mem_b
    <3> HIDE DEF e, old
    <3> QED
      BY <2>2, <2>4, <2>5, CacheAssumption
  <2> QED
    BY <1>0, <2>3, <2>6 DEF DatabaseFits
<1>7. \A c, d \in avl' : addr'[c] = addr'[d] => c = d
  BY <1>0, <1>2 DEF IInv, TypeOK, TreeIsList
<1>8. lru \in Seq(Entries) /\ Injective(lru) /\ InSeq(lru) = avl
  BY DEF IInv, TypeOK, TreeIsList, Injective
<1>9. CASE old = {}
  <2>1. /\ lru' = <<e>> \o lru
        /\ refcnt' = [refcnt EXCEPT ![e] = 2] /\ live' = live \cup {e}
        /\ avl' = avl \cup {e}
    BY <1>9, <1>0, <1>1
  <2>2. lru' \in Seq(Entries) /\ Injective(lru') /\ InSeq(lru') = avl'
    BY <1>2, <1>8, <2>1, PushOne
  <2>3. TypeOK'
    BY <1>2, <1>4, <2>1, <2>2 DEF IInv, TypeOK
  <2>4. RefcntExact'
    BY <1>0, <1>2, <2>1 DEF IInv, TypeOK, RefcntExact
  <2>5. LiveExactly'
    BY <1>2, <2>1 DEF IInv, TypeOK, LiveExactly
  <2>6. TreeIsList'
    BY <1>7, <2>2 DEF TreeIsList, Injective
  <2> QED
    BY <1>5, <1>6, <2>3, <2>4, <2>5, <2>6 DEF IInv
<1>10. CASE old # {}
  <2>1. PICK o \in old :
          /\ lru' = <<e>> \o lru_remove(position(o))
          /\ refcnt' = [refcnt EXCEPT ![e] = 2, ![o] = refcnt[o] - 1]
          /\ live' = IF refcnt[o] = 1 THEN (live \ {o}) \cup {e}
                     ELSE live \cup {e}
    BY <1>10, <1>1
  <2>2. old = {o} /\ o \in avl /\ o \in Entries /\ o # e
    BY <1>2, <1>3 DEF IInv, TypeOK
  <2>3. avl' = (avl \ {o}) \cup {e}
    BY <1>0, <2>2
  <2>4. lru' \in Seq(Entries) /\ Injective(lru') /\ InSeq(lru') = avl'
    <3>1. /\ lru_remove(position(o)) \in Seq(Entries)
          /\ InSeq(lru_remove(position(o))) = avl \ {o}
          /\ Injective(lru_remove(position(o)))
      BY <2>2, Position
    <3> QED
      BY <1>2, <2>1, <2>3, <3>1, PushOne
  <2>5. refcnt[o] = handles[o] + 1 /\ refcnt[o] \in Nat /\ handles[o] \in Nat
    BY <2>2 DEF IInv, TypeOK, RefcntExact
  <2> HIDE DEF e, old
  <2>6. TypeOK'
    <3>1. refcnt' \in [Entries -> Nat] /\ live' \in SUBSET Entries
      BY <1>2, <2>1, <2>2, <2>5 DEF IInv, TypeOK
    <3> QED
      BY <1>4, <2>4, <3>1 DEF TypeOK
  <2>7. RefcntExact'
    <3> SUFFICES ASSUME NEW x \in Entries
                 PROVE  refcnt'[x] = handles'[x] + (IF x \in avl' THEN 1 ELSE 0)
      BY DEF RefcntExact
    <3>1. refcnt \in [Entries -> Nat] /\ handles \in [Entries -> Nat]
          /\ refcnt[x] = handles[x] + (IF x \in avl THEN 1 ELSE 0)
      BY DEF IInv, TypeOK, RefcntExact
    <3>2. CASE x = e
      BY <1>0, <1>2, <2>1, <2>2, <2>3, <3>1, <3>2
    <3>3. CASE x = o
      BY <1>0, <1>2, <2>1, <2>2, <2>3, <2>5, <3>1, <3>3
    <3>4. CASE x # e /\ x # o
      BY <1>0, <2>1, <2>3, <3>1, <3>4
    <3> QED
      BY <3>2, <3>3, <3>4
  <2>8. LiveExactly'
    BY <1>2, <2>1, <2>2, <2>5 DEF IInv, TypeOK, LiveExactly
  <2>9. TreeIsList'
    BY <1>7, <2>4 DEF TreeIsList, Injective
  <2> QED
    BY <1>5, <1>6, <2>6, <2>7, <2>8, <2>9 DEF IInv
<1> QED
  BY <1>9, <1>10

\* Every step keeps the invariant.
LEMMA NextInv == IInv /\ [Next]_vars => IInv'
<1> SUFFICES ASSUME IInv, [Next]_vars PROVE IInv'
  OBVIOUS
<1>1. ASSUME NEW e \in Entries, GetHit(e) PROVE IInv'
  BY <1>1, GetHitInv
<1>2. ASSUME NEW e \in Entries, GetExpired(e) PROVE IInv'
  BY <1>2, GetExpiredInv
<1>3. ASSUME NEW e \in Entries, Release(e) PROVE IInv'
  BY <1>3, ReleaseInv
<1>4. ASSUME NEW a \in Addrs, NEW e \in Entries, SaveBegin(a, e) PROVE IInv'
  BY <1>4, SaveBeginInv
<1>5. CASE SaveEvict
  BY <1>5, SaveEvictInv
<1>6. CASE SaveRefused
  BY <1>6, SaveRefusedInv
<1>7. CASE SaveInsert
  BY <1>7, SaveInsertInv
<1>8. CASE SaveUnallocated
  BY <1>8, SaveUnallocatedInv
<1>10. CASE Tick
  BY <1>10 DEF Tick, IInv, TypeOK, RefcntExact, LiveExactly, TreeIsList, JobInv,
              DatabaseFits, InSeq
<1>9. CASE UNCHANGED vars
  BY <1>9 DEF vars, IInv, TypeOK, RefcntExact, LiveExactly, TreeIsList, JobInv,
              DatabaseFits, InSeq
<1> QED
  BY <1>1, <1>2, <1>3, <1>4, <1>5, <1>6, <1>7, <1>8, <1>9, <1>10 DEF Next

\* In every behaviour of the cache the inductive invariant holds.
THEOREM CacheInvariant == Spec => []IInv
<1> QED
  BY InitInv, NextInv, PTL DEF Spec

\* Type correctness of the cache.
THEOREM CacheTypeOK == Spec => []TypeOK
<1>1. IInv => TypeOK
  BY DEF IInv
<1> QED
  BY <1>1, CacheInvariant, PTL

\* The reference counts are exact: one for the database that holds the entry
\* and one for each caller.
THEOREM CacheMemorySafe == Spec => []RefcntExact
<1>1. IInv => RefcntExact
  BY DEF IInv
<1> QED
  BY <1>1, CacheInvariant, PTL

\* An entry is freed exactly with its last reference: no use after free of an
\* element that a caller holds, and no leak.
THEOREM CacheNoLeak == Spec => []LiveExactly
<1>1. IInv => LiveExactly
  BY DEF IInv
<1> QED
  BY <1>1, CacheInvariant, PTL

\* Tree and list agree and an address has at most one entry.
THEOREM CacheConsistent == Spec => []TreeIsList
<1>1. IInv => TreeIsList
  BY DEF IInv
<1> QED
  BY <1>1, CacheInvariant, PTL

\* What is in the cache fits the configured memory.
THEOREM CacheFits == Spec => []DatabaseFits
<1>1. IInv => DatabaseFits
  BY DEF IInv
<1> QED
  BY <1>1, CacheInvariant, PTL

\* A save answers NULL only for memory that callers pin outside the cache; a
\* failed allocation, the other way to save nothing, answers something else.
THEOREM RefusalIsPinned == Spec => RefusedOnlyWhenPinned
<1> DEFINE A == job.busy /\ ~job'.busy /\ ret' = "NULL"
                  => Bytes[job.pinned] + Bytes[{job.new}] > max_mem_b
<1>1. IInv /\ [Next]_vars => [A]_vars
  <2> SUFFICES ASSUME IInv, Next, job.busy, ~job'.busy, ret' = "NULL"
               PROVE  Bytes[job.pinned] + Bytes[{job.new}] > max_mem_b
    OBVIOUS
  <2>1. job # NoJob
    BY DEF NoJob
  <2>2. job' # job
    OBVIOUS
  <2>3. CASE SaveRefused
    <3>1. avl = {}
      BY <2>3 DEF SaveRefused, IInv, TreeIsList, InSeq
    <3>2. job.bytes_out = Bytes[job.pinned] + 0 + job.freed_size
      BY <2>1, <3>1, JobFacts, BytesEmpty
    <3>3. job.bytes_out + Bytes[{job.new}] > max_mem_b + job.freed_size
      BY <2>3 DEF SaveRefused, TooMuch
    <3>4. /\ Bytes[job.pinned] \in Nat /\ Bytes[{job.new}] \in Nat
          /\ job.freed_size \in Nat /\ max_mem_b \in Nat
      BY <2>1, JobFacts, CacheAssumption
    <3>5. \A p, b, f, m \in Nat : (p + 0 + f) + b > m + f => p + b > m
      OBVIOUS
    <3> QED
      BY <3>2, <3>3, <3>4, <3>5
  <2>4. CASE SaveInsert
    BY <2>4 DEF SaveInsert
  <2>9. CASE SaveUnallocated
    BY <2>9 DEF SaveUnallocated
  <2>5. CASE SaveEvict
    <3>1. job'.busy = job.busy
      BY <2>1, <2>5, JobFacts DEF SaveEvict, Jobs
    <3> QED
      BY <3>1
  <2>6. ~(\E e \in Entries : GetHit(e) \/ GetExpired(e) \/ Release(e))
    BY <2>1 DEF GetHit, GetExpired, Release
  <2>7. ~(\E a \in Addrs, e \in Entries : SaveBegin(a, e))
    BY <2>1 DEF SaveBegin
  <2>8. ~Tick
    BY <2>2 DEF Tick
  <2> QED
    BY <2>3, <2>4, <2>5, <2>6, <2>7, <2>8, <2>9 DEF Next
<1> QED
  BY <1>1, CacheInvariant, PTL DEF Spec, RefusedOnlyWhenPinned
=============================================================================
