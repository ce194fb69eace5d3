---------------------------- MODULE ReloadProofs ----------------------------
(***************************************************************************)
(* Reloading, for any databases, number of workers, signals and packets:   *)
(* what is searched under a lock is whole, what was asked for is read, and *)
(* there is one sensors database.                                          *)
(***************************************************************************)
EXTENDS Reload, TLAPS

\* The main loop is between taking the lock of its database and releasing it.
Loading == pc \in {"free", "parse", "done"}

\* The types that the argument needs.
Types ==
  /\ pc \in {"poll", "lock", "free", "parse", "done"}
  /\ hpc \in {"off", "options", "lock", "delete", "read", "unlock"}
  /\ next \in 1..Len(Order) /\ opts \subseteq Options
  /\ flag \in [Dbs -> BOOLEAN] /\ stale \in [Dbs -> BOOLEAN]
  /\ raced \in [Dbs -> BOOLEAN] /\ dangling \in [Dbs -> BOOLEAN]
  /\ list = [d \in Dbs |-> list[d]] /\ alive = [d \in Dbs |-> alive[d]]
  /\ locks \in [LockNames -> [writer : BOOLEAN, readers : SUBSET Workers]]
  /\ wk = [w \in Workers |-> wk[w]]
  /\ broken \in BOOLEAN

\* Reloaded, with what the moment before the flag is cleared adds to it.
Asked ==
  /\ Reloaded
  /\ pc = "done" => ~stale[db] \/ raced[db]

\* Writers exclude readers, and those who search are among the readers.
Exclusive ==
  /\ \A l \in LockNames : locks[l].writer => locks[l].readers = {}
  /\ \A w \in Workers : wk[w].at = "search" =>
       wk[w].db \in Dbs /\ w \in locks[lock_of(wk[w].db)].readers

\* Unless the handler took the lock from it, the main loop has the lock while
\* it loads, and the handler has it while it replaces the sensors.
Held ==
  ~broken => /\ Loading => locks[lock_of(db)].writer
             /\ hpc \in {"delete", "read", "unlock"} =>
                  ~(Loading /\ lock_of(db) = "mutex")

\* A database that is not being loaded can be searched, or is known to dangle.
Whole ==
  ~broken => \A d \in Dbs :
    usable(d, list[d]) \/ dangling[d] \/ (pc = "parse" /\ d = db)

\* The inductive invariant.
IInv == Types /\ Asked /\ OneSensorsDb /\ Exclusive /\ Held /\ Whole /\ SearchSafe

\* The database at hand is one of the databases, now and next.
LEMMA AtHand ==
  ASSUME next \in 1..Len(Order)
  PROVE  db \in Dbs /\ after_db \in 1..Len(Order)
<1>1. Len(Order) \in Nat \ {0} /\ DOMAIN Order = 1..Len(Order)
  BY ReloadAssumption
<1>2. db \in Dbs
  BY <1>1 DEF db, Dbs, Range
<1>3. next % Len(Order) \in 0..(Len(Order) - 1)
  BY <1>1
<1> QED
  BY <1>1, <1>2, <1>3 DEF after_db

\* Every database has a lock.
LEMMA LockOf == \A d : lock_of(d) \in LockNames
  BY DEF lock_of, LockNames

\* The inductive invariant holds at the start.
LEMMA InitInv == Init => IInv
<1> SUFFICES ASSUME Init PROVE IInv
  OBVIOUS
<1>1. Types
  <2>1. 1 \in 1..Len(Order)
    BY ReloadAssumption
  <2>2. locks \in [LockNames -> [writer : BOOLEAN, readers : SUBSET Workers]]
    BY DEF Init
  <2> QED
    BY <2>1, <2>2 DEF Init, Types
<1>2. Asked
  BY DEF Init, Asked, Reloaded
<1>3. OneSensorsDb
  BY DEF Init, OneSensorsDb
<1>4. Exclusive
  BY DEF Init, Exclusive, Idle
<1>5. Held /\ Whole
  BY DEF Init, Held, Whole, Loading, usable
<1>6. SearchSafe
  BY DEF Init, SearchSafe, Idle
<1> QED
  BY <1>1, <1>2, <1>3, <1>4, <1>5, <1>6 DEF IInv

\* Each action keeps the inductive invariant: first those of the main loop.
LEMMA PollInv ==
  ASSUME IInv, Poll
  PROVE  IInv'
<1>1. Types'
  BY AtHand DEF IInv, Types, names, Poll
<1>2. Asked'
  BY DEF IInv, names, Poll, Asked, Reloaded
<1>3. Held'
  BY DEF Poll, Held, Loading
<1>4. Whole'
  BY DEF IInv, names, Poll, Whole, usable
<1>5. OneSensorsDb' /\ Exclusive' /\ SearchSafe'
  BY DEF IInv, names, sensors, Poll, OneSensorsDb, Exclusive, SearchSafe,
     usable
<1> QED
  BY <1>1, <1>2, <1>3, <1>4, <1>5 DEF IInv

LEMMA MainLockInv ==
  ASSUME IInv, MainLock
  PROVE  IInv'
<1>1. Types'
  BY DEF IInv, Types, names, MainLock, LockNames, lock_of
<1>2. Asked'
  BY DEF IInv, names, MainLock, Asked, Reloaded
<1>3. Exclusive'
  BY DEF IInv, MainLock, Exclusive, free
<1>4. Held'
  BY LockOf DEF IInv, Types, MainLock, MainRuns, Held, db
<1>5. Whole'
  BY DEF IInv, names, MainLock, Whole, usable
<1>6. OneSensorsDb' /\ SearchSafe'
  BY DEF IInv, names, sensors, MainLock, OneSensorsDb, SearchSafe, usable
<1> QED
  BY <1>1, <1>2, <1>3, <1>4, <1>5, <1>6 DEF IInv

LEMMA MainFreeInv ==
  ASSUME IInv, MainFree
  PROVE  IInv'
<1>1. Types'
  BY DEF IInv, Types, MainFree
<1>2. Asked'
  BY DEF IInv, MainFree, Asked, Reloaded
<1>3. Held'
  BY DEF IInv, MainFree, Held, Loading, db
<1>4. Whole'
  BY DEF IInv, MainFree, Whole, usable, db
<1>5. SearchSafe'
  BY LockOf DEF IInv, MainFree, SearchSafe, Held, Exclusive, Loading, usable
<1>6. OneSensorsDb' /\ Exclusive'
  BY DEF IInv, sensors, MainFree, OneSensorsDb, Exclusive
<1> QED
  BY <1>1, <1>2, <1>3, <1>4, <1>5, <1>6 DEF IInv

LEMMA MainParseInv ==
  ASSUME NEW readable \in BOOLEAN, IInv, MainParse(readable)
  PROVE  IInv'
<1>1. Types'
  BY DEF IInv, Types, MainParse
<1>2. Asked'
  BY AtHand DEF IInv, Types, MainParse, Asked, Reloaded, db
<1>3. Held'
  BY DEF IInv, MainParse, Held, Loading, db
<1>4. Whole'
  BY DEF IInv, Types, MainParse, Whole, usable
<1>5. SearchSafe'
  BY LockOf DEF IInv, Types, MainParse, SearchSafe, Held, Exclusive, Loading,
     usable
<1>6. OneSensorsDb' /\ Exclusive'
  BY DEF IInv, sensors, MainParse, OneSensorsDb, Exclusive
<1> QED
  BY <1>1, <1>2, <1>3, <1>4, <1>5, <1>6 DEF IInv

LEMMA MainDoneInv ==
  ASSUME IInv, MainDone
  PROVE  IInv'
<1>1. Types'
  <2>1. locks' \in [LockNames -> [writer : BOOLEAN, readers : SUBSET Workers]]
    <3>1. CASE UNCHANGED locks
      BY <3>1 DEF IInv, Types
    <3>2. CASE locks' = [locks EXCEPT ![lock_of(db)].writer = FALSE]
      BY <3>2, LockOf DEF IInv, Types
    <3> QED
      BY <3>1, <3>2 DEF MainDone
  <2> QED
    BY <2>1, AtHand DEF IInv, Types, MainDone
<1>2. Asked'
  BY DEF IInv, MainDone, Asked, Reloaded
<1>3. Exclusive'
  BY LockOf DEF IInv, Types, MainDone, Exclusive
<1>4. Held'
  BY DEF MainDone, Held, Loading
<1>5. Whole'
  BY DEF IInv, MainDone, Whole, usable
<1>6. OneSensorsDb' /\ SearchSafe'
  BY DEF IInv, sensors, MainDone, OneSensorsDb, SearchSafe, usable
<1> QED
  BY <1>1, <1>2, <1>3, <1>4, <1>5, <1>6 DEF IInv

\* The signal and its handler.
LEMMA HupInv ==
  ASSUME NEW found \in SUBSET Options, IInv, Hup(found)
  PROVE  IInv'
<1>1. Types'
  BY DEF IInv, Types, names, Hup
<1>2. OneSensorsDb'
  BY DEF IInv, sensors, Hup, OneSensorsDb
<1>3. Held'
  BY DEF IInv, Hup, Held, Loading, db
<1>4. Asked' /\ Exclusive' /\ Whole' /\ SearchSafe'
  BY DEF IInv, names, Hup, Asked, Reloaded, db, Exclusive, Whole, usable,
     SearchSafe
<1> QED
  BY <1>1, <1>2, <1>3, <1>4 DEF IInv

LEMMA HupIgnoredInv ==
  ASSUME IInv, HupIgnored
  PROVE  IInv'
  BY DEF IInv, Types, names, sensors, HupIgnored, Asked, Reloaded, db,
     OneSensorsDb, Exclusive, Held, Loading, Whole, usable, SearchSafe

LEMMA HandlerOptionsInv ==
  ASSUME IInv, HandlerOptions
  PROVE  IInv'
<1>1. Types'
  BY DEF IInv, Types, HandlerOptions
<1>2. Asked'
  BY AtHand DEF IInv, Types, HandlerOptions, Asked, Reloaded, db, flags_of,
     Requested
<1>3. OneSensorsDb'
  BY DEF IInv, sensors, HandlerOptions, OneSensorsDb
<1>4. Held'
  BY DEF IInv, HandlerOptions, Held, Loading, db
<1>5. Exclusive' /\ Whole' /\ SearchSafe'
  BY DEF IInv, HandlerOptions, Exclusive, Whole, usable, db, SearchSafe
<1> QED
  BY <1>1, <1>2, <1>3, <1>4, <1>5 DEF IInv

LEMMA HandlerLockInv ==
  ASSUME IInv, HandlerLock
  PROVE  IInv'
<1>1. Types'
  BY DEF IInv, Types, names, HandlerLock, LockNames
<1>2. OneSensorsDb'
  BY DEF IInv, sensors, HandlerLock, OneSensorsDb
<1>3. Exclusive'
  BY DEF IInv, HandlerLock, Exclusive, free
<1>4. Held'
  BY LockOf DEF IInv, Types, HandlerLock, Held, Loading, db
<1>5. Whole'
  BY DEF IInv, names, HandlerLock, Whole, usable, db
<1>6. SearchSafe'
  BY DEF IInv, names, HandlerLock, SearchSafe, usable
<1>7. Asked'
  BY DEF IInv, names, HandlerLock, Asked, Reloaded, db
<1> QED
  BY <1>1, <1>2, <1>3, <1>4, <1>5, <1>6, <1>7 DEF IInv

LEMMA HandlerDeleteInv ==
  ASSUME IInv, HandlerDelete
  PROVE  IInv'
<1>1. Types'
  BY DEF IInv, Types, names, HandlerDelete
<1>2. OneSensorsDb'
  BY DEF IInv, HandlerDelete, OneSensorsDb
<1>3. Held'
  BY DEF IInv, HandlerDelete, Held, Loading, db
<1>4. Asked' /\ Exclusive' /\ Whole' /\ SearchSafe'
  BY DEF IInv, names, HandlerDelete, Asked, Reloaded, db, Exclusive, Whole,
     usable, SearchSafe
<1> QED
  BY <1>1, <1>2, <1>3, <1>4 DEF IInv

LEMMA HandlerReadInv ==
  ASSUME IInv, HandlerRead
  PROVE  IInv'
<1>1. Types'
  BY DEF IInv, Types, names, HandlerRead
<1>2. OneSensorsDb'
  BY DEF IInv, HandlerRead, OneSensorsDb
<1>3. Held'
  BY DEF IInv, HandlerRead, Held, Loading, db
<1>4. Asked' /\ Exclusive' /\ Whole' /\ SearchSafe'
  BY DEF IInv, names, HandlerRead, Asked, Reloaded, db, Exclusive, Whole,
     usable, SearchSafe
<1> QED
  BY <1>1, <1>2, <1>3, <1>4 DEF IInv

LEMMA HandlerUnlockInv ==
  ASSUME IInv, HandlerUnlock
  PROVE  IInv'
<1>1. Types'
  BY DEF IInv, Types, names, HandlerUnlock
<1>2. OneSensorsDb'
  BY DEF IInv, sensors, HandlerUnlock, OneSensorsDb
<1>3. Exclusive'
  BY DEF IInv, HandlerUnlock, Exclusive
<1>4. Held'
  BY DEF IInv, HandlerUnlock, Held, Loading, db
<1>5. Asked' /\ Whole' /\ SearchSafe'
  BY DEF IInv, names, HandlerUnlock, Asked, Reloaded, db, Whole, usable,
     SearchSafe
<1> QED
  BY <1>1, <1>2, <1>3, <1>4, <1>5 DEF IInv

\* Listeners and workers.
LEMMA GetSensorInv ==
  ASSUME IInv, GetSensor
  PROVE  IInv'
  BY DEF IInv, Types, names, GetSensor, Asked, Reloaded, db, OneSensorsDb,
     Exclusive, Held, Loading, Whole, usable, SearchSafe

LEMMA ReadLockInv ==
  ASSUME NEW w \in Workers, NEW d \in Dbs, IInv, ReadLock(w, d)
  PROVE  IInv'
<1>1. Types'
  BY AtHand DEF IInv, Types, names, ReadLock, WorkerStep
<1>2. Exclusive'
  BY LockOf DEF IInv, Types, ReadLock, Exclusive
<1>3. Held'
  BY DEF IInv, ReadLock, WorkerStep, Held, Loading, db
<1>4. SearchSafe'
  BY DEF IInv, names, ReadLock, WorkerStep, SearchSafe, Whole, Held, Loading,
     usable
<1>5. Asked' /\ OneSensorsDb' /\ Whole'
  BY DEF IInv, names, ReadLock, WorkerStep, Asked, Reloaded, db, OneSensorsDb,
     Whole, usable
<1> QED
  BY <1>1, <1>2, <1>3, <1>4, <1>5 DEF IInv

LEMMA ReadUnlockInv ==
  ASSUME NEW w \in Workers, IInv, ReadUnlock(w)
  PROVE  IInv'
<1>1. Types'
  <2>1. locks' \in [LockNames -> [writer : BOOLEAN, readers : SUBSET Workers]]
    BY LockOf DEF IInv, Types, ReadUnlock
  <2> QED
    BY <2>1 DEF IInv, Types, names, ReadUnlock, WorkerStep
<1>2. Exclusive'
  BY DEF IInv, Types, ReadUnlock, Idle, Exclusive
<1>3. Held'
  BY DEF IInv, ReadUnlock, WorkerStep, Held, Loading, db
<1>4. SearchSafe'
  BY DEF IInv, names, ReadUnlock, WorkerStep, Idle, SearchSafe, usable
<1>5. Asked' /\ OneSensorsDb' /\ Whole'
  BY DEF IInv, names, ReadUnlock, WorkerStep, Asked, Reloaded, db,
     OneSensorsDb, Whole, usable
<1> QED
  BY <1>1, <1>2, <1>3, <1>4, <1>5 DEF IInv

LEMMA TestInv ==
  ASSUME NEW w \in Workers, NEW d \in Dbs, IInv, Test(w, d)
  PROVE  IInv'
<1>1. Types'
  BY DEF IInv, Types, names, Test, WorkerStep
<1>2. Exclusive'
  BY DEF IInv, Test, Exclusive
<1>3. SearchSafe'
  BY DEF IInv, names, Test, WorkerStep, SearchSafe, usable
<1>4. Asked' /\ OneSensorsDb' /\ Held' /\ Whole'
  BY DEF IInv, names, Test, WorkerStep, Asked, Reloaded, db, OneSensorsDb,
     Held, Loading, Whole, usable
<1> QED
  BY <1>1, <1>2, <1>3, <1>4 DEF IInv

LEMMA SearchInv ==
  ASSUME NEW w \in Workers, NEW d \in Dbs, IInv, Search(w, d)
  PROVE  IInv'
<1>1. Types'
  BY DEF IInv, Types, names, Search, WorkerStep
<1>2. Exclusive'
  BY DEF IInv, Search, Exclusive
<1>3. SearchSafe'
  BY DEF IInv, names, Search, WorkerStep, SearchSafe, usable
<1>4. Asked' /\ OneSensorsDb' /\ Held' /\ Whole'
  BY DEF IInv, names, Search, WorkerStep, Asked, Reloaded, db, OneSensorsDb,
     Held, Loading, Whole, usable
<1> QED
  BY <1>1, <1>2, <1>3, <1>4 DEF IInv

LEMMA UseInv ==
  ASSUME NEW w \in Workers, IInv, Use(w)
  PROVE  IInv'
<1>1. Types'
  BY DEF IInv, Types, names, Use, WorkerStep
<1>2. Exclusive'
  BY DEF IInv, Use, Idle, Exclusive
<1>3. SearchSafe'
  BY DEF IInv, names, Use, WorkerStep, Idle, SearchSafe, usable
<1>4. Asked' /\ OneSensorsDb' /\ Held' /\ Whole'
  BY DEF IInv, names, Use, WorkerStep, Asked, Reloaded, db, OneSensorsDb,
     Held, Loading, Whole, usable
<1> QED
  BY <1>1, <1>2, <1>3, <1>4 DEF IInv

LEMMA DissectInv ==
  ASSUME NEW w \in Workers, IInv, Dissect(w)
  PROVE  IInv'
  BY DEF IInv, Types, names, Dissect, WorkerStep, Asked, Reloaded, db,
     OneSensorsDb, Exclusive, Held, Loading, Whole, usable, SearchSafe

\* Every step keeps the inductive invariant.
LEMMA NextInv == IInv /\ [Next]_vars => IInv'
<1> SUFFICES ASSUME IInv, [Next]_vars PROVE IInv'
  OBVIOUS
<1>1. CASE UNCHANGED vars
  <2>1. UNCHANGED <<pc, next, hpc, opts, flag, list, alive, dangling, stale, raced>>
    BY <1>1 DEF vars, names
  <2>2. UNCHANGED <<locks, broken, wk, sdb, salive, queue, ub, hups>>
    BY <1>1 DEF vars, sensors
  <2>3. Types' /\ Asked' /\ OneSensorsDb'
    BY <2>1, <2>2 DEF IInv, Types, Asked, Reloaded, OneSensorsDb, db
  <2>4. Exclusive' /\ Held' /\ Whole' /\ SearchSafe'
    BY <2>1, <2>2 DEF IInv, Exclusive, Held, Whole, SearchSafe, Loading, usable, db
  <2> QED
    BY <2>3, <2>4 DEF IInv
<1>2. CASE Poll \/ MainLock \/ MainFree \/ MainDone
  BY <1>2, PollInv, MainLockInv, MainFreeInv, MainDoneInv
<1>3. CASE \E readable \in BOOLEAN : MainParse(readable)
  BY <1>3, MainParseInv
<1>4. CASE (\E found \in SUBSET Options : Hup(found)) \/ HupIgnored
  BY <1>4, HupInv, HupIgnoredInv
<1>5. CASE HandlerOptions \/ HandlerLock \/ HandlerDelete \/ HandlerRead \/ HandlerUnlock
  BY <1>5, HandlerOptionsInv, HandlerLockInv, HandlerDeleteInv, HandlerReadInv,
     HandlerUnlockInv
<1>6. CASE GetSensor
  BY <1>6, GetSensorInv
<1>7. CASE \E w \in Workers : ReadUnlock(w) \/ Use(w) \/ Dissect(w)
  BY <1>7, ReadUnlockInv, UseInv, DissectInv
<1>8. CASE \E w \in Workers, d \in Dbs : ReadLock(w, d) \/ Test(w, d) \/ Search(w, d)
  BY <1>8, ReadLockInv, TestInv, SearchInv
<1> QED
  BY <1>1, <1>2, <1>3, <1>4, <1>5, <1>6, <1>7, <1>8 DEF Next

\* IInv holds in every reachable state.
LEMMA Invariant == Spec => []IInv
  BY InitInv, NextInv, PTL DEF Spec

\* SearchSafe for any databases, workers, signals and packets: whoever searches
\* under the read lock of check_if_reload sees a whole database, unless a reload
\* of rb-config took the lock away or a file could not be read.
THEOREM Searches == Spec => []SearchSafe
<1>1. IInv => SearchSafe
  BY DEF IInv
<1> QED
  BY Invariant, <1>1, PTL

\* Reloaded: once check_if_reload cleared a flag, the files were read after the
\* signal that set it, but for a signal in the moment before the clearing.
THEOREM Reloads == Spec => []Reloaded
<1>1. IInv => Reloaded
  BY DEF IInv, Asked
<1> QED
  BY Invariant, <1>1, PTL

\* OneSensorsDb: however many signals arrive, parseOptions neither loses nor
\* leaks the sensors database.
THEOREM OneDatabase == Spec => []OneSensorsDb
<1>1. IInv => OneSensorsDb
  BY DEF IInv
<1> QED
  BY Invariant, <1>1, PTL

=============================================================================
