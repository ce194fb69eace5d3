------------------------------- MODULE Reload -------------------------------
(***************************************************************************)
(* Reloading while f2k runs: the SIGHUP handler reads the configuration    *)
(* file again (reloadCLI, parseOptions), sets the flags of the databases   *)
(* that are read by the main loop (check_for_database_reloads) and         *)
(* replaces the sensors database itself; workers search the databases      *)
(* meanwhile, each in its own way of locking.                              *)
(*                                                                         *)
(* The handler runs on the main thread, between any two of its steps: it   *)
(* owns the locks that the main thread holds.  A loaded database is a      *)
(* numbered generation; alive are those not freed yet.  Once freed memory  *)
(* or a null pointer is used, or a lock corrupted, nothing more is said.   *)
(***************************************************************************)
EXTENDS Naturals, Sequences, FiniteSets, SequencesExt

CONSTANTS Order,     \* the databases modelled, in the order of the main loop
          Workers,
          MaxHups,   \* bound: signals
          MaxQueue   \* bound: packets waiting for a worker

Dbs == Range(Order)
Null == 0

\* How export.c reads each database.
Locked == {"engines"}             \* found and used under the read lock
UsedAfter == {"macs", "vendor"}   \* found under the read lock, used after it
Unlocked == {"nets", "apps"}      \* no lock at all
Tested == {"geoip"}               \* tested before the lock, read under it

\* freeNumList does not reset the pointer of these.
KeepsPointer == {"engines"}

lock_of(d) == IF d = "geoip" THEN "geoipRwLock" ELSE "mutex"
LockNames == {"mutex", "geoipRwLock"}

ASSUME ReloadAssumption ==
  /\ Order \in Seq(STRING) /\ Order # <<>>
  /\ Dbs \subseteq Locked \cup UsedAfter \cup Unlocked \cup Tested
  /\ {MaxHups, MaxQueue} \subseteq Nat

VARIABLES
  pc, next,     \* main loop: step and index of the database
  hpc, opts,    \* signal handler: step and the options it found
  flag,         \* reload_*_database
  list, alive,  \* pointer to each database, and its generations not freed
  dangling,     \* the pointer was left to freed memory
  locks,        \* of each lock: held for writing, and the workers that read
  broken,       \* the handler released the lock that the main loop held
  wk,           \* workers: step, database, generation found
  sdb, salive,  \* sensors_info, and the sensors databases not freed
  queue,        \* packets: the sensors database of their sensor
  ub,           \* undefined behaviour happened
  hups,         \* history: signals so far
  stale,        \* history: the files were not read since a signal asked for it
  raced         \* history: that signal came between reading and clearing

names == <<flag, list, alive, dangling, stale, raced>>
sensors == <<sdb, salive, queue>>
vars == <<pc, next, hpc, opts, names, locks, broken, wk, sensors, ub, hups>>

Idle == [at |-> "idle"]

\* After the start: parseOptions has set the flags, nothing is loaded, and the
\* first sensors database is in place.
Init ==
  /\ pc = "poll" /\ next = 1 /\ hpc = "off" /\ opts = {}
  /\ flag = [d \in Dbs |-> TRUE]
  /\ list = [d \in Dbs |-> Null] /\ alive = [d \in Dbs |-> {}]
  /\ dangling = [d \in Dbs |-> FALSE]
  /\ locks = [l \in LockNames |-> [writer |-> FALSE, readers |-> {}]]
  /\ broken = FALSE /\ wk = [w \in Workers |-> Idle]
  /\ sdb = 1 /\ salive = {1} /\ queue = <<>> /\ ub = FALSE
  /\ hups = 0 /\ stale = [d \in Dbs |-> TRUE] /\ raced = [d \in Dbs |-> FALSE]

free(l) == ~locks[l].writer /\ locks[l].readers = {}

-----------------------------------------------------------------------------
(* The main loop.                                                          *)

db == Order[next]
after_db == (next % Len(Order)) + 1
MainRuns == hpc = "off" /\ ~ub

\* The flag is tested without the lock; rd_kafka_poll between two rounds.
Poll ==
  /\ MainRuns /\ pc = "poll"
  /\ IF flag[db] THEN pc' = "lock" /\ UNCHANGED next
     ELSE next' = after_db /\ UNCHANGED pc
  /\ UNCHANGED <<hpc, opts, names, locks, broken, wk, sensors, ub, hups>>

\* A slip, for the mutation runs: readers are not waited for.
MainLockAtOnce ==
  /\ MainRuns /\ pc = "lock" /\ ~locks[lock_of(db)].writer
  /\ locks' = [locks EXCEPT ![lock_of(db)].writer = TRUE]
  /\ pc' = "free"
  /\ UNCHANGED <<next, hpc, opts, names, broken, wk, sensors, ub, hups>>

MainLock ==
  /\ MainRuns /\ pc = "lock" /\ free(lock_of(db))
  /\ locks' = [locks EXCEPT ![lock_of(db)].writer = TRUE]
  /\ pc' = "free"
  /\ UNCHANGED <<next, hpc, opts, names, broken, wk, sensors, ub, hups>>

\* A number that no pointer to database d has.
fresh(d) ==
  CHOOSE g \in 1..(Cardinality(Workers) + 2) :
    /\ g # list[d]
    /\ \A w \in Workers : wk[w].at \in {"search", "use"} /\ wk[w].db = d => wk[w].found # g

\* The old database goes: freeHostsList, freeNumList, deleteNumNameAssocTree,
\* freeOSList, freeIfAddressList, rb_destroy_mac_vendor_db.  readGeoIpDatabase
\* forgets it without freeing it.
freed(d, gens) == IF d = "geoip" THEN gens ELSE {}
reset(d, g) == IF d \in KeepsPointer THEN g ELSE Null

MainFree ==
  /\ MainRuns /\ pc = "free"
  /\ alive' = [alive EXCEPT ![db] = freed(db, @)]
  /\ list' = [list EXCEPT ![db] = reset(db, @)]
  /\ pc' = "parse"
  /\ UNCHANGED <<next, hpc, opts, flag, dangling, stale, raced, locks,
                 broken, wk, sensors, ub, hups>>

\* parseHostsList_File and the like: the first entry of the file replaces the
\* pointer; a file that cannot be opened, or is empty, leaves it alone.
MainParse(readable) ==
  /\ MainRuns /\ pc = "parse"
  /\ \/ /\ readable
        /\ list' = [list EXCEPT ![db] = fresh(db)]
        /\ alive' = [alive EXCEPT ![db] = {fresh(db)}]
     \/ ~readable /\ UNCHANGED <<list, alive>>
  /\ dangling' = [dangling EXCEPT ![db] = ~readable /\ list[db] # Null]
  /\ stale' = [stale EXCEPT ![db] = FALSE]
  /\ raced' = [raced EXCEPT ![db] = FALSE]
  /\ pc' = "done"
  /\ UNCHANGED <<next, hpc, opts, flag, locks, broken, wk, sensors, ub, hups>>

\* The flag is cleared, whatever set it, and the lock released.
MainDone ==
  /\ MainRuns /\ pc = "done"
  /\ flag' = [flag EXCEPT ![db] = FALSE]
  /\ IF locks[lock_of(db)].writer
     THEN locks' = [locks EXCEPT ![lock_of(db)].writer = FALSE] /\ UNCHANGED ub
     ELSE ub' = TRUE /\ UNCHANGED locks
  /\ pc' = "poll" /\ next' = after_db
  /\ UNCHANGED <<hpc, opts, list, alive, dangling, stale, raced, broken,
                 wk, sensors, hups>>

-----------------------------------------------------------------------------
(* SIGHUP.                                                                 *)

Options == {"hosts-list", "as-list", "rb-config"}

\* The files were edited before the signal; the handler then reads them.
Hup(found) ==
  /\ ~ub /\ hups < MaxHups /\ hpc = "off"
  /\ hups' = hups + 1 /\ hpc' = "options" /\ opts' = found
  /\ UNCHANGED <<pc, next, names, locks, broken, wk, sensors, ub>>

\* A signal while a reload is under way goes to another thread, where reloadCLI
\* sees reloadingCli and returns.
HupIgnored ==
  /\ ~ub /\ hups < MaxHups /\ hpc # "off"
  /\ hups' = hups + 1
  /\ UNCHANGED <<pc, next, hpc, opts, names, locks, broken, wk, sensors, ub>>

\* A slip, for the mutation runs: the MAC names are forgotten.
flags_of_no_macs(option) ==
  IF option = "hosts-list" THEN Dbs \ {"geoip", "vendor", "macs"}
  ELSE IF option = "as-list" THEN Dbs \cap {"geoip"} ELSE {}

\* The databases that an option reloads; the MAC vendors only at the start.
flags_of(option) ==
  CASE option = "hosts-list" -> Dbs \ {"geoip", "vendor"}
    [] option = "as-list" -> Dbs \cap {"geoip"}
    [] OTHER -> {}

\* What the options ask for (a history): hosts-list names the directory of all the
\* name files.
Requested(found) ==
  {d \in Dbs : \/ d = "geoip" /\ "as-list" \in found
               \/ d \notin {"geoip", "vendor"} /\ "hosts-list" \in found}

HandlerOptions ==
  LET set == UNION {flags_of(o) : o \in opts}
  IN /\ ~ub /\ hpc = "options"
     /\ flag' = [d \in Dbs |-> flag[d] \/ d \in set]
     /\ stale' = [d \in Dbs |-> stale[d] \/ d \in Requested(opts)]
     /\ raced' = [d \in Dbs |-> raced[d] \/ (d \in Requested(opts) /\ pc = "done" /\ d = db)]
     /\ hpc' = IF "rb-config" \in opts THEN "lock" ELSE "off"
     /\ opts' = {}
     /\ UNCHANGED <<pc, next, list, alive, dangling, locks, broken,
                    wk, sensors, ub, hups>>

\* pthread_rwlock_wrlock fails (EDEADLK) if the interrupted main loop holds the
\* lock; nobody looks at the result.
HandlerLock ==
  /\ ~ub /\ hpc = "lock"
  /\ locks["mutex"].writer \/ free("mutex")
  /\ broken' = (broken \/ locks["mutex"].writer)
  /\ locks' = [locks EXCEPT !["mutex"].writer = TRUE]
  /\ hpc' = "delete"
  /\ UNCHANGED <<pc, next, opts, names, wk, sensors, ub, hups>>

\* A slip, for the mutation runs: the old sensors database is not deleted.
HandlerDeleteNothing ==
  /\ ~ub /\ hpc = "delete"
  /\ hpc' = "read"
  /\ UNCHANGED <<pc, next, opts, names, locks, broken, wk, sensors, ub, hups>>

HandlerDelete ==
  /\ ~ub /\ hpc = "delete"
  /\ salive' = salive \ {sdb}
  /\ hpc' = "read"
  /\ UNCHANGED <<pc, next, opts, names, locks, broken, wk, sdb, queue, ub, hups>>

\* A number that no packet and no database has.
fresh_sensors ==
  CHOOSE g \in 1..(MaxQueue + MaxHups + 2) : g \notin salive \cup Range(queue) \cup {sdb}

HandlerRead ==
  /\ ~ub /\ hpc = "read"
  /\ sdb' = fresh_sensors /\ salive' = salive \cup {fresh_sensors}
  /\ hpc' = "unlock"
  /\ UNCHANGED <<pc, next, opts, names, locks, broken, wk, queue, ub, hups>>

HandlerUnlock ==
  /\ ~ub /\ hpc = "unlock"
  /\ locks' = [locks EXCEPT !["mutex"].writer = FALSE]
  /\ hpc' = "off"
  /\ UNCHANGED <<pc, next, opts, names, broken, wk, sensors, ub, hups>>

-----------------------------------------------------------------------------
(* Workers that search, and the packets whose sensors they use.            *)

WorkerStep(w) == UNCHANGED <<pc, next, hpc, opts, names, broken, sdb, salive, hups>>
                   /\ ~ub

\* print_engine_id_name0, print_mac_map0, print_mac_vendor0; and print_country_code
\* after its test.
ReadLock(w, d) ==
  /\ WorkerStep(w)
  /\ \/ wk[w] = Idle /\ d \in Locked \cup UsedAfter
     \/ wk[w] = [at |-> "tested", db |-> d]
  /\ ~locks[lock_of(d)].writer
  /\ locks' = [locks EXCEPT ![lock_of(d)].readers = @ \cup {w}]
  /\ wk' = [wk EXCEPT ![w] = [at |-> "search", db |-> d, found |-> list[d]]]
  /\ UNCHANGED <<queue, ub>>

usable(d, g) == g = Null \/ g \in alive[d] \/ d = "geoip"

\* The search ends; what it found is used under the lock or kept for later.
ReadUnlock(w) ==
  LET d == wk[w].db
      g == wk[w].found
  IN /\ WorkerStep(w) /\ wk[w].at = "search"
     /\ locks' = [locks EXCEPT ![lock_of(d)].readers = @ \ {w}]
     /\ ub' = (~usable(d, g) \/ (d \in Tested /\ g = Null))
     /\ wk' = [wk EXCEPT ![w] = IF d \in UsedAfter
                 THEN [at |-> "use", db |-> d, found |-> g] ELSE Idle]
     /\ UNCHANGED queue

\* print_country_code tests the pointer first.
Test(w, d) ==
  /\ WorkerStep(w) /\ wk[w] = Idle /\ d \in Tested /\ list[d] # Null
  /\ wk' = [wk EXCEPT ![w] = [at |-> "tested", db |-> d]]
  /\ UNCHANGED <<locks, queue, ub>>

\* print_net0, print_application_id_name0.
Search(w, d) ==
  /\ WorkerStep(w) /\ wk[w] = Idle /\ d \in Unlocked
  /\ wk' = [wk EXCEPT ![w] = [at |-> "use", db |-> d, found |-> list[d]]]
  /\ UNCHANGED <<locks, queue, ub>>

Use(w) ==
  /\ WorkerStep(w) /\ wk[w].at = "use"
  /\ ub' = ~usable(wk[w].db, wk[w].found)
  /\ wk' = [wk EXCEPT ![w] = Idle]
  /\ UNCHANGED <<locks, queue>>

\* A listener looks up the sensor of a packet, without lock.
GetSensor ==
  /\ ~ub /\ Len(queue) < MaxQueue
  /\ IF sdb \in salive THEN queue' = Append(queue, sdb) /\ UNCHANGED ub
     ELSE ub' = TRUE /\ UNCHANGED queue
  /\ UNCHANGED <<pc, next, hpc, opts, names, locks, broken, wk, sdb, salive, hups>>

\* A worker dissects a packet with its sensor.
Dissect(w) ==
  /\ WorkerStep(w) /\ wk[w] = Idle /\ queue # <<>>
  /\ ub' = (Head(queue) \notin salive)
  /\ queue' = Tail(queue)
  /\ UNCHANGED <<locks, wk>>

Next ==
  \/ Poll \/ MainLock \/ MainFree \/ MainDone
  \/ \E readable \in BOOLEAN : MainParse(readable)
  \/ \E found \in SUBSET Options : Hup(found)
  \/ HupIgnored \/ HandlerOptions \/ HandlerLock \/ HandlerDelete \/ HandlerRead
  \/ HandlerUnlock \/ GetSensor
  \/ \E w \in Workers : ReadUnlock(w) \/ Use(w) \/ Dissect(w)
       \/ \E d \in Dbs : ReadLock(w, d) \/ Test(w, d) \/ Search(w, d)

Spec == Init /\ [][Next]_vars

-----------------------------------------------------------------------------
(* Properties.                                                             *)

\* A worker that searches under the read lock sees a whole database or none: no
\* list that is being freed or parsed.  Two exceptions: a database whose file
\* could not be read and whose pointer is not reset, and a reload of rb-config
\* that interrupted the main loop and released its lock.
SearchSafe ==
  \A w \in Workers : wk[w].at = "search" /\ ~broken =>
    usable(wk[w].db, wk[w].found) \/ dangling[wk[w].db]

\* A requested reload is done: once the flag is clear, the files were read after
\* the signal that asked for it, unless the signal came in the moment between
\* the reading and the clearing of the flag.
Reloaded ==
  \A d \in Dbs : ~flag[d] /\ ~raced[d] => ~stale[d]

\* However often the configuration is reloaded, one sensors database exists, and
\* it is the one that f2k uses; none while it is being replaced.
OneSensorsDb ==
  IF hpc = "read" THEN salive = {} ELSE salive = {sdb}
=============================================================================
