----------------------------- MODULE QueueServer -----------------------------
(***************************************************************************)
(* The server as its clients see it: the hash table of queues g_mq_qlist,  *)
(* the directories they are kept in, the total g_info.count, and the       *)
(* request handlers of mq_evhttp.c with their early returns and replies,   *)
(* over several queues, low storage, crashes and restarts.                 *)
(*                                                                         *)
(* What a queue does with its messages is in QueueStore and QueueRecovery; *)
(* here it is a number of readable messages.  After a restart its          *)
(* unread_count may be off in either direction (QueueRecovery shows how),  *)
(* so that any number up to a bound is possible.  Messages that a later    *)
(* rotation overwrites (QueueRecovery, HeadIsReserved) are not counted     *)
(* here.                                                                   *)
(***************************************************************************)
EXTENDS Integers, Sequences, FiniteSets, Functions

CONSTANTS
  Names,         \* the queue names clients use
  MaxQlistItems, \* g_mq_conf.max_qlist_itmes
  DefMaxQueue,   \* g_mq_conf.def_max_queue
  DefDelay,      \* g_mq_conf.def_delay
  Nums,          \* the numbers of requests, as atoi gives them
  QueueMaxSize,  \* QUEUE_MAX_SIZE: the largest limit maxqueue takes
  MaxUnread,     \* bound: the largest count a restart makes up
  MaxPut,        \* bound: how many puts succeed
  MaxCrash       \* bound: how often the process dies

ASSUME ServerAssumption ==
  /\ IsFiniteSet(Names)
  /\ MaxQlistItems \in Nat
  /\ DefMaxQueue \in Nat /\ DefDelay \in Nat
  /\ Nums \subseteq Int
  /\ QueueMaxSize \in Nat
  /\ MaxUnread \in Nat /\ MaxPut \in Nat /\ MaxCrash \in Nat

VARIABLES
  status,   \* "up" or "down"
  qlist,    \* g_mq_qlist: the unread_count of every queue in the table
  disk,     \* the queue directories: messages, settings, and whether the
            \* start-up code would open it
  count,    \* g_info.count
  space,    \* free storage is not below res_store_space
  last,     \* the request of the last step: operation, name, replies
  puts, crashes  \* the bounded counters

vars == <<status, qlist, disk, count, space, last, puts, crashes>>

Codes == {"OK", "QUE_EMPTY", "INV_NAME", "INV_DATA", "INV_NUM", "QUE_ADD_ERR",
          "QUE_NO_EXIST", "WLOCK", "QUE_FULL", "PUT_ERR", "RESET_ERR",
          "SYNC_TIME_ERR", "UNKNOWN_OPT"}

Opts == {"none", "put", "get", "status", "maxqueue", "delay", "wlock", "remove",
         "reset", "synctime", "unknown"}

\* A write lock: off, until some later second, or until it is taken back.
Locks == {"no", "timed", "forever"}

Directory == [stored: Nat, maxque: Nat, delayed: BOOLEAN, wlock: Locks, ok: BOOLEAN]

ServerTypeOK ==
  /\ status \in {"up", "down"}
  /\ DOMAIN qlist \subseteq Names /\ \A q \in DOMAIN qlist : qlist[q] \in Nat
  /\ DOMAIN disk \subseteq Names /\ \A q \in DOMAIN disk : disk[q] \in Directory
  /\ count \in Nat
  /\ space \in BOOLEAN
  /\ last.opt \in Opts /\ last.replies \in Seq(Codes)
  /\ puts \in 0 .. MaxPut /\ crashes \in 0 .. MaxCrash

Request(opt, name, replies) ==
  last' = [opt |-> opt, name |-> name, replies |-> replies]

NoRequest == Request("none", "", << >>)

Set(f, q, v) == [p \in DOMAIN f \cup {q} |-> IF p = q THEN v ELSE f[p]]
Without(f, q) == Restrict(f, DOMAIN f \ {q})

(***************************************************************************)
(* The hash table: mq_qm_find_queue, mq_qm_add_queue, mq_qm_del_queue      *)
(***************************************************************************)

Listed(q) == q \in DOMAIN qlist

\* Mutant of MayAdd: one queue too many.
MayAddLate == MaxQlistItems >= Cardinality(DOMAIN qlist) /\ space

\* mq_qm_add_queue refuses a full table, mq_sm_creat_db low storage.
MayAdd == MaxQlistItems > Cardinality(DOMAIN qlist) /\ space

NewDirectory ==
  [stored |-> 0, maxque |-> DefMaxQueue, delayed |-> DefDelay # 0, wlock |-> "no",
   ok |-> TRUE]

\* touch_queue_by_qname: table and directories once the queue is there.
TouchedList(q) == IF Listed(q) THEN qlist ELSE Set(qlist, q, 0)
TouchedDisk(q) == IF Listed(q) THEN disk ELSE Set(disk, q, NewDirectory)

(***************************************************************************)
(* Requests that are refused without a look at the queue's messages        *)
(***************************************************************************)

\* An unknown operation, a bad name, a body that is empty or too long: the
\* handlers return with the first reply.
BadRequest ==
  /\ status = "up"
  /\ \/ Request("unknown", "", <<"UNKNOWN_OPT">>)
     \/ \E opt \in Opts \ {"none", "unknown", "synctime"} : Request(opt, "", <<"INV_NAME">>)
     \/ \E q \in Names : Request("put", q, <<"INV_DATA">>)
  /\ UNCHANGED <<status, qlist, disk, count, space, puts, crashes>>

\* get, status, remove, reset and wlock only look for the queue.  wlock tells
\* a missing queue from an existing one with the reply of the operations that
\* create one, and goes on after a refused number.
NotFound(q) ==
  /\ status = "up"
  /\ ~Listed(q)
  /\ \/ \E opt \in {"get", "status", "remove", "reset"} :
          Request(opt, q, <<"QUE_NO_EXIST">>)
     \/ \E n \in Nums :
          Request("wlock", q, IF n < -1 THEN <<"INV_NUM", "QUE_ADD_ERR">>
                              ELSE <<"QUE_ADD_ERR">>)
  /\ UNCHANGED <<status, qlist, disk, count, space, puts, crashes>>

\* put, maxqueue and delay cannot create the queue; delay may have replied
\* before.
NotAdded(q) ==
  /\ status = "up"
  /\ ~Listed(q)
  /\ ~MayAdd
  /\ \/ Request("put", q, <<"QUE_ADD_ERR">>)
     \/ \E n \in Nums \cap (0 .. QueueMaxSize) : Request("maxqueue", q, <<"QUE_ADD_ERR">>)
     \/ \E n \in Nums :
          Request("delay", q, IF n < 0 THEN <<"INV_NUM", "QUE_ADD_ERR">>
                              ELSE <<"QUE_ADD_ERR">>)
  /\ UNCHANGED <<status, qlist, disk, count, space, puts, crashes>>

\* http_opt_status and the stat page read only.
Status(q) ==
  /\ status = "up"
  /\ Listed(q)
  /\ Request("status", q, <<"OK">>)
  /\ UNCHANGED <<status, qlist, disk, count, space, puts, crashes>>

\* The number is checked before set_synctime; -1 passes the check and not it.
SyncTime(n) ==
  /\ status = "up"
  /\ Request("synctime", "", IF n >= 0 THEN <<"OK">>
                             ELSE IF n = -1 THEN <<"SYNC_TIME_ERR">>
                             ELSE <<"INV_NUM", "SYNC_TIME_ERR">>)
  /\ UNCHANGED <<status, qlist, disk, count, space, puts, crashes>>

(***************************************************************************)
(* put and get                                                             *)
(***************************************************************************)

PutRefused(q) ==
  /\ status = "up"
  /\ Listed(q)
  /\ LET d == disk[q]
     IN  \/ /\ d.maxque # 0 /\ qlist[q] + 1 > d.maxque
            /\ Request("put", q, <<"QUE_FULL">>)
         \/ /\ d.maxque = 0 \/ qlist[q] + 1 <= d.maxque
            /\ d.wlock # "no"
            /\ Request("put", q, <<"WLOCK">>)
         \/ /\ d.maxque = 0 \/ qlist[q] + 1 <= d.maxque
            /\ d.wlock = "no"
            /\ ~space  \* get_next_write_file gives up
            /\ Request("put", q, <<"PUT_ERR">>)
  /\ UNCHANGED <<status, qlist, disk, count, space, puts, crashes>>

\* Mutant of PutOk: the total is raised only for queues that were there.
PutOkOldOnly(q) ==
  LET l == TouchedList(q)
      d == TouchedDisk(q)[q]
  IN  /\ status = "up"
      /\ puts < MaxPut
      /\ Listed(q) \/ MayAdd
      /\ d.maxque = 0 \/ l[q] + 1 <= d.maxque
      /\ d.wlock = "no"
      /\ qlist' = [l EXCEPT ![q] = @ + 1]
      /\ disk' = Set(disk, q, [d EXCEPT !.stored = @ + 1])
      /\ count' = IF Listed(q) THEN count + 1 ELSE count
      /\ puts' = puts + 1
      /\ Request("put", q, <<"OK">>)
      /\ UNCHANGED <<status, space, crashes>>

\* A put into a queue that exists or can be created.  A directory of that name
\* that could not be opened is deleted.
PutOk(q) ==
  LET l == TouchedList(q)
      d == TouchedDisk(q)[q]
  IN  /\ status = "up"
      /\ puts < MaxPut
      /\ Listed(q) \/ MayAdd
      /\ d.maxque = 0 \/ l[q] + 1 <= d.maxque
      /\ d.wlock = "no"
      /\ qlist' = [l EXCEPT ![q] = @ + 1]
      /\ disk' = Set(disk, q, [d EXCEPT !.stored = @ + 1])
      /\ count' = count + 1
      /\ puts' = puts + 1
      /\ Request("put", q, <<"OK">>)
      /\ UNCHANGED <<status, space, crashes>>

\* The early return, a delay that has not passed, or a scan that met nothing:
\* then unread_count is corrected, the total is not.
GetEnd(q) ==
  /\ status = "up"
  /\ Listed(q)
  /\ \/ qlist[q] < 1 /\ UNCHANGED qlist
     \/ qlist[q] >= 1 /\ disk[q].delayed /\ disk[q].stored > 0 /\ UNCHANGED qlist
     \/ /\ qlist[q] >= 1
        /\ disk[q].stored = 0
        /\ qlist' = [qlist EXCEPT ![q] = 0]
  /\ Request("get", q, <<"QUE_EMPTY">>)
  /\ UNCHANGED <<status, disk, count, space, puts, crashes>>

GetOk(q) ==
  /\ status = "up"
  /\ Listed(q)
  /\ qlist[q] >= 1
  /\ disk[q].stored > 0
  /\ qlist' = [qlist EXCEPT ![q] = @ - 1]
  /\ disk' = [disk EXCEPT ![q].stored = @ - 1]
  /\ count' = count - 1
  /\ Request("get", q, <<"OK">>)
  /\ UNCHANGED <<status, space, puts, crashes>>

(***************************************************************************)
(* maxqueue, delay, wlock, remove, reset                                   *)
(***************************************************************************)

\* A number that is refused before anything is touched.
MaxQueueRefused(q) ==
  /\ status = "up"
  /\ \E n \in Nums : n < 0 \/ n > QueueMaxSize
  /\ Request("maxqueue", q, <<"INV_NUM">>)
  /\ UNCHANGED <<status, qlist, disk, count, space, puts, crashes>>

MaxQueue(q, n) ==
  /\ status = "up"
  /\ n \in 0 .. QueueMaxSize
  /\ Listed(q) \/ MayAdd
  /\ qlist' = TouchedList(q)
  /\ disk' = Set(disk, q, [TouchedDisk(q)[q] EXCEPT !.maxque = n])
  /\ Request("maxqueue", q, <<"OK">>)
  /\ UNCHANGED <<status, count, space, puts, crashes>>

\* A negative number is refused and set all the same; the second reply to one
\* request uses a buffer that was freed, after which the process may die
\* (Crash) or go on.
Delay(q, n) ==
  /\ status = "up"
  /\ Listed(q) \/ MayAdd
  /\ qlist' = TouchedList(q)
  /\ disk' = Set(disk, q, [TouchedDisk(q)[q] EXCEPT !.delayed = n # 0])
  /\ Request("delay", q, IF n < 0 THEN <<"INV_NUM", "OK">> ELSE <<"OK">>)
  /\ UNCHANGED <<status, count, space, puts, crashes>>

\* The locks a number may stand for.  One below -1 is added to the clock all the
\* same and wraps around: the sum may lie before or after it, or be -1.
LocksOf(n) ==
  CASE n = -1 -> {"forever"}
    [] n = 0  -> {"no"}
    [] n > 0  -> {"timed"}
    [] OTHER  -> Locks

\* A number below -1 is refused and set all the same.
Wlock(q, n) ==
  /\ status = "up"
  /\ Listed(q)
  /\ \E lock \in LocksOf(n) : disk' = [disk EXCEPT ![q].wlock = lock]
  /\ Request("wlock", q, IF n < -1 THEN <<"INV_NUM", "OK">> ELSE <<"OK">>)
  /\ UNCHANGED <<status, qlist, count, space, puts, crashes>>

\* A lock that was set for some seconds ends.
LockEnds(q) ==
  /\ q \in DOMAIN disk
  /\ disk[q].wlock = "timed"
  /\ disk' = [disk EXCEPT ![q].wlock = "no"]
  /\ NoRequest
  /\ UNCHANGED <<status, qlist, count, space, puts, crashes>>

\* Mutant of Remove: the directory stays.
RemoveEntry(q) ==
  /\ status = "up"
  /\ Listed(q)
  /\ qlist' = Without(qlist, q)
  /\ Request("remove", q, <<"OK">>)
  /\ UNCHANGED <<status, disk, count, space, puts, crashes>>

Remove(q) ==
  /\ status = "up"
  /\ Listed(q)
  /\ qlist' = Without(qlist, q)
  /\ disk' = Without(disk, q)
  /\ Request("remove", q, <<"OK">>)
  /\ UNCHANGED <<status, count, space, puts, crashes>>

\* Removal and creation; with low storage the queue is gone and the reply an
\* error.  The removal fails, which the code does not look at, only if access()
\* does not find the directory.  A listed queue has one (ListMatchesDisk) as long
\* as the data path is what it was: MqConfig has the removal that fails.
Reset(q) ==
  /\ status = "up"
  /\ Listed(q)
  /\ qlist' = IF space THEN [qlist EXCEPT ![q] = 0] ELSE Without(qlist, q)
  /\ disk' = IF space THEN [disk EXCEPT ![q] = NewDirectory] ELSE Without(disk, q)
  /\ Request("reset", q, IF space THEN <<"OK">> ELSE <<"RESET_ERR">>)
  /\ UNCHANGED <<status, count, space, puts, crashes>>

(***************************************************************************)
(* Environment: storage, crashes, restarts                                 *)
(***************************************************************************)

SpaceChanges ==
  /\ space' = ~space
  /\ NoRequest
  /\ UNCHANGED <<status, qlist, disk, count, puts, crashes>>

\* The process dies between requests, or in the middle of one to queue q: its
\* directory cannot be opened any more, is half deleted, or was just created.
Crash ==
  /\ status = "up"
  /\ crashes < MaxCrash
  /\ crashes' = crashes + 1
  /\ status' = "down"
  /\ \/ disk' = disk
     \/ \E q \in DOMAIN qlist : disk' \in {[disk EXCEPT ![q].ok = FALSE], Without(disk, q)}
     \/ \E q \in Names \ DOMAIN qlist :
          /\ MayAdd
          /\ disk' \in {Set(disk, q, [NewDirectory EXCEPT !.ok = ok]) : ok \in BOOLEAN}
                       \cup {Without(disk, q)}
  /\ qlist' = << >>
  /\ count' = 0
  /\ NoRequest
  /\ UNCHANGED <<space, puts>>

\* One pair for every message that the counts of the queues stand for, and
\* their number: the sum of the counts.
Believed(counts) == UNION {{q} \X (1 .. counts[q]) : q \in DOMAIN counts}
Total(counts) == Cardinality(Believed(counts))

\* mq_init_store: every directory that can be opened, with a count of its
\* messages that may be wrong, and the sum of these counts.
Restart ==
  /\ status = "down"
  /\ status' = "up"
  /\ \E counts \in [{q \in DOMAIN disk : disk[q].ok} -> 0 .. MaxUnread] :
       /\ qlist' = counts
       /\ count' = Total(counts)
  /\ NoRequest
  /\ UNCHANGED <<disk, space, puts, crashes>>

Init ==
  /\ status = "up"
  /\ qlist = << >> /\ disk = << >>
  /\ count = 0
  /\ space = TRUE
  /\ last = [opt |-> "none", name |-> "", replies |-> << >>]
  /\ puts = 0 /\ crashes = 0

Next ==
  \/ BadRequest
  \/ \E n \in Nums : SyncTime(n)
  \/ \E q \in Names :
       \/ NotFound(q) \/ NotAdded(q) \/ Status(q)
       \/ PutRefused(q) \/ PutOk(q)
       \/ GetEnd(q) \/ GetOk(q)
       \/ MaxQueueRefused(q)
       \/ Remove(q) \/ Reset(q)
       \/ LockEnds(q)
       \/ \E n \in Nums : MaxQueue(q, n) \/ Delay(q, n) \/ Wlock(q, n)
  \/ SpaceChanges
  \/ Crash
  \/ Restart

Spec == Init /\ [][Next]_vars

(***************************************************************************)
(* Properties                                                              *)
(***************************************************************************)

\* g_info.count, an unsigned number, never falls below the messages the queues
\* believe to have: no sequence of removals, resets, corrected counts and
\* restarts makes a get take it below 0.
CountCovers == count >= Total(qlist)

\* The table never holds more queues than max_qlist_itmes, although start-up
\* does not look at the limit and creation may be cut off half-way.
LimitKept == Cardinality(DOMAIN qlist) <= MaxQlistItems

\* While the server runs, the table has exactly the queues the next start
\* would open: none is served without a directory and none that was removed
\* comes back.
ListMatchesDisk ==
  status = "up" => DOMAIN qlist = {q \in DOMAIN disk : disk[q].ok}
==============================================================================
