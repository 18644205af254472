------------------------------ MODULE StoreSync ------------------------------
(***************************************************************************)
(* When the data of a queue reaches the disk: the timer of                 *)
(* mq_evhttp_cb_do_sync, the synctime request that changes its interval,   *)
(* the syncs inside rotation and unlinking, the per-put sync of            *)
(* mq_qm_push_item, and the way out through a signal or an exec request,   *)
(* the pipe and mq_qm_close_store.  A signal may come in the middle of a   *)
(* rotation, and a rotation fails when storage is low.                     *)
(*                                                                         *)
(* Seconds are counted down and up instead of read off a clock, so that    *)
(* the state space is finite without a last second.  The event loop runs a *)
(* timer in the second it is due.                                          *)
(***************************************************************************)
EXTENDS Integers, FiniteSets

CONSTANTS
  Intervals,     \* the numbers of synctime requests; 0 is no timed sync
  DefInterval,   \* g_mq_conf.sync_time_interval at the start
  IdlePeriod,    \* how often the timer looks again while the interval is 0
  SyncInterval,  \* g_mq_conf.sync_interval: puts between two syncs
  MaxFile,       \* bound: the last db file
  MaxSets        \* bound: how often synctime is used

ASSUME IntervalAssumption ==
  /\ Intervals \subseteq Nat
  /\ IsFiniteSet(Intervals)
  /\ DefInterval \in Intervals
  /\ IdlePeriod \in Nat \ {0}
  /\ SyncInterval \in Nat
  /\ MaxFile \in Nat \ {0}
  /\ MaxSets \in Nat

VARIABLES
  status,      \* "running", "exiting": the loop will end, "stopped", "killed"
  interval,    \* g_mq_conf.sync_time_interval
  since,       \* seconds since last_sync, -1 while last_sync is 0
  left,        \* seconds until the sync timer is due
  exit_left,   \* seconds until event_base_loopexit ends the loop
  rotating,    \* a put is inside get_next_write_file
  wmapped,     \* cur_wdb.map_mem points at a mapping of the write file
  rfile,       \* cur_rdb.cur_index
  wfile,       \* cur_wdb.cur_index
  dirty,       \* the db files with messages that are not on the disk
  rtag_dirty,  \* the rtag file has items that are not on the disk
  sync_intv,   \* mq_queue_t.sync_intv
  age,         \* history: seconds the write file has been dirty
  sets,        \* history: synctime requests
  raised,      \* history: synctime requests since the last timed sync
  idle         \* history: the interval was 0 since the last timed sync

timers  == <<interval, since, left>>
storage == <<dirty, rtag_dirty, age>>
writer  == <<rotating, wmapped, wfile>>
limits  == <<sets, raised, idle>>
vars == <<status, timers, exit_left, writer, rfile, storage, sync_intv, limits>>

MaxInterval == CHOOSE n \in Intervals : \A k \in Intervals : k <= n

\* The history variables count no further than the properties look.
MaxAge   == 2 + (MaxSets + 1) * MaxInterval
MaxSince == MaxInterval
Least(m, n) == IF m < n THEN m ELSE n

TypeOK ==
  /\ status \in {"running", "exiting", "stopped", "killed"}
  /\ interval \in Intervals
  /\ since \in -1 .. MaxSince
  /\ left \in 0 .. (1 + IdlePeriod + MaxInterval)
  /\ exit_left \in {0, 1}
  /\ rfile \in 1 .. wfile /\ wfile \in 1 .. MaxFile
  /\ dirty \subseteq rfile .. wfile
  /\ rotating \in BOOLEAN /\ wmapped \in BOOLEAN
  /\ rtag_dirty \in BOOLEAN /\ idle \in BOOLEAN
  /\ sync_intv \in Nat
  /\ age \in 0 .. MaxAge
  /\ sets \in 0 .. MaxSets /\ raised \in 0 .. MaxSets

\* mq_http_init arms the timer with one second; nothing sets sync_intv.
Init ==
  /\ status = "running"
  /\ interval = DefInterval /\ since = -1 /\ left = 1
  /\ exit_left = 0
  /\ rotating = FALSE /\ wmapped = TRUE
  /\ rfile = 1 /\ wfile = 1
  /\ dirty = {} /\ rtag_dirty = FALSE
  /\ sync_intv = 0
  /\ age = 0
  /\ sets = 0 /\ raised = 0 /\ idle = (DefInterval = 0)

Serving == status \in {"running", "exiting"} /\ ~rotating

\* The db files left dirty when file f is on the disk.
Clean(f) == dirty \ {f}

\* What is reached through cur_wdb.map_mem, and through both pointers; a read
\* file that is also written shares the mapping.
Target == IF wmapped THEN {wfile} ELSE {}
Mapped == Target \cup ({rfile} \ {wfile})

(***************************************************************************)
(* Requests                                                                *)
(***************************************************************************)

\* The end of mq_qm_push_item, d being the dirty files once the message is
\* written.  The sync of every sync_interval puts is there, but sync_intv starts
\* at 0 and stays there.
Written(d) ==
  /\ IF sync_intv = 1
     THEN /\ dirty' = d \ {wfile'}
          /\ age' = 0
          /\ sync_intv' = IF SyncInterval = 0 THEN 10 ELSE SyncInterval
     ELSE /\ dirty' = d
          /\ age' = IF wfile' = wfile THEN age ELSE 0
          /\ sync_intv' = IF sync_intv > 1 THEN sync_intv - 1 ELSE sync_intv
  /\ rtag_dirty' = TRUE

\* A put that fits in the write file.
Put ==
  /\ Serving
  /\ UNCHANGED writer
  /\ Written(dirty \cup Target)
  /\ UNCHANGED <<status, timers, exit_left, rfile, limits>>

\* Mutant of RotateBegins: the old file is unmapped without a sync.
RotateUnsynced ==
  /\ Serving
  /\ wfile < MaxFile
  /\ rotating' = TRUE
  /\ wmapped' = (wmapped /\ wfile = rfile)
  /\ dirty' = dirty \cup Target
  /\ age' = IF wfile > rfile THEN 0 ELSE age
  /\ UNCHANGED <<status, timers, exit_left, rfile, wfile, rtag_dirty, sync_intv, limits>>

\* A put that needs the next db file: the head of the old one is written, then
\* get_next_write_file syncs and unmaps it, unless it is also being read.
RotateBegins ==
  /\ Serving
  /\ wfile < MaxFile
  /\ rotating' = TRUE
  /\ wmapped' = (wmapped /\ wfile = rfile)
  /\ dirty' = IF wfile > rfile THEN Clean(wfile) ELSE dirty \cup Target
  /\ age' = IF wfile > rfile THEN 0 ELSE age
  /\ UNCHANGED <<status, timers, exit_left, rfile, wfile, rtag_dirty, sync_intv, limits>>

\* The new file is there and the message goes into it.
RotateEnds ==
  /\ rotating
  /\ rotating' = FALSE
  /\ wmapped' = TRUE
  /\ wfile' = wfile + 1
  /\ Written(dirty \cup {wfile + 1})
  /\ UNCHANGED <<status, timers, exit_left, rfile, limits>>

\* Storage is below res_store_space, and the reply HTTP_MQ_PUT_ERROR.  cur_wdb is
\* not told that its memory may be unmapped.
RotateFails ==
  /\ rotating
  /\ rotating' = FALSE
  /\ UNCHANGED <<status, timers, exit_left, rfile, wfile, wmapped, storage, sync_intv, limits>>

\* The next put, or a get that reaches the write file, uses the unmapped memory.
\* That is the end of the process, unless another file was mapped there: then
\* Put, RotateBegins and GetHops go on in that other file.
Killed ==
  /\ Serving
  /\ ~wmapped
  /\ status' = "killed"
  /\ UNCHANGED <<timers, exit_left, writer, rfile, storage, sync_intv, limits>>

\* Mutant of GetHops: the old file stays.
GetHopsKept ==
  /\ Serving
  /\ rfile < wfile
  /\ rfile' = rfile + 1
  /\ rtag_dirty' = TRUE
  /\ UNCHANGED <<status, timers, exit_left, writer, dirty, sync_intv, age, limits>>

\* A get that moves to the next db file and unlinks the old one.
GetHops ==
  /\ Serving
  /\ rfile < wfile
  /\ rfile' = rfile + 1
  /\ dirty' = Clean(rfile)
  /\ rtag_dirty' = TRUE
  /\ UNCHANGED <<status, timers, exit_left, writer, sync_intv, age, limits>>

\* A get inside a file, or a setting: an rtag item.
WriteItem ==
  /\ Serving
  /\ rtag_dirty' = TRUE
  /\ UNCHANGED <<status, timers, exit_left, writer, rfile, dirty, sync_intv, age, limits>>

SetSyncTime(n) ==
  /\ Serving
  /\ sets < MaxSets
  /\ interval' = n
  /\ sets' = sets + 1
  /\ raised' = raised + 1
  /\ idle' = (idle \/ n = 0)
  /\ UNCHANGED <<status, since, left, exit_left, writer, rfile, storage, sync_intv>>

(***************************************************************************)
(* Timed sync                                                              *)
(***************************************************************************)

\* mq_qm_sync_store: the rtag file and the write file, not the read file.
SyncStore ==
  /\ dirty' = dirty \ Target
  /\ rtag_dirty' = FALSE
  /\ age' = 0

\* Mutants of SinceLastSync and IsDue: last_sync is set on every call, the
\* interval must be exceeded.
SinceThisCall == 0

IsOverdue == interval # 0 /\ (IF since = -1 THEN 0 ELSE since) > interval

\* last_sync, as the first call of the callback sets it.
SinceLastSync == IF since = -1 THEN 0 ELSE since

IsDue == interval # 0 /\ SinceLastSync >= interval

TimerSyncs ==
  /\ Serving
  /\ left = 0
  /\ IsDue
  /\ SyncStore
  /\ since' = 0
  /\ left' = interval
  /\ raised' = 0 /\ idle' = FALSE
  /\ UNCHANGED <<status, interval, exit_left, writer, rfile, sync_intv, sets>>

\* Too early, or no interval: the timer is armed again all the same.
TimerWaits ==
  /\ Serving
  /\ left = 0
  /\ ~IsDue
  /\ since' = IF interval # 0 THEN 0 ELSE SinceLastSync
  /\ left' = IF interval # 0 THEN interval ELSE IdlePeriod
  /\ UNCHANGED <<status, interval, exit_left, writer, rfile, storage, sync_intv, limits>>

\* A second passes.
Tick ==
  /\ status \in {"running", "exiting"}
  /\ left > 0
  /\ status = "exiting" => exit_left > 0
  /\ left' = left - 1
  /\ since' = IF since = -1 THEN -1 ELSE Least(since + 1, MaxSince)
  /\ age' = IF wfile \in dirty THEN Least(age + 1, MaxAge) ELSE age
  /\ exit_left' = IF status = "exiting" THEN exit_left - 1 ELSE exit_left
  /\ UNCHANGED <<status, interval, writer, rfile, dirty, rtag_dirty, sync_intv, limits>>

(***************************************************************************)
(* The way out                                                             *)
(***************************************************************************)

\* exec_safe_exit on a signal, which may come in the middle of a rotation, or
\* exec?cmd=kill: sync, then write the pipe; the pipe callback ends the loop a
\* second later; a second exit syncs again and does not postpone the end.
Exit ==
  /\ status \in {"running", "exiting"}
  /\ status' = "exiting"
  /\ exit_left' = IF status = "exiting" THEN exit_left ELSE 1
  /\ SyncStore
  /\ UNCHANGED <<timers, writer, rfile, sync_intv, limits>>

\* Mutant of Stop: only the write file is closed.
StopWriteFile ==
  /\ Serving
  /\ status = "exiting"
  /\ exit_left = 0
  /\ status' = "stopped"
  /\ dirty' = Clean(wfile)
  /\ rtag_dirty' = FALSE
  /\ age' = 0
  /\ UNCHANGED <<timers, exit_left, writer, rfile, sync_intv, limits>>

\* mq_qm_close_store: rtag file, read file if it is another one, write file.
Stop ==
  /\ Serving
  /\ status = "exiting"
  /\ exit_left = 0
  /\ status' = "stopped"
  /\ dirty' = dirty \ Mapped
  /\ rtag_dirty' = FALSE
  /\ age' = 0
  /\ UNCHANGED <<timers, exit_left, writer, rfile, sync_intv, limits>>

Next ==
  \/ Put
  \/ RotateBegins \/ RotateEnds \/ RotateFails
  \/ Killed
  \/ GetHops
  \/ WriteItem
  \/ \E n \in Intervals : SetSyncTime(n)
  \/ TimerSyncs
  \/ TimerWaits
  \/ Tick
  \/ Exit
  \/ Stop

Spec == Init /\ [][Next]_vars

\* The clock runs, get_next_write_file returns, and the event loop runs its due
\* timers after every round of requests, however many there are.
FairSpec ==
  /\ Spec
  /\ WF_vars(Tick)
  /\ SF_vars(TimerSyncs \/ TimerWaits \/ Stop)
  /\ WF_vars(RotateEnds \/ RotateFails)

(***************************************************************************)
(* Properties                                                              *)
(***************************************************************************)

\* An acknowledged message of the write file waits for the disk no longer
\* than one second after the start plus one interval, and one interval more
\* for each synctime request since: the callback sets last_sync even when it
\* did not sync, so a raised interval costs a round, never more.
BoundedLoss == idle \/ age <= 1 + (raised + 1) * MaxInterval

\* A server that leaves through a signal or exec leaves nothing in memory,
\* requests of its last second included.
StoppedIsClean == status = "stopped" => dirty = {} /\ ~rtag_dirty

\* What is not mapped is on the disk: nobody would sync it later.  That also
\* holds of a write file that a failed rotation has left unmapped.
ClosedIsClean == dirty \subseteq Mapped

\* When synctime leaves a number other than 0, the write file is synced again
\* and again until the server is gone, whatever the numbers before.
SyncsForever ==
  <>[](interval # 0) => []<>(status \in {"stopped", "killed"} \/ age = 0)
==============================================================================
