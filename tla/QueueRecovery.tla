---------------------------- MODULE QueueRecovery ----------------------------
(***************************************************************************)
(* The life of one queue across crashes and restarts of the server: the    *)
(* handlers of QueueStore, the requests that create, remove and reset the  *)
(* queue, a process that dies between two requests or in the middle of     *)
(* one, and the start-up code that rebuilds the descriptor from the        *)
(* directory (find_handle_file, mq_sm_rtag_read_item, mq_sm_open_db,       *)
(* mq_sm_get_msg_count).                                                   *)
(*                                                                         *)
(* The machine keeps running: what a dying process wrote to its mappings   *)
(* and files is in the page cache and the next process reads it.           *)
(***************************************************************************)
EXTENDS QueueStore, FiniteSetsExt

CONSTANT MaxCrash  \* bound: how often the process dies

\* A db file has a head: a position in front of its end tells a blank item.
ASSUME CrashAssumption == MaxCrash \in Nat /\ DbFileHeadLen > 0

VARIABLES
  status,   \* "down": no process; "open": the queue is in the hash table;
            \* "unknown": the process runs and does not know the queue
  short,    \* db files that were created and not yet extended to full size
  crashes,  \* how often the process died
  base,     \* history: messages up to this number were removed on request
  doubtful, \* history: messages whose put, get or removal was never answered
  asked,    \* history: the settings the last request left
  torn      \* history: how the process died where start-up does not recover from it

recoveryVars == <<vars, status, short, crashes, base, doubtful, asked, torn>>

\* An rtag file that was created and not yet written.
EmptyFile == << >>

NoMap == [cur_index |-> 0, pos |-> 0, opt_count |-> 0]

(***************************************************************************)
(* Requests                                                                *)
(***************************************************************************)

\* A request that finds the queue in the hash table.
Serve ==
  /\ status = "open"
  /\ Next
  /\ asked' = config'
  /\ UNCHANGED <<status, short, crashes, base, doubtful, torn>>

\* mq_qm_add_queue: a directory of that name is deleted, whatever is in it,
\* and made anew.  The handler that created the queue then sets maxque' and
\* delay', stores the messages msgs' and leaves the cursor wdb'.
Created(item) ==
  /\ status' = "open"
  /\ short' = {}
  /\ db' = NewDb
  /\ rdb' = NewMap
  /\ wlock' = 0
  /\ rtag' = [f \in {1} |-> item]
  /\ get_num' = 0
  /\ asked' = config'
  /\ UNCHANGED <<now, delivered, crashes, doubtful, torn>>

\* A put to a queue that is not in the hash table.
PutNew(len) ==
  LET m == [id |-> accepted + 1, file |-> 1, pos |-> DbFileHeadLen,
            len |-> len, time |-> now]
  IN  /\ status = "unknown"
      /\ accepted < MaxPut
      /\ msgs' = {m}
      /\ wdb' = [cur_index |-> 1, pos |-> EndOf(m), opt_count |-> 1]
      /\ maxque' = DefMaxQueue /\ delay' = DefDelay
      /\ unread_count' = 1 /\ put_num' = 1
      /\ Created(Item(NewMap, wdb', maxque', delay', 0))
      /\ reply' = "QUEUE_PUT_OK"
      /\ accepted' = accepted + 1
      /\ UNCHANGED base

\* maxqueue and delay create the queue too; wlock and get only find it.
SetNew(mq, d) ==
  /\ status = "unknown"
  /\ msgs' = {}
  /\ wdb' = NewMap
  /\ maxque' = mq /\ delay' = d
  /\ unread_count' = 0 /\ put_num' = 0
  /\ Created(Item(NewMap, NewMap, mq, d, 0))
  /\ reply' = "SET_OK"
  /\ UNCHANGED <<accepted, base>>

\* remove: the files go, the hash table entry goes.
Remove ==
  /\ status = "open"
  /\ status' = "unknown"
  /\ db' = << >> /\ msgs' = {} /\ rtag' = << >>
  /\ rdb' = NoMap /\ wdb' = NoMap
  /\ maxque' = 0 /\ delay' = 0 /\ wlock' = 0
  /\ unread_count' = 0 /\ put_num' = 0 /\ get_num' = 0
  /\ reply' = "SET_OK"
  /\ base' = accepted
  /\ asked' = config'
  /\ UNCHANGED <<now, history, short, crashes, doubtful, torn>>

\* reset: remove and create; nothing writes an rtag item after init_queue.
Reset ==
  /\ status = "open"
  /\ msgs' = {}
  /\ wdb' = NewMap
  /\ maxque' = DefMaxQueue /\ delay' = DefDelay
  /\ unread_count' = 0 /\ put_num' = 0
  /\ Created(NewRtag[1])
  /\ reply' = "SET_OK"
  /\ base' = accepted
  /\ UNCHANGED accepted

(***************************************************************************)
(* Crashes                                                                 *)
(***************************************************************************)

\* An rtag item from before init_queue set the positions.
Blank(item) == item # EmptyFile /\ item.wpos < DbFileHeadLen

\* The process is gone and with it the descriptor.  Start-up does not recover
\* from a blank item, nor from the state between two files of the queue, nor
\* from a directory that has lost some of its db files: "how" is empty or one of
\* the last two.
Die(how) ==
  /\ crashes < MaxCrash
  /\ crashes' = crashes + 1
  /\ status' = "down"
  /\ rdb' = NoMap /\ wdb' = NoMap
  /\ maxque' = 0 /\ delay' = 0 /\ wlock' = 0
  /\ unread_count' = 0 /\ put_num' = 0 /\ get_num' = 0
  /\ reply' = "NONE"
  /\ torn' = torn \cup how
               \cup IF \E f \in DOMAIN rtag' : Blank(rtag'[f]) THEN {"blank"} ELSE {}
  /\ UNCHANGED <<now, delivered, asked>>

\* Between two requests; also a shutdown, which adds only syncs to this.
CrashIdle ==
  /\ status # "down"
  /\ UNCHANGED <<files, short, accepted, doubtful, base>>
  /\ Die({})

PutAdmitted == status = "open" /\ ~IsFull /\ ~IsWlocked /\ accepted < MaxPut

\* In get_next_write_file: the old head is written and the next db file is
\* there, perhaps still empty, but no rtag item tells of it.
CrashInRotation(len) ==
  /\ PutAdmitted
  /\ ~Fits(len)
  /\ db' = RotatedDb(len)
  /\ msgs' = RotatedMsgs(len)
  /\ short' \in {{}, {wdb.cur_index + 1}}
  /\ UNCHANGED <<rtag, accepted, doubtful, base>>
  /\ Die({"between"})

\* The file the scan of a get stops in.
ScanTarget == IF Reachable = {} THEN wdb.cur_index ELSE NextMsg.file

\* A rotation was refused because storage is low, and the write file, which is
\* not the read file, is no longer mapped.  The process dies when a request
\* touches it: the next put, with the read file f still the same, or the get
\* whose scan comes to the write file f.  Requests in between do the same with
\* the file mapped.
CrashNoSpace(len, f) ==
  /\ status = "open" /\ ~IsFull /\ ~IsWlocked
  /\ ~Fits(len)
  /\ rdb.cur_index # wdb.cur_index
  /\ \/ f = rdb.cur_index
     \/ f = wdb.cur_index /\ f = ScanTarget /\ unread_count >= 1
  /\ db' = [g \in {h \in DOMAIN db : h >= f} |-> RefusedDb[g]]
  /\ msgs' = {m \in RefusedMsgs : m.file >= f}
  /\ rtag' = MovedRtag(f)
  /\ UNCHANGED <<short, accepted, doubtful, base>>
  /\ Die({})

\* In mq_qm_push_item: the message is in the file, nothing was acknowledged,
\* and the rtag item that covers it is written or not.  After a rotation the
\* item of get_next_write_file is there at least.
CrashBeforeAck(len, written) ==
  LET w == WriteFile(len)
      m == [id |-> accepted + 1, file |-> w.cur_index, pos |-> w.pos, len |-> len,
            time |-> now]
  IN  /\ PutAdmitted
      /\ db' = RotatedDb(len)
      /\ msgs' = Overwrite(RotatedMsgs(len), m.file, m.pos, EndOf(m)) \cup {m}
      /\ rtag' = [rtag EXCEPT ![rdb.cur_index] =
                    IF written THEN Item(rdb, [w EXCEPT !.pos = EndOf(m)], maxque, delay, wlock)
                    ELSE IF Fits(len) THEN @
                    ELSE Item(rdb, w, maxque, delay, wlock)]
      /\ accepted' = accepted + 1
      /\ doubtful' = doubtful \cup {m.id}
      /\ UNCHANGED <<short, base>>
      /\ Die({})

\* In mq_sm_get_data when the scan has come to file f: the files before it are
\* unlinked.
CrashInScan(f) ==
  /\ status = "open"
  /\ unread_count >= 1
  /\ MovedTo(f)
  /\ rtag' = MovedRtag(f)
  /\ UNCHANGED <<short, accepted, doubtful, base>>
  /\ Die({})

\* In get_next_read_file on the way from file f to file f + 1: the next rtag
\* file is opened, which creates it but does not empty one that is there (1),
\* written (2), the old rtag file unlinked (3).
CrashInHop(f, step) ==
  LET item == Item(ReadPos(f + 1, DbFileHeadLen), wdb, maxque, delay, wlock)
      here == MovedRtag(f)
      next == IF step # 1 THEN item
              ELSE IF f + 1 \in DOMAIN here THEN here[f + 1] ELSE EmptyFile
  IN  /\ status = "open"
      /\ unread_count >= 1
      /\ MovedTo(f)
      /\ rtag' = [g \in (DOMAIN here \cup {f + 1}) \ (IF step = 3 THEN {f} ELSE {}) |->
                    IF g = f + 1 THEN next ELSE here[g]]
      /\ UNCHANGED <<short, accepted, doubtful, base>>
      /\ Die({"between"})

\* After mq_qm_pop_item wrote its rtag item and before the reply is sent.
CrashBeforeReply ==
  LET r == ReadPos(NextMsg.file, EndOf(NextMsg))
  IN  /\ status = "open"
      /\ unread_count >= 1
      /\ Reachable # {}
      /\ DelayPassed(NextMsg)
      /\ MovedTo(NextMsg.file)
      /\ rtag' = [MovedRtag(NextMsg.file) EXCEPT ![NextMsg.file] =
                    Item([r EXCEPT !.opt_count = @ + 1], wdb, maxque, delay, wlock)]
      /\ doubtful' = doubtful \cup {NextMsg.id}
      /\ UNCHANGED <<short, accepted, base>>
      /\ Die({})

\* A client that asked for remove or reset has given the messages up.
GivenUp ==
  /\ base' = IF status = "open" THEN accepted ELSE base
  /\ doubtful' = IF status = "open" THEN 1 .. accepted ELSE doubtful

\* In delete_file, called by remove, by reset and by the creation of a queue
\* whose directory could not be opened: some files are gone, in any order.
CrashInDelete(dbs, rtags) ==
  /\ status # "down"
  /\ db' = [f \in dbs |-> db[f]]
  /\ msgs' = {m \in msgs : m.file \in dbs}
  /\ rtag' = [f \in rtags |-> rtag[f]]
  /\ short' = short \cap dbs
  /\ GivenUp
  /\ UNCHANGED accepted
  /\ Die(IF dbs \in {DOMAIN db, {}} THEN {} ELSE {"partial"})

\* In mq_sm_creat_db, or behind it and before the handler goes on: the rtag
\* file is there (1), the db file is there (2), has its size (3), the first
\* item is written (4).
CrashInCreate(step) ==
  /\ status # "down"
  /\ db' = IF step = 1 THEN << >> ELSE NewDb
  /\ short' = IF step = 2 THEN {1} ELSE {}
  /\ rtag' = IF step = 4 THEN NewRtag ELSE [f \in {1} |-> EmptyFile]
  /\ msgs' = {}
  /\ GivenUp
  /\ UNCHANGED accepted
  /\ Die({})

(***************************************************************************)
(* Restart                                                                 *)
(***************************************************************************)

\* find_handle_file keeps the first rtag file readdir returns: a later one is
\* looked up by its bare name, not found, and skipped.
ReadFid  == Min(DOMAIN db)
WriteFid == Max(DOMAIN db)

HandleFile(rtag_fid) ==
  /\ rtag_fid \in DOMAIN rtag
  /\ DOMAIN db # {}
  /\ rtag_fid = ReadFid
  /\ rtag[rtag_fid] # EmptyFile     \* mq_sm_rtag_open_file
  /\ {ReadFid, WriteFid} \cap short = {}  \* mq_sm_open_db_file

\* mq_sm_get_msg_count: the count in a file's head unless it is 0 or cannot
\* be, else the messages a scan finds, in a single file only up to the write
\* position.
FileCount(f, wpos) ==
  IF db[f] # 0 /\ db[f] < MaxDbFileSize \div MsgHeadLen
  THEN db[f]
  ELSE Cardinality({m \in InFile(f) : ReadFid = WriteFid => m.pos < wpos})

\* The read cursor of the item.  Its mutant reads the file from its start.
RestartedRdb(item) == [cur_index |-> ReadFid, pos |-> 0, opt_count |-> 0]

RestoredRdb(item) ==
  [cur_index |-> ReadFid, pos |-> item.rpos, opt_count |-> item.rcount]

\* The write cursor: the item does not have its opt_count, which stays 0.  Its
\* mutant starts the file anew.
RestartedWdb(item) ==
  [cur_index |-> WriteFid, pos |-> DbFileHeadLen, opt_count |-> 0]

RestoredWdb(item) ==
  [cur_index |-> WriteFid, pos |-> item.wpos, opt_count |-> 0]

\* Never below 0.  Its mutant subtracts without a look.
RestoredDifference(count, rcount) == count - rcount

RestoredUnread(count, rcount) ==
  IF count >= rcount THEN count - rcount ELSE 0

\* One pair for each message the counts of the files stand for.
Counted(wpos) == UNION {{f} \X (1 .. FileCount(f, wpos)) : f \in DOMAIN db}

Opened(item) ==
  LET count == Cardinality(Counted(item.wpos))
  IN  /\ status' = "open"
      /\ rdb' = RestoredRdb(item)
      /\ wdb' = RestoredWdb(item)
      /\ maxque' = item.maxque
      /\ delay' = item.delay
      /\ wlock' = ToInt(item.wlock)
      /\ get_num' = item.rcount
      /\ put_num' = count
      /\ unread_count' = RestoredUnread(count, item.rcount)

\* mq_qm_open_store: a queue whose files do not match is skipped.
Restart ==
  /\ status = "down"
  /\ \/ \E fid \in DOMAIN rtag : HandleFile(fid) /\ Opened(rtag[fid])
     \/ /\ rtag = << >> \/ \E fid \in DOMAIN rtag : ~HandleFile(fid)
        /\ status' = "unknown"
        /\ UNCHANGED <<cursors, counters, config>>
  /\ UNCHANGED <<files, short, now, reply, history, crashes, base, doubtful, asked, torn>>

(***************************************************************************)
(* Specifications                                                          *)
(***************************************************************************)

\* A server that never heard of the queue.
RecoveryInit ==
  /\ status = "unknown"
  /\ db = << >> /\ msgs = {} /\ rtag = << >> /\ short = {}
  /\ rdb = NoMap /\ wdb = NoMap
  /\ maxque = 0 /\ delay = 0 /\ wlock = 0
  /\ unread_count = 0 /\ put_num = 0 /\ get_num = 0
  /\ now = 0 /\ reply = "NONE"
  /\ accepted = 0 /\ delivered = << >> 
  /\ base = 0 /\ doubtful = {} /\ asked = config /\ torn = {}
  /\ crashes = 0

Request ==
  \/ Serve
  \/ \E len \in Lens : PutNew(len)
  \/ \E n \in MaxQueues : SetNew(n, DefDelay)
  \/ \E d \in Delays : SetNew(DefMaxQueue, d % Width)
  \/ Remove

CrashInRequest ==
  \/ \E len \in Lens : CrashInRotation(len)
  \/ \E len \in Lens, written \in BOOLEAN : CrashBeforeAck(len, written)
  \/ \E len \in Lens, f \in {rdb.cur_index, wdb.cur_index} : CrashNoSpace(len, f)
  \/ \E f \in rdb.cur_index .. ScanTarget : CrashInScan(f)
  \/ \E f \in rdb.cur_index .. (ScanTarget - 1), step \in 1 .. 3 : CrashInHop(f, step)
  \/ CrashBeforeReply
  \/ \E dbs \in SUBSET DOMAIN db, rtags \in SUBSET DOMAIN rtag : CrashInDelete(dbs, rtags)
  \/ \E step \in 1 .. 4 : CrashInCreate(step)

\* The process dies only between requests.
IdleCrashNext == Request \/ CrashIdle \/ Restart
IdleCrashSpec == RecoveryInit /\ [][IdleCrashNext]_recoveryVars

\* Clients reset the queue as well.
ResetNext == IdleCrashNext \/ Reset
ResetSpec == RecoveryInit /\ [][ResetNext]_recoveryVars

\* The process may also die in the middle of a request.
AnyCrashNext == ResetNext \/ CrashInRequest
AnyCrashSpec == RecoveryInit /\ [][AnyCrashNext]_recoveryVars

RecoveryTypeOK ==
  /\ DbTypeOK /\ RtagTypeOK(RtagItem \cup {EmptyFile}) /\ DescriptorTypeOK
  /\ status \in {"down", "open", "unknown"}
  /\ short \subseteq DOMAIN db
  /\ crashes \in 0 .. MaxCrash
  /\ base \in 0 .. accepted
  /\ doubtful \subseteq 1 .. accepted
  /\ asked \in Nat \X Nat \X Int
  /\ torn \subseteq {"between", "partial", "blank"}

(***************************************************************************)
(* Properties                                                              *)
(***************************************************************************)

Expected == {i \in Pending : i > base} \ doubtful

\* Unless the process died at one of the points Die names, every acknowledged
\* message that was not handed out or removed on request is still reachable,
\* however often the server restarts, and nothing else is but messages whose
\* request was never answered: the start-up code finds the queue again, and its
\* cursors, from the directory and the last rtag item.
SurvivesRestart ==
  torn = {} /\ status # "down" =>
    LET found == {m.id : m \in IF status = "open" THEN Reachable ELSE {}}
    IN  Expected \subseteq found /\ found \subseteq Expected \cup doubtful

\* The start-up code never fails on a queue with messages: the next put would
\* delete its directory.
AlwaysReopened == status = "unknown" => Expected = {}

\* The settings of maxqueue, delay and wlock survive a restart, through the
\* digits of the rtag item.
SettingsSurvive == status = "open" /\ torn = {} => config = asked

\* Wherever the process dies, but in the middle of deleting a queue, a message
\* is handed out at most once and never after a younger one.
AtMostOnceInOrder ==
  "partial" \notin torn =>
    \A i, j \in DOMAIN delivered : i < j => delivered[i] < delivered[j]


\* The head of a db file has its own bytes.
HeadIsReserved == \A m \in msgs : m.pos >= DbFileHeadLen
==============================================================================
