------------------------------ MODULE QueueStore ------------------------------
(***************************************************************************)
(* One ucmq queue while its server runs: the descriptor mq_queue_t and the *)
(* files it is kept in, as the put, get, maxqueue, delay and wlock         *)
(* handlers of the single-threaded event loop change them.                 *)
(*                                                                         *)
(* The messages of a queue live in db files db_1, db_2, ... of one fixed   *)
(* size.  Puts append to the newest (cur_wdb), gets consume the oldest     *)
(* (cur_rdb) and unlink it once it is used up.  Every handler that changes *)
(* the descriptor appends a line to the rtag file, which has the number of *)
(* the oldest db file.  Only the last line matters and is modelled.        *)
(*                                                                         *)
(* A handler is one step because the event loop runs it to its end.  Of    *)
(* the I/O failures this module has the one the code foresees, storage     *)
(* that runs low.  QueueRecovery adds what happens when the process dies.  *)
(***************************************************************************)
EXTENDS Integers, Sequences, FiniteSets

CONSTANTS
  MaxDbFileSize,  \* MAX_DB_FILE_SIZE: the size of every db file
  DbFileHeadLen,  \* DB_FILE_HEAD_LEN: the part of a db file before its messages
  MsgHeadLen,     \* MSG_HEAD_LEN: the part of a message before its body
  Lens,           \* the body lengths producers use
  MaxQueues,      \* the limits the maxqueue operation sets; 0 is no limit
  Delays,         \* the arguments of the delay operation, in seconds
  Wlocks,         \* the arguments of the wlock operation: -1, 0 or seconds
  DefMaxQueue,    \* g_mq_conf.def_max_queue
  DefDelay,       \* g_mq_conf.def_delay
  Width,          \* the number of values of a uint32_t
  MaxPut,         \* bound: how many puts are acknowledged
  MaxTime         \* bound: the last second of the clock

\* http_opt_put refuses an empty body and one that does not fit in a db file.
ASSUME SizeAssumption ==
  /\ MaxDbFileSize \in Nat
  /\ DbFileHeadLen \in Nat
  /\ MsgHeadLen \in Nat \ {0}
  /\ Lens \subseteq 1 .. (MaxDbFileSize - DbFileHeadLen - MsgHeadLen)
  /\ DbFileHeadLen <= MaxDbFileSize

\* atoi gives the delay and wlock handlers any int, and a refused negative
\* number still reaches the setter: the handlers do not return after the reply.
ASSUME ConfigAssumption ==
  /\ Width \in Nat \ {0, 1}
  /\ MaxQueues \subseteq Nat
  /\ Delays \subseteq Int
  /\ Wlocks \subseteq Int
  /\ DefMaxQueue \in Nat
  /\ DefDelay \in Nat
  /\ MaxPut \in Nat
  /\ MaxTime \in Nat

VARIABLES
  db,            \* the db files there are, each with the count in its head
  msgs,          \* the messages a scan of the db files finds
  rtag,          \* the rtag files there are, each with its last item
  rdb,           \* mq_queue_t.cur_rdb
  wdb,           \* mq_queue_t.cur_wdb
  unread_count, put_num, get_num, maxque, delay, wlock,  \* mq_queue_t
  now,           \* get_cur_timestamp()
  reply,         \* the result code of the last handler
  accepted,      \* history: how many puts were acknowledged
  delivered      \* history: the messages handed out, in order

files    == <<db, msgs, rtag>>
cursors  == <<rdb, wdb>>
counters == <<unread_count, put_num, get_num>>
config   == <<maxque, delay, wlock>>
history  == <<accepted, delivered>>
vars     == <<files, cursors, counters, config, now, reply, history>>

\* A message in a db file: its number, its place, its body length and the
\* time of its put (msg_item_t.delay).
Message ==
  [id: Nat, file: Nat, pos: Nat, len: Lens, time: Nat]

DbMap == [cur_index: Nat, pos: Nat, opt_count: Nat]

RtagItem ==
  [rcount: Nat, rpos: Nat, wpos: Nat, maxque: Nat, delay: Nat, wlock: Nat]

Replies == {"NONE", "QUEUE_PUT_OK", "QUEUE_FULL", "QUEUE_WLOCK",
            "QUEUE_PUT_ERROR", "QUEUE_GET_OK", "QUEUE_GET_END", "SET_OK"}

DbTypeOK ==
  /\ DOMAIN db \subseteq Nat /\ \A f \in DOMAIN db : db[f] \in Nat
  /\ msgs \subseteq Message

RtagTypeOK(items) ==
  DOMAIN rtag \subseteq Nat /\ \A f \in DOMAIN rtag : rtag[f] \in items

DescriptorTypeOK ==
  /\ rdb \in DbMap /\ wdb \in DbMap
  /\ unread_count \in Nat /\ put_num \in Nat /\ get_num \in Nat
  /\ maxque \in Nat /\ delay \in Nat /\ wlock \in Int
  /\ now \in Nat
  /\ reply \in Replies
  /\ accepted \in Nat /\ delivered \in Seq(Nat)

\* The type invariant.
TypeOK == DbTypeOK /\ RtagTypeOK(RtagItem) /\ DescriptorTypeOK

\* Mutant of ToInt: the number stays unsigned.
ToUnsigned(x) == x % Width

\* Conversion to uint32_t is % Width; this is the conversion to int.
ToInt(x) ==
  IF x % Width >= Width \div 2 THEN (x % Width) - Width ELSE x % Width

(***************************************************************************)
(* Messages in files                                                       *)
(***************************************************************************)

EndOf(m) == m.pos + MsgHeadLen + m.len

\* The order in which a reader meets messages.
Before(m, n) ==
  \/ m.file < n.file
  \/ (m.file = n.file /\ m.pos < n.pos)

\* What is left of the messages in S when bytes from .. to - 1 of file f are
\* overwritten: a message that loses a byte fails its magic number or its CRC.
Overwrite(S, f, from, to) ==
  {m \in S : m.file # f \/ EndOf(m) <= from \/ to <= m.pos}

\* Mutant of Item: the positions change places.
ItemSwapped(r, w, mq, d, wl) ==
  [rcount |-> r.opt_count, rpos |-> w.pos, wpos |-> r.pos,
   maxque |-> mq, delay |-> d, wlock |-> wl % Width]

\* The item mq_sm_rtag_write_item appends.  All fields are printed with
\* %010u, the int wlock too.
Item(r, w, mq, d, wl) ==
  [rcount |-> r.opt_count, rpos |-> r.pos, wpos |-> w.pos,
   maxque |-> mq, delay |-> d, wlock |-> wl % Width]

(***************************************************************************)
(* put: mq_qm_push_item and the counting in http_opt_put                   *)
(***************************************************************************)

IsFull == maxque # 0 /\ unread_count + 1 > maxque

\* wlock is compared as an unsigned number.
IsWlocked == wlock = -1 \/ wlock % Width > now

\* Mutant of Fits: the head of the message is forgotten.
FitsBody(len) == wdb.pos + len <= MaxDbFileSize

Fits(len) == wdb.pos + len + MsgHeadLen <= MaxDbFileSize

\* Mutant of WriteFile: the count goes on in the new file.
WriteFileCountKept(len) ==
  IF Fits(len)
  THEN wdb
  ELSE [wdb EXCEPT !.cur_index = @ + 1, !.pos = DbFileHeadLen]

\* cur_wdb after get_next_write_file, if a message of this length needs it.
WriteFile(len) ==
  IF Fits(len)
  THEN wdb
  ELSE [cur_index |-> wdb.cur_index + 1, pos |-> DbFileHeadLen, opt_count |-> 0]

\* The db files after mq_sm_db_write_msg has rotated, if it had to: the count
\* of the old file is noted in its head, the new file starts with count 0.
RotatedDb(len) ==
  IF Fits(len)
  THEN db
  ELSE [f \in DOMAIN db \cup {wdb.cur_index + 1} |->
          IF f = wdb.cur_index + 1 THEN 0
          ELSE IF f = wdb.cur_index THEN wdb.opt_count ELSE db[f]]

\* The messages after the same: writing a head wipes the first bytes of the
\* file, and the new file is empty.
RotatedMsgs(len) ==
  IF Fits(len)
  THEN msgs
  ELSE {m \in Overwrite(msgs, wdb.cur_index, 0, DbFileHeadLen) :
          m.file # wdb.cur_index + 1}

PutFull ==
  /\ IsFull
  /\ reply' = "QUEUE_FULL"
  /\ UNCHANGED <<files, cursors, counters, config, now, history>>

PutWlocked ==
  /\ ~IsFull
  /\ IsWlocked
  /\ reply' = "QUEUE_WLOCK"
  /\ UNCHANGED <<files, cursors, counters, config, now, history>>

\* The files after a rotation that is refused because storage is low: the
\* count was noted in the head of the file before get_next_write_file looked.
RefusedDb == [db EXCEPT ![wdb.cur_index] = wdb.opt_count]
RefusedMsgs == Overwrite(msgs, wdb.cur_index, 0, DbFileHeadLen)

\* Storage is low and the message does not fit: the file goes on as the write
\* file, and a shorter message may still go into it.  This is so only while the
\* file is also the read file.  If not, get_next_write_file has unmapped it, and
\* the next request that touches it ends the process: see CrashNoSpace of
\* QueueRecovery and RotateFails of StoreSync.
PutNoSpace(len) ==
  /\ ~IsFull
  /\ ~IsWlocked
  /\ ~Fits(len)
  /\ rdb.cur_index = wdb.cur_index
  /\ db' = RefusedDb
  /\ msgs' = RefusedMsgs
  /\ reply' = "QUEUE_PUT_ERROR"
  /\ UNCHANGED <<rtag, cursors, counters, config, now, history>>

\* Mutant of PutOk: a put that rotates is not counted.
PutOkUncounted(len) ==
  LET w == WriteFile(len)
      m == [id |-> accepted + 1, file |-> w.cur_index, pos |-> w.pos,
            len |-> len, time |-> now]
  IN  /\ accepted < MaxPut
      /\ ~IsFull
      /\ ~IsWlocked
      /\ db' = RotatedDb(len)
      /\ msgs' = Overwrite(RotatedMsgs(len), m.file, m.pos, EndOf(m)) \cup {m}
      /\ wdb' = [w EXCEPT !.pos = EndOf(m), !.opt_count = @ + 1]
      /\ put_num' = put_num + 1
      /\ rtag' = [rtag EXCEPT ![rdb.cur_index] =
                    Item(rdb, wdb', maxque, delay, wlock)]
      /\ unread_count' = unread_count + IF Fits(len) THEN 1 ELSE 0
      /\ reply' = "QUEUE_PUT_OK"
      /\ accepted' = accepted + 1
      /\ UNCHANGED <<rdb, get_num, config, now, delivered>>

PutOk(len) ==
  LET w == WriteFile(len)
      m == [id |-> accepted + 1, file |-> w.cur_index, pos |-> w.pos,
            len |-> len, time |-> now]
  IN  /\ accepted < MaxPut
      /\ ~IsFull
      /\ ~IsWlocked
      /\ db' = RotatedDb(len)
      /\ msgs' = Overwrite(RotatedMsgs(len), m.file, m.pos, EndOf(m)) \cup {m}
      /\ wdb' = [cur_index |-> w.cur_index, pos |-> EndOf(m),
                 opt_count |-> w.opt_count + 1]
      /\ put_num' = put_num + 1
      /\ rtag' = [rtag EXCEPT ![rdb.cur_index] =
                    Item(rdb, wdb', maxque, delay, wlock)]
      /\ unread_count' = unread_count + 1
      /\ reply' = "QUEUE_PUT_OK"
      /\ accepted' = accepted + 1
      /\ UNCHANGED <<rdb, get_num, config, now, delivered>>

(***************************************************************************)
(* get: mq_qm_pop_item and mq_sm_get_data                                  *)
(***************************************************************************)

\* The messages the scan of mq_sm_get_data reaches.  It starts at the read
\* position, goes on behind the head of each later file, and in the file
\* that is being written it stops MsgHeadLen bytes before the write position.
Reachable ==
  {m \in msgs :
     /\ \/ m.file = rdb.cur_index /\ m.pos >= rdb.pos
        \/ m.file \in (rdb.cur_index + 1) .. wdb.cur_index /\ m.pos >= DbFileHeadLen
     /\ m.file = wdb.cur_index => m.pos + MsgHeadLen < wdb.pos}

\* Mutant of NextMsg: the newest message first.
NewestMsg == CHOOSE m \in Reachable : \A n \in Reachable : n = m \/ Before(n, m)

NextMsg == CHOOSE m \in Reachable : \A n \in Reachable : n = m \/ Before(m, n)

\* Mutant of DelayPassed: one second early.
DelayAlmostPassed(m) == delay = 0 \/ ((now - m.time) % Width) + 1 >= delay

\* The time since the put is an unsigned difference.
DelayPassed(m) == delay = 0 \/ (now - m.time) % Width >= delay

\* cur_rdb when the scan stands at position p of file f: get_next_read_file
\* restarts the count of messages read from the current file.
ReadPos(f, p) ==
  [cur_index |-> f, pos |-> p,
   opt_count |-> IF f = rdb.cur_index THEN rdb.opt_count ELSE 0]

\* Mutants of MovedTo and MovedRtag: the new db file is unlinked too, the old
\* rtag file is not unlinked.
MovedPast(f) ==
  /\ db' = [g \in {h \in DOMAIN db : h > f \/ f = rdb.cur_index} |-> db[g]]
  /\ msgs' = {m \in msgs : m.file > f \/ f = rdb.cur_index}

MovedRtagKept(f) ==
  IF f = rdb.cur_index
  THEN rtag
  ELSE [g \in {f} \cup DOMAIN rtag |->
          Item(ReadPos(f, DbFileHeadLen), wdb, maxque, delay, wlock)]

\* The files once get_next_read_file was called until f was the read file:
\* each call writes an item to the next rtag file, then unlinks the old rtag
\* file and the old db file.
MovedTo(f) ==
  /\ db' = [g \in {h \in DOMAIN db : h >= f} |-> db[g]]
  /\ msgs' = {m \in msgs : m.file >= f}

MovedRtag(f) ==
  IF f = rdb.cur_index
  THEN rtag
  ELSE [g \in {f} |-> Item(ReadPos(f, DbFileHeadLen), wdb, maxque, delay, wlock)]

\* Mutant of GetEmpty: the last message is not seen.
GetEmptyEarly ==
  /\ unread_count <= 1
  /\ reply' = "QUEUE_GET_END"
  /\ UNCHANGED <<files, cursors, counters, config, now, history>>

GetEmpty ==
  /\ unread_count < 1
  /\ reply' = "QUEUE_GET_END"
  /\ UNCHANGED <<files, cursors, counters, config, now, history>>

\* The scan ran into the write position without meeting a message.
GetEnd ==
  /\ unread_count >= 1
  /\ Reachable = {}
  /\ MovedTo(wdb.cur_index)
  /\ rtag' = MovedRtag(wdb.cur_index)
  /\ rdb' = ReadPos(wdb.cur_index, wdb.pos)
  /\ unread_count' = 0
  /\ reply' = "QUEUE_GET_END"
  /\ UNCHANGED <<wdb, put_num, get_num, config, now, history>>

\* Mutant of GetDelayed: the scan moves past the message it refuses.
GetDelayedSkips ==
  /\ unread_count >= 1
  /\ Reachable # {}
  /\ ~DelayPassed(NextMsg)
  /\ MovedTo(NextMsg.file)
  /\ rtag' = MovedRtag(NextMsg.file)
  /\ rdb' = ReadPos(NextMsg.file, EndOf(NextMsg))
  /\ reply' = "QUEUE_GET_END"
  /\ UNCHANGED <<wdb, counters, config, now, history>>

\* The first message met may not be handed out yet.
GetDelayed ==
  /\ unread_count >= 1
  /\ Reachable # {}
  /\ ~DelayPassed(NextMsg)
  /\ MovedTo(NextMsg.file)
  /\ rtag' = MovedRtag(NextMsg.file)
  /\ rdb' = ReadPos(NextMsg.file, NextMsg.pos)
  /\ reply' = "QUEUE_GET_END"
  /\ UNCHANGED <<wdb, counters, config, now, history>>

\* Mutant of GetOk: mq_sm_get_data and its caller both count the message.
GetOkTwiceCounted ==
  LET m == NextMsg
      r == ReadPos(m.file, EndOf(m))
  IN  /\ unread_count >= 1
      /\ Reachable # {}
      /\ DelayPassed(m)
      /\ MovedTo(m.file)
      /\ rdb' = [r EXCEPT !.opt_count = @ + 1]
      /\ rtag' = [MovedRtag(m.file) EXCEPT ![m.file] =
                    Item(rdb', wdb, maxque, delay, wlock)]
      /\ get_num' = get_num + 1
      /\ unread_count' = unread_count - 2
      /\ reply' = "QUEUE_GET_OK"
      /\ delivered' = Append(delivered, m.id)
      /\ UNCHANGED <<wdb, put_num, config, now, accepted>>

GetOk ==
  LET m == NextMsg
      r == ReadPos(m.file, EndOf(m))
  IN  /\ unread_count >= 1
      /\ Reachable # {}
      /\ DelayPassed(m)
      /\ MovedTo(m.file)
      /\ rdb' = [r EXCEPT !.opt_count = @ + 1]
      /\ rtag' = [MovedRtag(m.file) EXCEPT ![m.file] =
                    Item(rdb', wdb, maxque, delay, wlock)]
      /\ get_num' = get_num + 1
      /\ unread_count' = unread_count - 1
      /\ reply' = "QUEUE_GET_OK"
      /\ delivered' = Append(delivered, m.id)
      /\ UNCHANGED <<wdb, put_num, config, now, accepted>>

\* mq_sm_get_data finds nothing to hand out.  It meets the end of the queue
\* with unread_count >= 1 only if start-up counted too many (QueueRecovery).
GetNothing == IF Reachable = {} THEN GetEnd ELSE GetDelayed

Get == GetEmpty \/ GetNothing \/ GetOk

(***************************************************************************)
(* maxqueue, delay, wlock                                                  *)
(***************************************************************************)

\* Each setter ends with an rtag item.
Configured ==
  /\ rtag' = [rtag EXCEPT ![rdb.cur_index] =
                Item(rdb, wdb, maxque', delay', wlock')]
  /\ reply' = "SET_OK"
  /\ UNCHANGED <<db, msgs, cursors, counters, now, history>>

SetMaxQueue(n) ==
  /\ maxque' = n
  /\ UNCHANGED <<delay, wlock>>
  /\ Configured

SetDelay(d) ==
  /\ delay' = d % Width
  /\ UNCHANGED <<maxque, wlock>>
  /\ Configured

\* -1 locks for good, 0 unlocks, another number locks for that many seconds.
SetWlock(w) ==
  /\ wlock' = IF w \in {-1, 0} THEN w ELSE ToInt(now + w)
  /\ UNCHANGED <<maxque, delay>>
  /\ Configured

(***************************************************************************)
(* The specification                                                       *)
(***************************************************************************)

\* What mq_sm_creat_db and init_queue make: both cursors behind the head of
\* db_1, whose head is all zero.
NewMap == [cur_index |-> 1, pos |-> DbFileHeadLen, opt_count |-> 0]
NewDb == [f \in {1} |-> 0]

\* mq_sm_creat_db writes the first rtag item before init_queue has set the
\* positions.
NewRtag ==
  [f \in {1} |-> [rcount |-> 0, rpos |-> 0, wpos |-> 0,
                  maxque |-> DefMaxQueue, delay |-> DefDelay, wlock |-> 0]]

\* A queue mq_qm_add_queue has just made.
Init ==
  /\ rdb = NewMap
  /\ wdb = NewMap
  /\ db = NewDb
  /\ msgs = {}
  /\ maxque = DefMaxQueue /\ delay = DefDelay /\ wlock = 0
  /\ rtag = NewRtag
  /\ unread_count = 0 /\ put_num = 0 /\ get_num = 0
  /\ now = 0
  /\ reply = "NONE"
  /\ accepted = 0
  /\ delivered = << >>

Tick ==
  /\ now < MaxTime
  /\ now' = now + 1
  /\ UNCHANGED <<files, cursors, counters, config, reply, history>>

Next ==
  \/ PutFull
  \/ PutWlocked
  \/ \E len \in Lens : PutNoSpace(len)
  \/ \E len \in Lens : PutOk(len)
  \/ Get
  \/ \E n \in MaxQueues : SetMaxQueue(n)
  \/ \E d \in Delays : SetDelay(d)
  \/ \E w \in Wlocks : SetWlock(w)
  \/ Tick

Spec == Init /\ [][Next]_vars

(***************************************************************************)
(* Properties                                                              *)
(***************************************************************************)

\* The messages that were accepted and not handed out.
Pending == (1 .. accepted) \ {delivered[i] : i \in DOMAIN delivered}

\* No acknowledged message is lost and none is handed out again: what gets
\* still reach is what was accepted and not delivered, across any rotation
\* (get_next_write_file) and any unlinking (get_next_read_file).
NothingLost == {m.id : m \in Reachable} = Pending

\* unread_count, which mq_qm_pop_item and the limit of mq_qm_push_item rely
\* on and which put and get maintain in different files of the code, is the
\* number of messages gets still reach.
UnreadIsExact == unread_count = Cardinality(Reachable)

\* Messages never share a byte with each other or with a file head, and end
\* before the write position of the file being written and the file's end.
NoOverlap ==
  \A m \in msgs :
    /\ DbFileHeadLen <= m.pos
    /\ EndOf(m) <= IF m.file = wdb.cur_index THEN wdb.pos ELSE MaxDbFileSize
    /\ \A n \in msgs : Before(m, n) /\ m.file = n.file => EndOf(m) <= n.pos

\* The directory always has the shape find_handle_file expects at the next
\* start: every db file from the read file to the write file and no other,
\* and the one rtag file with the number of the read file.
FilesMatchCursors ==
  /\ DOMAIN db = rdb.cur_index .. wdb.cur_index
  /\ DOMAIN rtag = {rdb.cur_index}

InFile(f) == {m \in msgs : m.file = f}

\* mq_sm_get_msg_count may trust the head of a file that puts have left: it
\* holds the number of its messages.  The head of the file being written holds
\* 0, which makes mq_sm_get_msg_count scan it, or what a refused rotation noted,
\* which may be too few when shorter messages followed, never too many.  And
\* cur_wdb counts the messages the next rotation will note.
HeadsCount ==
  /\ \A f \in DOMAIN db \ {wdb.cur_index} : db[f] = Cardinality(InFile(f))
  /\ db[wdb.cur_index] <= wdb.opt_count
  /\ wdb.opt_count = Cardinality(InFile(wdb.cur_index))

\* Between two requests the last rtag item describes the queue: a server that
\* started from it would reach the same messages, count the same number of
\* read ones, append at the same place and keep the same settings.  The one
\* exception is the item of a new queue, written before its positions are set.
RtagDescribesQueue ==
  LET item == rtag[rdb.cur_index]
  IN  /\ {m \in InFile(rdb.cur_index) : m.pos >= item.rpos}
           = {m \in InFile(rdb.cur_index) : m.pos >= rdb.pos}
      /\ item.rpos <= rdb.pos
      /\ item.rcount = rdb.opt_count
      /\ item.wpos = wdb.pos \/ (item.wpos = 0 /\ put_num = 0)
      /\ <<item.maxque, item.delay, ToInt(item.wlock)>> = config

\* A get is answered "empty" only if no message was there that could be
\* handed out: the early return of mq_qm_pop_item and the end-of-queue test of
\* mq_sm_get_data never hide one.
EmptyIsTrue ==
  [][Get /\ reply' = "QUEUE_GET_END" =>
       Reachable = {} \/ ~DelayPassed(NextMsg)]_vars

\* A message is handed out no earlier than its delay after its put, although
\* the code subtracts unsigned numbers.
DelayIsKept ==
  [][GetOk => delay = 0 \/ now >= NextMsg.time + delay]_vars

(***************************************************************************)
(* The inductive invariant behind the safety properties: messages lie in   *)
(* the files in the order of their numbers, and the read cursor stands     *)
(* between the last one handed out and the next.                           *)
(***************************************************************************)

CursorsInFiles ==
  /\ rdb.cur_index <= wdb.cur_index
  /\ DbFileHeadLen <= rdb.pos
  /\ DbFileHeadLen <= wdb.pos /\ wdb.pos <= MaxDbFileSize
  /\ rdb.cur_index = wdb.cur_index => rdb.pos <= wdb.pos

MsgsInFiles ==
  \A m \in msgs :
    /\ rdb.cur_index <= m.file /\ m.file <= wdb.cur_index
    /\ DbFileHeadLen <= m.pos /\ EndOf(m) <= MaxDbFileSize
    /\ m.file = wdb.cur_index => EndOf(m) <= wdb.pos
    /\ m.time <= now

MsgsInOrder ==
  \A m, n \in msgs :
    /\ m.id = n.id => m = n
    /\ m.id < n.id => m.file < n.file \/ (m.file = n.file /\ EndOf(m) <= n.pos)

CursorBetween ==
  \A m \in msgs :
    /\ m.id <= get_num => m.file = rdb.cur_index /\ EndOf(m) <= rdb.pos
    /\ m.id > get_num => m.file > rdb.cur_index \/ rdb.pos <= m.pos

NumbersStored ==
  /\ \A m \in msgs : 1 <= m.id /\ m.id <= accepted
  /\ \A i \in (get_num + 1) .. accepted : \E m \in msgs : m.id = i

CountersAgree ==
  /\ put_num = accepted
  /\ get_num <= accepted
  /\ unread_count = accepted - get_num
  /\ Len(delivered) = get_num
  /\ \A i \in 1 .. get_num : delivered[i] = i

IInv ==
  /\ TypeOK
  /\ CursorsInFiles
  /\ FilesMatchCursors
  /\ MsgsInFiles
  /\ MsgsInOrder
  /\ CursorBetween
  /\ NumbersStored
  /\ CountersAgree

\* The queue seen from outside: the messages gets still reach, in scan order.
FifoOf(S) ==
  [i \in 1 .. Cardinality(S) |->
     (CHOOSE m \in S : Cardinality({n \in S : Before(n, m)}) = i - 1).id]

Fifo == INSTANCE FifoQueue WITH queue <- FifoOf(Reachable)

\* The files and cursors implement a first-in first-out queue.
ImplementsFifo == Fifo!FifoSpec

\* Consumers poll and the clock runs.
FairSpec == Spec /\ WF_vars(Get) /\ WF_vars(Tick)

NothingDelayed == \A m \in Reachable : DelayPassed(m)

\* Polling consumers get every message once no delay holds one back any more.
QueueDrains == <>[]NothingDelayed => <>[](Len(delivered) = accepted)
==============================================================================
