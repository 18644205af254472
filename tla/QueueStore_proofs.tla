--------------------------- MODULE QueueStore_proofs ---------------------------
(***************************************************************************)
(* Proofs about QueueStore, for every file size, head size, set of lengths *)
(* and settings, any number of messages and any time.                      *)
(***************************************************************************)
EXTENDS QueueStore, FiniteSetTheorems, TLAPS

\* Conversion to uint32_t.
LEMMA ModNat ==
  ASSUME NEW x \in Int
  PROVE  x % Width \in Nat
BY ConfigAssumption, SMT

\* The conversion to int gives an integer.
LEMMA ToIntType ==
  ASSUME NEW x \in Int
  PROVE  ToInt(x) \in Int
<1>1. x % Width \in Nat
  BY ModNat
<1>2. Width \div 2 \in Int
  BY ConfigAssumption, SMT
<1>. QED
  BY <1>1, <1>2, ConfigAssumption DEF ToInt

\* What mq_sm_rtag_write_item appends is an item.
LEMMA ItemType ==
  ASSUME NEW r \in DbMap, NEW w \in DbMap, NEW mq \in Nat, NEW d \in Nat,
         NEW wl \in Int
  PROVE  Item(r, w, mq, d, wl) \in RtagItem
BY ModNat DEF Item, RtagItem, DbMap

\* A body has at least one byte and fits in an empty file.
LEMMA LenBound ==
  ASSUME NEW len \in Lens
  PROVE  /\ len \in Nat /\ len >= 1
         /\ DbFileHeadLen + len + MsgHeadLen <= MaxDbFileSize
<1>1. MaxDbFileSize - DbFileHeadLen - MsgHeadLen \in Int
  BY SizeAssumption
<1>2. len \in 1 .. (MaxDbFileSize - DbFileHeadLen - MsgHeadLen)
  BY SizeAssumption
<1>. QED
  BY <1>1, <1>2, SizeAssumption

\* The head of a message and its body take at least two bytes.
LEMMA EndOfBound ==
  ASSUME NEW m \in Message
  PROVE  EndOf(m) \in Nat /\ m.pos + MsgHeadLen < EndOf(m)
<1>1. m.pos \in Nat /\ m.len \in Lens
  BY DEF Message
<1>2. m.len \in Nat /\ m.len >= 1
  BY <1>1, LenBound
<1>. QED
  BY <1>1, <1>2, SizeAssumption DEF EndOf

\* The initial state satisfies the invariant.
LEMMA InitIInv == Init => IInv
<1>. SUFFICES ASSUME Init
              PROVE  IInv
  OBVIOUS
<1>. USE SizeAssumption, ConfigAssumption DEF Init, NewMap, NewDb, NewRtag
<1>1. TypeOK
  BY DEF TypeOK, DbTypeOK, RtagTypeOK, DescriptorTypeOK, DbMap, RtagItem, Replies
<1>2. CursorsInFiles /\ FilesMatchCursors
  BY DEF CursorsInFiles, FilesMatchCursors
<1>3. MsgsInFiles /\ MsgsInOrder /\ CursorBetween /\ NumbersStored
  BY DEF MsgsInFiles, MsgsInOrder, CursorBetween, NumbersStored
<1>4. CountersAgree
  BY DEF CountersAgree
<1>. QED
  BY <1>1, <1>2, <1>3, <1>4 DEF IInv

(***************************************************************************)
(* What a get finds                                                        *)
(***************************************************************************)

\* Under the invariant a scan reaches exactly the messages that were not
\* handed out.
LEMMA ReachableIsNew ==
  ASSUME IInv
  PROVE  Reachable = {m \in msgs : m.id > get_num}
<1>1. ASSUME NEW m \in msgs
      PROVE  m \in Reachable <=> m.id > get_num
  <2>1. m \in Message /\ rdb \in DbMap /\ wdb \in DbMap /\ get_num \in Nat
    BY DEF IInv, TypeOK, DbTypeOK, DescriptorTypeOK
  <2>2. EndOf(m) \in Nat /\ m.pos + MsgHeadLen < EndOf(m)
    BY <2>1, EndOfBound
  <2>3. /\ rdb.cur_index <= m.file /\ m.file <= wdb.cur_index
        /\ DbFileHeadLen <= m.pos
        /\ m.file = wdb.cur_index => EndOf(m) <= wdb.pos
    BY DEF IInv, MsgsInFiles
  <2>4. /\ m.id <= get_num => m.file = rdb.cur_index /\ EndOf(m) <= rdb.pos
        /\ m.id > get_num => m.file > rdb.cur_index \/ rdb.pos <= m.pos
    BY DEF IInv, CursorBetween
  <2>5. m.file = wdb.cur_index => m.pos + MsgHeadLen < wdb.pos
    BY <2>1, <2>2, <2>3, SizeAssumption DEF Message, DbMap
  <2>6. CASE m.id > get_num
    BY <2>1, <2>3, <2>4, <2>5, <2>6 DEF Reachable, Message, DbMap
  <2>7. CASE m.id <= get_num
    BY <2>1, <2>2, <2>4, <2>7, SizeAssumption DEF Reachable, Message, DbMap
  <2>. QED
    BY <2>1, <2>6, <2>7 DEF Message
<1>. QED
  BY <1>1 DEF Reachable

\* While unread_count is not 0 the scan meets the oldest message that was not
\* handed out, and meets it first.
LEMMA NextIsOldest ==
  ASSUME IInv, unread_count >= 1
  PROVE  /\ NextMsg \in Reachable
         /\ NextMsg.id = get_num + 1
<1>1. get_num \in Nat /\ accepted \in Nat /\ unread_count = accepted - get_num
  BY DEF IInv, TypeOK, DescriptorTypeOK, CountersAgree
<1>2. PICK m \in msgs : m.id = get_num + 1
  BY <1>1 DEF IInv, NumbersStored
<1>3. m \in Reachable
  BY <1>1, <1>2, ReachableIsNew
<1>4. ASSUME NEW n \in Reachable
      PROVE  /\ n = m \/ Before(m, n)
             /\ n = m \/ ~Before(n, m)
  <2>1. n \in msgs /\ n.id > get_num
    BY ReachableIsNew
  <2>2. n \in Message /\ m \in Message
    BY <2>1, <1>2 DEF IInv, TypeOK, DbTypeOK
  <2>3. n.id = m.id \/ m.id < n.id
    BY <2>1, <2>2, <1>1, <1>2 DEF Message
  <2>4. n.id = m.id => n = m
    BY <2>1, <1>2 DEF IInv, MsgsInOrder
  <2>5. m.id < n.id => m.file < n.file \/ (m.file = n.file /\ EndOf(m) <= n.pos)
    BY <2>1, <1>2 DEF IInv, MsgsInOrder
  <2>6. EndOf(m) \in Nat /\ m.pos + MsgHeadLen < EndOf(m)
    BY <2>2, EndOfBound
  <2>. QED
    BY <2>2, <2>3, <2>4, <2>5, <2>6, SizeAssumption DEF Before, Message
<1>5. \E x \in Reachable : \A n \in Reachable : n = x \/ Before(x, n)
  BY <1>3, <1>4
<1>6. NextMsg \in Reachable /\ \A n \in Reachable : n = NextMsg \/ Before(NextMsg, n)
  BY <1>5 DEF NextMsg
<1>7. NextMsg = m
  BY <1>3, <1>4, <1>6
<1>. QED
  BY <1>2, <1>3, <1>7

(***************************************************************************)
(* The steps                                                               *)
(***************************************************************************)

\* The head of a db file holds no message: writing a count there changes none.
LEMMA NoSpaceKeeps ==
  ASSUME IInv, NEW len \in Lens, PutNoSpace(len)
  PROVE  /\ msgs' = msgs
         /\ db' = RefusedDb
         /\ wdb.cur_index \in DOMAIN db /\ wdb.opt_count \in Nat
         /\ DOMAIN db' = DOMAIN db
         /\ UNCHANGED <<rtag, rdb, wdb, unread_count, put_num, get_num,
                        maxque, delay, wlock, now, accepted, delivered>>
         /\ reply' = "QUEUE_PUT_ERROR"
<1>1. /\ db' = RefusedDb /\ msgs' = RefusedMsgs
      /\ UNCHANGED <<rtag, rdb, wdb, unread_count, put_num, get_num,
                     maxque, delay, wlock, now, accepted, delivered>>
      /\ reply' = "QUEUE_PUT_ERROR"
  BY DEF PutNoSpace, cursors, counters, config, history
<1>2. RefusedMsgs = msgs
  BY DEF RefusedMsgs, Overwrite, IInv, MsgsInFiles
<1>3. wdb.cur_index \in DOMAIN db /\ wdb.opt_count \in Nat
  BY DEF IInv, FilesMatchCursors, CursorsInFiles, TypeOK, DescriptorTypeOK, DbMap
<1>. QED
  BY <1>1, <1>2, <1>3 DEF RefusedDb

\* A refused put, a get on a queue whose counter is 0 and a tick of the clock
\* change nothing the invariant depends on but the time and a count in a head.
LEMMA QuietStep ==
  ASSUME IInv,
         \/ PutFull \/ PutWlocked \/ GetEmpty \/ Tick \/ UNCHANGED vars
         \/ \E len \in Lens : PutNoSpace(len)
  PROVE  IInv'
<1>1. /\ UNCHANGED <<msgs, rtag, rdb, wdb, unread_count, put_num, get_num,
                     maxque, delay, wlock, accepted, delivered>>
      /\ DOMAIN db' = DOMAIN db
      /\ \A f \in DOMAIN db' : db'[f] \in Nat
      /\ now' \in Nat /\ now <= now'
      /\ reply' \in Replies
  <2>1. CASE PutFull \/ PutWlocked \/ GetEmpty \/ Tick \/ UNCHANGED vars
    BY <2>1 DEF IInv, TypeOK, DbTypeOK, DescriptorTypeOK, Replies, PutFull, PutWlocked,
                GetEmpty, Tick, vars, files, cursors, counters, config, history
  <2>2. ASSUME NEW len \in Lens, PutNoSpace(len)
        PROVE  /\ UNCHANGED <<msgs, rtag, rdb, wdb, unread_count, put_num, get_num,
                              maxque, delay, wlock, accepted, delivered>>
               /\ DOMAIN db' = DOMAIN db
               /\ \A f \in DOMAIN db' : db'[f] \in Nat
               /\ now' \in Nat /\ now <= now'
               /\ reply' \in Replies
    <3>1. /\ UNCHANGED <<msgs, rtag, rdb, wdb, unread_count, put_num, get_num,
                         maxque, delay, wlock, now, accepted, delivered>>
          /\ DOMAIN db' = DOMAIN db /\ db' = RefusedDb
          /\ wdb.opt_count \in Nat
          /\ reply' = "QUEUE_PUT_ERROR"
      BY <2>2, NoSpaceKeeps, Zenon
    <3>2. \A f \in DOMAIN db' : db'[f] \in Nat
      BY <3>1 DEF RefusedDb, IInv, TypeOK, DbTypeOK
    <3>3. now' \in Nat /\ now <= now'
      BY <3>1 DEF IInv, TypeOK, DescriptorTypeOK
    <3>4. reply' \in Replies
      BY <3>1 DEF Replies
    <3>. QED
      BY <3>1, <3>2, <3>3, <3>4
  <2>. QED
    BY <2>1, <2>2
<1>2. TypeOK'
  BY <1>1 DEF IInv, TypeOK, DbTypeOK, RtagTypeOK, DescriptorTypeOK
<1>3. /\ CursorsInFiles' /\ FilesMatchCursors' /\ MsgsInOrder' /\ CursorBetween'
      /\ NumbersStored' /\ CountersAgree'
  BY <1>1 DEF IInv, CursorsInFiles, FilesMatchCursors, MsgsInOrder, CursorBetween,
              NumbersStored, CountersAgree, EndOf
<1>4. MsgsInFiles'
  <2>1. ASSUME NEW m \in msgs
        PROVE  m.time <= now'
    BY <1>1 DEF IInv, MsgsInFiles, TypeOK, DbTypeOK, DescriptorTypeOK, Message
  <2>. QED
    BY <2>1, <1>1 DEF IInv, MsgsInFiles, EndOf
<1>. QED
  BY <1>2, <1>3, <1>4 DEF IInv

\* The setters change the settings and the last rtag item.
LEMMA SetStep ==
  ASSUME IInv,
         \/ \E n \in MaxQueues : SetMaxQueue(n)
         \/ \E d \in Delays : SetDelay(d)
         \/ \E w \in Wlocks : SetWlock(w)
  PROVE  IInv'
<1>1. maxque' \in Nat /\ delay' \in Nat /\ wlock' \in Int
  <2>1. maxque \in Nat /\ delay \in Nat /\ wlock \in Int /\ now \in Nat
    BY DEF IInv, TypeOK, DescriptorTypeOK
  <2>2. CASE \E n \in MaxQueues : SetMaxQueue(n)
    BY <2>1, <2>2, ConfigAssumption DEF SetMaxQueue
  <2>3. CASE \E d \in Delays : SetDelay(d)
    BY <2>1, <2>3, ModNat, ConfigAssumption DEF SetDelay
  <2>4. CASE \E w \in Wlocks : SetWlock(w)
    <3>1. PICK w \in Wlocks : SetWlock(w)
      BY <2>4
    <3>2. w \in Int /\ now + w \in Int
      BY <2>1, ConfigAssumption
    <3>3. ToInt(now + w) \in Int
      BY <3>2, ToIntType
    <3>. QED
      BY <2>1, <3>1, <3>2, <3>3 DEF SetWlock
  <2>. QED
    BY <2>2, <2>3, <2>4
<1>2. Configured
  BY DEF SetMaxQueue, SetDelay, SetWlock
<1>3. /\ UNCHANGED <<db, msgs, rdb, wdb, unread_count, put_num, get_num, now,
                     accepted, delivered>>
      /\ reply' \in Replies
      /\ rtag' = [rtag EXCEPT ![rdb.cur_index] = Item(rdb, wdb, maxque', delay', wlock')]
  BY <1>2 DEF Configured, cursors, counters, history, Replies
<1>4. Item(rdb, wdb, maxque', delay', wlock') \in RtagItem
  BY <1>1, ItemType DEF IInv, TypeOK, DescriptorTypeOK
<1>5. TypeOK'
  BY <1>1, <1>3, <1>4 DEF IInv, TypeOK, DbTypeOK, RtagTypeOK, DescriptorTypeOK
<1>6. FilesMatchCursors'
  BY <1>3 DEF IInv, FilesMatchCursors
<1>7. /\ CursorsInFiles' /\ MsgsInFiles' /\ MsgsInOrder' /\ CursorBetween'
      /\ NumbersStored' /\ CountersAgree'
  BY <1>3 DEF IInv, CursorsInFiles, MsgsInFiles, MsgsInOrder, CursorBetween,
              NumbersStored, CountersAgree, EndOf
<1>. QED
  BY <1>5, <1>6, <1>7 DEF IInv

\* The message a put stores.
NewMsg(len) ==
  [id |-> accepted + 1, file |-> WriteFile(len).cur_index,
   pos |-> WriteFile(len).pos, len |-> len, time |-> now]

\* Where a put writes: behind all messages of the write file or at the start
\* of a new one.
LEMMA WritePlace ==
  ASSUME IInv, NEW len \in Lens
  PROVE  LET w == WriteFile(len)
         IN  /\ w \in DbMap
             /\ w = wdb \/ (w.cur_index = wdb.cur_index + 1 /\ w.pos = DbFileHeadLen)
             /\ DbFileHeadLen <= w.pos
             /\ w.pos + MsgHeadLen + len <= MaxDbFileSize
<1>1. wdb \in DbMap /\ DbFileHeadLen <= wdb.pos
  BY DEF IInv, TypeOK, DescriptorTypeOK, CursorsInFiles
<1>2. /\ len \in Nat /\ len >= 1
      /\ DbFileHeadLen + len + MsgHeadLen <= MaxDbFileSize
  BY LenBound
<1>3. CASE Fits(len)
  <2>1. WriteFile(len) = wdb
    BY <1>3 DEF WriteFile
  <2>2. wdb.pos + len + MsgHeadLen <= MaxDbFileSize
    BY <1>3 DEF Fits
  <2>. QED
    BY <1>1, <1>2, <2>1, <2>2, SizeAssumption DEF DbMap
<1>4. CASE ~Fits(len)
  <2>1. WriteFile(len) = [cur_index |-> wdb.cur_index + 1, pos |-> DbFileHeadLen,
                          opt_count |-> 0]
    BY <1>4 DEF WriteFile
  <2>. QED
    BY <1>1, <1>2, <2>1, SizeAssumption DEF DbMap
<1>. QED
  BY <1>3, <1>4

\* A put destroys no message: neither the head nor the body it writes covers
\* one.
LEMMA PutKeeps ==
  ASSUME IInv, NEW len \in Lens, PutOk(len)
  PROVE  msgs' = msgs \cup {NewMsg(len)}
<1>. DEFINE w == WriteFile(len)
            m == NewMsg(len)
<1>1. /\ w \in DbMap
      /\ w = wdb \/ (w.cur_index = wdb.cur_index + 1 /\ w.pos = DbFileHeadLen)
  BY WritePlace
<1>2. wdb \in DbMap /\ len \in Nat
  BY LenBound DEF IInv, TypeOK, DescriptorTypeOK
<1>3. ASSUME NEW n \in msgs
      PROVE  /\ n \in Message /\ EndOf(n) \in Nat
             /\ n.file <= wdb.cur_index /\ DbFileHeadLen <= n.pos
             /\ n.file = wdb.cur_index => EndOf(n) <= wdb.pos
  BY EndOfBound DEF IInv, TypeOK, DbTypeOK, MsgsInFiles
<1>4. RotatedMsgs(len) = msgs
  <2>1. ASSUME NEW n \in msgs
        PROVE  n.file # wdb.cur_index + 1 /\ DbFileHeadLen <= n.pos
    BY <1>2, <1>3 DEF Message, DbMap
  <2>. QED
    BY <2>1 DEF RotatedMsgs, Overwrite
<1>5. m.file = w.cur_index /\ m.pos = w.pos
  BY DEF NewMsg
<1>6. ASSUME NEW n \in msgs
      PROVE  n.file # m.file \/ EndOf(n) <= m.pos
  BY <1>1, <1>2, <1>3, <1>5 DEF Message, DbMap
<1>7. Overwrite(msgs, m.file, m.pos, EndOf(m)) = msgs
  BY <1>6 DEF Overwrite
<1>8. msgs' = Overwrite(RotatedMsgs(len), m.file, m.pos, EndOf(m)) \cup {m}
  BY DEF PutOk, NewMsg
<1>. QED
  BY <1>4, <1>7, <1>8

\* An accepted put keeps the invariant.
LEMMA PutStep ==
  ASSUME IInv, NEW len \in Lens, PutOk(len)
  PROVE  IInv'
<1>. DEFINE w == WriteFile(len)
            m == NewMsg(len)
<1>1. /\ rdb \in DbMap /\ wdb \in DbMap
      /\ now \in Nat /\ accepted \in Nat /\ get_num \in Nat /\ put_num \in Nat
      /\ unread_count \in Nat /\ maxque \in Nat /\ delay \in Nat /\ wlock \in Int
      /\ reply \in Replies /\ delivered \in Seq(Nat)
  BY DEF IInv, TypeOK, DescriptorTypeOK
<1>2. /\ w \in DbMap
      /\ w = wdb \/ (w.cur_index = wdb.cur_index + 1 /\ w.pos = DbFileHeadLen)
      /\ DbFileHeadLen <= w.pos
      /\ w.pos + MsgHeadLen + len <= MaxDbFileSize
  BY WritePlace
<1>3. /\ m \in Message
      /\ m.id = accepted + 1 /\ m.file = w.cur_index /\ m.pos = w.pos /\ m.time = now
      /\ EndOf(m) = w.pos + MsgHeadLen + len
  BY <1>1, <1>2 DEF NewMsg, Message, DbMap, EndOf
<1>4. EndOf(m) \in Nat /\ m.pos + MsgHeadLen < EndOf(m)
  BY <1>3, EndOfBound
<1>5. msgs' = msgs \cup {m}
  BY PutKeeps
<1>6. /\ wdb' = [cur_index |-> w.cur_index, pos |-> EndOf(m), opt_count |-> w.opt_count + 1]
      /\ put_num' = put_num + 1 /\ unread_count' = unread_count + 1
      /\ accepted' = accepted + 1 /\ reply' = "QUEUE_PUT_OK"
      /\ rtag' = [rtag EXCEPT ![rdb.cur_index] = Item(rdb, wdb', maxque, delay, wlock)]
      /\ db' = RotatedDb(len)
      /\ UNCHANGED <<rdb, get_num, maxque, delay, wlock, now, delivered>>
  BY DEF PutOk, NewMsg, config
<1>7. wdb' \in DbMap /\ wdb'.cur_index = w.cur_index /\ wdb'.pos = EndOf(m)
  BY <1>2, <1>4, <1>6 DEF DbMap
<1>8. wdb.cur_index <= w.cur_index
  BY <1>1, <1>2 DEF DbMap
<1>9. /\ rdb.cur_index <= wdb.cur_index /\ DbFileHeadLen <= rdb.pos
      /\ rdb.cur_index = wdb.cur_index => rdb.pos <= wdb.pos
      /\ wdb.pos <= MaxDbFileSize
  BY DEF IInv, CursorsInFiles
<1>10. ASSUME NEW n \in msgs
       PROVE  /\ n \in Message /\ EndOf(n) \in Nat
              /\ n.file <= wdb.cur_index
              /\ n.file = wdb.cur_index => EndOf(n) <= wdb.pos
              /\ n.id <= accepted /\ rdb.cur_index <= n.file
              /\ DbFileHeadLen <= n.pos /\ EndOf(n) <= MaxDbFileSize /\ n.time <= now
  BY EndOfBound DEF IInv, TypeOK, DbTypeOK, MsgsInFiles, NumbersStored
<1>11. DOMAIN db' = rdb.cur_index .. w.cur_index /\ \A f \in DOMAIN db' : db'[f] \in Nat
  <2>1. DOMAIN db = rdb.cur_index .. wdb.cur_index /\ \A f \in DOMAIN db : db[f] \in Nat
    BY DEF IInv, TypeOK, DbTypeOK, FilesMatchCursors
  <2>2. CASE Fits(len)
    BY <2>1, <2>2, <1>6 DEF RotatedDb, WriteFile
  <2>3. CASE ~Fits(len)
    <3>1. w.cur_index = wdb.cur_index + 1
      BY <2>3 DEF WriteFile
    <3>2. DOMAIN db' = DOMAIN db \cup {wdb.cur_index + 1}
      BY <2>3, <1>6 DEF RotatedDb
    <3>3. DOMAIN db' = rdb.cur_index .. w.cur_index
      BY <2>1, <3>1, <3>2, <1>1, <1>9 DEF DbMap
    <3>4. ASSUME NEW f \in DOMAIN db'
          PROVE  db'[f] \in Nat
      BY <2>1, <2>3, <3>2, <1>1, <1>6 DEF RotatedDb, DbMap
    <3>. QED
      BY <3>3, <3>4
  <2>. QED
    BY <2>2, <2>3
<1>12. TypeOK'
  <2>1. Item(rdb, wdb', maxque, delay, wlock) \in RtagItem
    BY <1>1, <1>7, ItemType
  <2>2. RtagTypeOK(RtagItem)'
    BY <2>1, <1>6 DEF IInv, TypeOK, RtagTypeOK
  <2>3. DbTypeOK'
    <3>1. DOMAIN db' \subseteq Nat
      BY <1>1, <1>2, <1>11 DEF DbMap
    <3>. QED
      BY <3>1, <1>3, <1>5, <1>11 DEF IInv, TypeOK, DbTypeOK
  <2>4. DescriptorTypeOK'
    BY <1>1, <1>6, <1>7 DEF DescriptorTypeOK, Replies
  <2>. QED
    BY <2>2, <2>3, <2>4 DEF TypeOK
<1>13. CursorsInFiles'
  <2>1. rdb.cur_index = w.cur_index => w = wdb
    BY <1>1, <1>2, <1>9 DEF DbMap
  <2>2. rdb.cur_index = w.cur_index => rdb.pos <= EndOf(m)
    BY <2>1, <1>1, <1>2, <1>3, <1>4, <1>9, SizeAssumption DEF DbMap
  <2>3. DbFileHeadLen <= EndOf(m) /\ EndOf(m) <= MaxDbFileSize
    BY <1>2, <1>3, <1>4, SizeAssumption DEF DbMap
  <2>. QED
    BY <2>2, <2>3, <1>1, <1>2, <1>6, <1>7, <1>8, <1>9 DEF CursorsInFiles, DbMap
<1>14. FilesMatchCursors'
  BY <1>6, <1>7, <1>11 DEF IInv, FilesMatchCursors
<1>15. MsgsInFiles'
  <2>1. ASSUME NEW n \in msgs, n.file = w.cur_index
        PROVE  EndOf(n) <= EndOf(m)
    <3>1. /\ n.file \in Nat /\ n.file <= wdb.cur_index /\ EndOf(n) \in Nat
          /\ n.file = wdb.cur_index => EndOf(n) <= wdb.pos
      BY <1>10 DEF Message
    <3>2. w = wdb
      BY <2>1, <3>1, <1>1, <1>2 DEF DbMap
    <3>3. EndOf(n) <= m.pos
      BY <2>1, <3>1, <3>2, <1>3
    <3>4. m.pos \in Nat /\ m.pos <= EndOf(m)
      BY <1>3, <1>4, SizeAssumption DEF Message
    <3>. QED
      BY <3>1, <3>3, <3>4, <1>4
  <2>2. ASSUME NEW n \in msgs
        PROVE  n.file <= w.cur_index
    <3>1. wdb.cur_index \in Nat /\ w.cur_index \in Nat
      BY <1>1, <1>2 DEF DbMap
    <3>2. n.file \in Nat /\ n.file <= wdb.cur_index
      BY <1>10 DEF Message
    <3>. QED
      BY <3>1, <3>2, <1>8
  <2>3. EndOf(m) <= MaxDbFileSize /\ rdb.cur_index <= m.file
    <3>1. EndOf(m) <= MaxDbFileSize
      BY <1>2, <1>3
    <3>2. rdb.cur_index \in Nat /\ wdb.cur_index \in Nat /\ w.cur_index \in Nat
      BY <1>1, <1>2 DEF DbMap
    <3>3. rdb.cur_index <= w.cur_index
      BY <3>2, <1>8, <1>9
    <3>. QED
      BY <3>1, <3>3, <1>3
  <2>4. ASSUME NEW n \in msgs'
        PROVE  /\ rdb.cur_index <= n.file /\ n.file <= w.cur_index
               /\ DbFileHeadLen <= n.pos /\ EndOf(n) <= MaxDbFileSize
               /\ n.file = w.cur_index => EndOf(n) <= EndOf(m)
               /\ n.time <= now
    <3>1. CASE n \in msgs
      BY <3>1, <2>1, <2>2, <1>10
    <3>2. CASE n = m
      <4>1. m.file \in Nat /\ m.file <= w.cur_index /\ m.time <= now
        BY <1>1, <1>3 DEF Message
      <4>2. DbFileHeadLen <= m.pos /\ EndOf(m) <= EndOf(m)
        BY <1>2, <1>3, <1>4
      <4>. QED
        BY <3>2, <4>1, <4>2, <2>3
    <3>. QED
      BY <3>1, <3>2, <1>5
  <2>. QED
    BY <2>4, <1>6, <1>7 DEF MsgsInFiles, EndOf
<1>16. MsgsInOrder'
  <2>1. ASSUME NEW n \in msgs
        PROVE  n.id \in Nat /\ n.id < m.id
    BY <1>1, <1>3, <1>10 DEF Message
  <2>2. ASSUME NEW n \in msgs
        PROVE  n.file < m.file \/ (n.file = m.file /\ EndOf(n) <= m.pos)
    <3>1. /\ n.file \in Nat /\ n.file <= wdb.cur_index
          /\ n.file = wdb.cur_index => EndOf(n) <= wdb.pos
      BY <1>10 DEF Message
    <3>2. CASE w = wdb
      BY <3>1, <3>2, <1>1, <1>3 DEF DbMap
    <3>3. CASE w.cur_index = wdb.cur_index + 1
      BY <3>1, <3>3, <1>1, <1>3 DEF DbMap
    <3>. QED
      BY <3>2, <3>3, <1>2
  <2>3. ASSUME NEW a \in msgs', NEW b \in msgs'
        PROVE  /\ a.id = b.id => a = b
               /\ a.id < b.id => a.file < b.file \/ (a.file = b.file /\ EndOf(a) <= b.pos)
    <3>1. CASE a \in msgs /\ b \in msgs
      BY <3>1 DEF IInv, MsgsInOrder
    <3>2. CASE a \in msgs /\ b = m
      BY <3>2, <2>1, <2>2, <1>1, <1>3
    <3>3. CASE a = m /\ b \in msgs
      BY <3>3, <2>1, <1>1, <1>3
    <3>4. CASE a = m /\ b = m
      BY <3>4, <1>1, <1>3
    <3>. QED
      BY <3>1, <3>2, <3>3, <3>4, <1>5
  <2>. QED
    BY <2>3 DEF MsgsInOrder, EndOf
<1>17. CursorBetween'
  <2>1. get_num < m.id
    BY <1>1, <1>3 DEF IInv, CountersAgree
  <2>2. m.file > rdb.cur_index \/ rdb.pos <= m.pos
    BY <1>1, <1>2, <1>3, <1>9 DEF DbMap
  <2>. QED
    BY <2>1, <2>2, <1>1, <1>3, <1>5, <1>6 DEF IInv, CursorBetween, EndOf
<1>18. NumbersStored'
  <2>1. \A n \in msgs' : 1 <= n.id /\ n.id <= accepted'
    BY <1>1, <1>3, <1>5, <1>6, <1>10 DEF IInv, NumbersStored, Message
  <2>2. ASSUME NEW i \in (get_num' + 1) .. accepted'
        PROVE  \E n \in msgs' : n.id = i
    <3>1. /\ get_num \in Nat /\ accepted \in Nat /\ i \in Int
          /\ get_num + 1 <= i /\ i <= accepted + 1
      BY <1>1, <1>6
    <3>2. \A k \in (get_num + 1) .. accepted : \E n \in msgs : n.id = k
      BY DEF IInv, NumbersStored
    <3>3. CASE i = accepted + 1
      <4>1. m \in msgs' /\ m.id = i
        BY <3>3, <1>3, <1>5
      <4>. QED
        BY <4>1
    <3>4. CASE i # accepted + 1
      <4>1. i \in (get_num + 1) .. accepted
        BY <3>1, <3>4
      <4>2. PICK n \in msgs : n.id = i
        BY <3>2, <4>1
      <4>. QED
        BY <4>2, <1>5
    <3>. QED
      BY <3>3, <3>4
  <2>. QED
    BY <2>1, <2>2 DEF NumbersStored
<1>19. CountersAgree'
  BY <1>1, <1>6 DEF IInv, CountersAgree
<1>. QED
  BY <1>12, <1>13, <1>14, <1>15, <1>16, <1>17, <1>18, <1>19 DEF IInv

\* What the next message and the others are to each other and to the cursors.
LEMMA NextPlace ==
  ASSUME IInv, unread_count >= 1
  PROVE  LET m == NextMsg
         IN  /\ m \in msgs /\ m \in Message /\ m.id = get_num + 1
             /\ rdb.cur_index <= m.file /\ m.file <= wdb.cur_index
             /\ DbFileHeadLen <= m.pos /\ EndOf(m) <= MaxDbFileSize
             /\ m.file = wdb.cur_index => EndOf(m) <= wdb.pos
             /\ m.file > rdb.cur_index \/ rdb.pos <= m.pos
             /\ EndOf(m) \in Nat /\ m.pos < EndOf(m)
<1>. DEFINE m == NextMsg
<1>1. m \in Reachable /\ m.id = get_num + 1
  BY NextIsOldest
<1>2. m \in msgs
  BY <1>1 DEF Reachable
<1>3. m \in Message /\ get_num \in Nat
  BY <1>2 DEF IInv, TypeOK, DbTypeOK, DescriptorTypeOK
<1>4. EndOf(m) \in Nat /\ m.pos < EndOf(m)
  BY <1>3, EndOfBound, SizeAssumption DEF Message
<1>5. /\ rdb.cur_index <= m.file /\ m.file <= wdb.cur_index
      /\ DbFileHeadLen <= m.pos /\ EndOf(m) <= MaxDbFileSize
      /\ m.file = wdb.cur_index => EndOf(m) <= wdb.pos
  BY <1>2 DEF IInv, MsgsInFiles
<1>6. m.file > rdb.cur_index \/ rdb.pos <= m.pos
  BY <1>1, <1>2, <1>3 DEF IInv, CursorBetween
<1>. QED
  BY <1>1, <1>2, <1>3, <1>4, <1>5, <1>6

\* A get that moves the read cursor to the next message, or behind it when it
\* hands it out, unlinks only files whose messages were all handed out.
LEMMA MoveStep ==
  ASSUME IInv, unread_count >= 1,
         MovedTo(NextMsg.file),
         UNCHANGED <<wdb, accepted, now>>,
         rdb' \in DbMap, rdb'.cur_index = NextMsg.file,
         DOMAIN rtag' = {NextMsg.file},
         \/ get_num' = get_num /\ rdb'.pos = NextMsg.pos
         \/ get_num' = get_num + 1 /\ rdb'.pos = EndOf(NextMsg)
  PROVE  /\ DbTypeOK' /\ CursorsInFiles' /\ FilesMatchCursors' /\ MsgsInFiles'
         /\ MsgsInOrder' /\ CursorBetween' /\ NumbersStored'
<1>. DEFINE m == NextMsg
<1>1. /\ rdb \in DbMap /\ wdb \in DbMap
      /\ now \in Nat /\ accepted \in Nat /\ get_num \in Nat
      /\ CursorsInFiles
  BY DEF IInv, TypeOK, DescriptorTypeOK
<1>2. /\ m \in msgs /\ m \in Message /\ m.id = get_num + 1
      /\ rdb.cur_index <= m.file /\ m.file <= wdb.cur_index
      /\ DbFileHeadLen <= m.pos /\ EndOf(m) <= MaxDbFileSize
      /\ m.file = wdb.cur_index => EndOf(m) <= wdb.pos
      /\ m.file > rdb.cur_index \/ rdb.pos <= m.pos
      /\ EndOf(m) \in Nat /\ m.pos < EndOf(m)
  BY NextPlace
<1>3. msgs' = {n \in msgs : n.file >= m.file}
  BY DEF MovedTo
<1>4. db' = [g \in {h \in DOMAIN db : h >= m.file} |-> db[g]]
  BY DEF MovedTo
<1>5. ASSUME NEW n \in msgs
      PROVE  n \in Message /\ EndOf(n) \in Nat /\ n.file \in Nat /\ n.id \in Nat
  BY EndOfBound DEF IInv, TypeOK, DbTypeOK, Message
<1>6. ASSUME NEW n \in msgs
      PROVE  /\ n.id = m.id => n = m
             /\ m.id < n.id => m.file < n.file \/ (m.file = n.file /\ EndOf(m) <= n.pos)
  BY <1>2 DEF IInv, MsgsInOrder
<1>7. DbTypeOK'
  <2>1. DOMAIN db' \subseteq DOMAIN db /\ \A g \in DOMAIN db' : db'[g] = db[g]
    BY <1>4
  <2>. QED
    BY <2>1, <1>3 DEF IInv, TypeOK, DbTypeOK
<1>8. CursorsInFiles'
  <2>1. rdb'.pos \in Nat /\ m.pos <= rdb'.pos /\ rdb'.pos <= EndOf(m) /\ m.pos \in Nat
    BY <1>2 DEF Message
  <2>2. DbFileHeadLen <= rdb'.pos
    BY <2>1, <1>2, SizeAssumption
  <2>3. m.file = wdb.cur_index => rdb'.pos <= wdb.pos
    BY <2>1, <1>1, <1>2 DEF DbMap
  <2>. QED
    BY <2>2, <2>3, <1>1, <1>2 DEF CursorsInFiles
<1>9. FilesMatchCursors'
  <2>1. DOMAIN db = rdb.cur_index .. wdb.cur_index
    BY DEF IInv, FilesMatchCursors
  <2>2. DOMAIN db' = {h \in DOMAIN db : h >= m.file}
    BY <1>4
  <2>3. DOMAIN db' = m.file .. wdb.cur_index
    BY <2>1, <2>2, <1>1, <1>2 DEF DbMap, Message
  <2>. QED
    BY <2>3 DEF FilesMatchCursors
<1>10. MsgsInFiles'
  <2>1. ASSUME NEW n \in msgs'
        PROVE  /\ n \in msgs /\ m.file <= n.file
    BY <1>2, <1>3, <1>5 DEF Message
  <2>. QED
    BY <2>1 DEF IInv, MsgsInFiles, EndOf
<1>11. MsgsInOrder'
  BY <1>3 DEF IInv, MsgsInOrder, EndOf
<1>12. CursorBetween'
  <2>. SUFFICES ASSUME NEW n \in msgs'
                PROVE  /\ n.id <= get_num' => n.file = rdb'.cur_index /\ EndOf(n) <= rdb'.pos
                       /\ n.id > get_num' => n.file > rdb'.cur_index \/ rdb'.pos <= n.pos
    BY DEF CursorBetween, EndOf
  <2>1. n \in msgs /\ n.file >= m.file
    BY <1>3
  <2>2. n \in Message /\ EndOf(n) \in Nat /\ n.file \in Nat /\ n.id \in Nat
    BY <2>1, <1>5
  <2>3. CASE n.id <= get_num
    <3>1. n.file = rdb.cur_index /\ EndOf(n) <= rdb.pos
      BY <2>1, <2>3 DEF IInv, CursorBetween
    <3>2. n.file = m.file /\ EndOf(n) <= m.pos
      BY <3>1, <2>1, <2>2, <1>1, <1>2 DEF Message, DbMap
    <3>3. EndOf(n) <= rdb'.pos
      BY <3>2, <2>2, <1>2 DEF Message
    <3>. QED
      BY <3>2, <3>3, <2>2, <2>3, <1>1
  <2>4. CASE n.id = get_num + 1
    <3>1. n = m
      BY <2>1, <2>4, <1>2, <1>6
    <3>. QED
      BY <3>1, <1>1, <1>2 DEF Message
  <2>5. CASE n.id > get_num + 1
    <3>1. m.file < n.file \/ (m.file = n.file /\ EndOf(m) <= n.pos)
      BY <2>1, <2>2, <2>5, <1>1, <1>2, <1>6
    <3>2. n.file > rdb'.cur_index \/ rdb'.pos <= n.pos
      BY <3>1, <2>2, <1>2 DEF Message
    <3>. QED
      BY <3>2, <2>2, <2>5, <1>1
  <2>. QED
    BY <2>2, <2>3, <2>4, <2>5, <1>1
<1>13. NumbersStored'
  <2>1. \A n \in msgs' : 1 <= n.id /\ n.id <= accepted'
    BY <1>3 DEF IInv, NumbersStored
  <2>2. ASSUME NEW i \in (get_num' + 1) .. accepted'
        PROVE  \E n \in msgs' : n.id = i
    <3>1. i \in (get_num + 1) .. accepted
      BY <1>1
    <3>2. PICK n \in msgs : n.id = i
      BY <3>1 DEF IInv, NumbersStored
    <3>3. n.id = m.id \/ m.id < n.id
      BY <3>1, <3>2, <1>1, <1>2
    <3>4. n.file >= m.file
      BY <3>3, <1>2, <1>5, <1>6 DEF Message
    <3>. QED
      BY <3>2, <3>4, <1>3
  <2>. QED
    BY <2>1, <2>2 DEF NumbersStored
<1>. QED
  BY <1>7, <1>8, <1>9, <1>10, <1>11, <1>12, <1>13

\* The rtag files get_next_read_file leaves: the one of the read file.
LEMMA MovedRtagType ==
  ASSUME IInv, NEW f \in Nat
  PROVE  /\ DOMAIN MovedRtag(f) = {f}
         /\ \A g \in DOMAIN MovedRtag(f) : MovedRtag(f)[g] \in RtagItem
<1>1. /\ rdb \in DbMap /\ wdb \in DbMap
      /\ maxque \in Nat /\ delay \in Nat /\ wlock \in Int
  BY DEF IInv, TypeOK, DescriptorTypeOK
<1>2. ReadPos(f, DbFileHeadLen) \in DbMap
  BY <1>1, SizeAssumption DEF ReadPos, DbMap
<1>3. CASE f = rdb.cur_index
  BY <1>3 DEF MovedRtag, IInv, FilesMatchCursors, TypeOK, RtagTypeOK
<1>4. CASE f # rdb.cur_index
  BY <1>1, <1>2, <1>4, ItemType DEF MovedRtag
<1>. QED
  BY <1>3, <1>4

\* Counting a message read leaves the place of the cursor alone.
LEMMA CountedType ==
  ASSUME NEW r \in DbMap
  PROVE  LET c == [r EXCEPT !.opt_count = @ + 1]
         IN  c \in DbMap /\ c.cur_index = r.cur_index /\ c.pos = r.pos
BY DEF DbMap

\* A get keeps the invariant, and its scan never runs into the write position
\* while unread_count says that there is a message.
LEMMA GetStep ==
  ASSUME IInv, GetEnd \/ GetDelayed \/ GetOk
  PROVE  IInv'
<1>. DEFINE m == NextMsg
<1>1. unread_count >= 1
  BY DEF GetEnd, GetDelayed, GetOk
<1>2. ~GetEnd
  BY <1>1, NextIsOldest DEF GetEnd
<1>3. m.file \in Nat /\ m.pos \in Nat /\ EndOf(m) \in Nat
  BY <1>1, NextPlace DEF Message
<1>4. /\ rdb \in DbMap /\ wdb \in DbMap /\ now \in Nat /\ accepted \in Nat
      /\ get_num \in Nat /\ put_num \in Nat /\ unread_count \in Nat
      /\ maxque \in Nat /\ delay \in Nat /\ wlock \in Int /\ delivered \in Seq(Nat)
  BY DEF IInv, TypeOK, DescriptorTypeOK
<1>5. /\ DOMAIN MovedRtag(m.file) = {m.file}
      /\ \A g \in DOMAIN MovedRtag(m.file) : MovedRtag(m.file)[g] \in RtagItem
  BY <1>3, MovedRtagType
<1>6. /\ MovedTo(m.file)
      /\ UNCHANGED <<wdb, put_num, accepted, maxque, delay, wlock, now>>
      /\ reply' \in Replies
  BY <1>2 DEF GetDelayed, GetOk, counters, config, history, Replies
<1>7. CASE GetDelayed
  <2>1. rdb' = ReadPos(m.file, m.pos) /\ rtag' = MovedRtag(m.file)
    BY <1>7 DEF GetDelayed
  <2>2. rdb' \in DbMap /\ rdb'.cur_index = m.file /\ rdb'.pos = m.pos
    BY <2>1, <1>3, <1>4 DEF ReadPos, DbMap
  <2>3. UNCHANGED <<unread_count, get_num, delivered>>
    BY <1>7 DEF GetDelayed, counters, history
  <2>4. /\ DbTypeOK' /\ CursorsInFiles' /\ FilesMatchCursors' /\ MsgsInFiles'
        /\ MsgsInOrder' /\ CursorBetween' /\ NumbersStored'
    BY <2>1, <2>2, <2>3, <1>1, <1>5, <1>6, MoveStep
  <2>5. RtagTypeOK(RtagItem)'
    BY <2>1, <1>3, <1>5 DEF RtagTypeOK
  <2>6. DescriptorTypeOK'
    BY <2>2, <2>3, <1>4, <1>6 DEF DescriptorTypeOK
  <2>7. CountersAgree'
    BY <2>3, <1>6 DEF IInv, CountersAgree
  <2>. QED
    BY <2>4, <2>5, <2>6, <2>7 DEF IInv, TypeOK
<1>8. CASE GetOk
  <2>1. /\ rdb' = [ReadPos(m.file, EndOf(m)) EXCEPT !.opt_count = @ + 1]
        /\ rtag' = [MovedRtag(m.file) EXCEPT ![m.file] =
                      Item(rdb', wdb, maxque, delay, wlock)]
        /\ get_num' = get_num + 1
        /\ unread_count' = unread_count - 1
        /\ delivered' = Append(delivered, m.id)
    BY <1>8 DEF GetOk
  <2>2. rdb' \in DbMap /\ rdb'.cur_index = m.file /\ rdb'.pos = EndOf(m)
    <3>1. /\ ReadPos(m.file, EndOf(m)) \in DbMap
          /\ ReadPos(m.file, EndOf(m)).cur_index = m.file
          /\ ReadPos(m.file, EndOf(m)).pos = EndOf(m)
      BY <1>3, <1>4 DEF ReadPos, DbMap
    <3>. QED
      BY <2>1, <3>1, CountedType
  <2>3. DOMAIN rtag' = {m.file}
    BY <2>1, <1>5
  <2>4. /\ DbTypeOK' /\ CursorsInFiles' /\ FilesMatchCursors' /\ MsgsInFiles'
        /\ MsgsInOrder' /\ CursorBetween' /\ NumbersStored'
    BY <2>1, <2>2, <2>3, <1>1, <1>6, MoveStep
  <2>5. RtagTypeOK(RtagItem)'
    <3>1. Item(rdb', wdb, maxque, delay, wlock) \in RtagItem
      BY <2>2, <1>4, ItemType
    <3>. QED
      BY <2>1, <2>3, <3>1, <1>3, <1>5 DEF RtagTypeOK
  <2>6. m.id = get_num + 1 /\ m.id \in Nat
    BY <1>1, <1>4, NextIsOldest
  <2>7. DescriptorTypeOK'
    BY <2>1, <2>2, <2>6, <1>1, <1>4, <1>6 DEF DescriptorTypeOK
  <2>8. CountersAgree'
    <3>1. /\ put_num = accepted /\ unread_count = accepted - get_num
          /\ Len(delivered) = get_num
          /\ \A i \in 1 .. get_num : delivered[i] = i
      BY DEF IInv, CountersAgree
    <3>2. /\ put_num' = accepted' /\ get_num' <= accepted'
          /\ unread_count' = accepted' - get_num'
      BY <2>1, <3>1, <1>1, <1>4, <1>6
    <3>3. Len(delivered') = get_num'
      BY <2>1, <2>6, <3>1, <1>4
    <3>4. ASSUME NEW i \in 1 .. get_num'
          PROVE  delivered'[i] = i
      <4>1. CASE i = get_num + 1
        BY <2>1, <2>6, <3>1, <4>1, <1>4
      <4>2. CASE i # get_num + 1
        <5>1. i \in 1 .. get_num
          BY <2>1, <4>2, <1>4
        <5>2. delivered'[i] = delivered[i]
          BY <2>1, <2>6, <3>1, <5>1, <1>4
        <5>. QED
          BY <3>1, <5>1, <5>2
      <4>. QED
        BY <4>1, <4>2
    <3>. QED
      BY <3>2, <3>3, <3>4 DEF CountersAgree
  <2>. QED
    BY <2>4, <2>5, <2>7, <2>8 DEF IInv, TypeOK
<1>. QED
  BY <1>2, <1>7, <1>8

(***************************************************************************)
(* Theorems                                                                *)
(***************************************************************************)

\* The invariant is inductive: every handler of mq_queue_manage.c keeps it.
THEOREM InvariantHolds == Spec => []IInv
<1>1. IInv /\ [Next]_vars => IInv'
  BY QuietStep, SetStep, PutStep, GetStep DEF Next, Get, GetNothing
<1>. QED
  BY <1>1, InitIInv, PTL DEF Spec

\* The type invariant for every instance.
THEOREM TypeCorrect == Spec => []TypeOK
BY InvariantHolds, PTL DEF IInv

\* The directory always has the shape find_handle_file expects, for every
\* instance.
THEOREM DirectoryMatches == Spec => []FilesMatchCursors
BY InvariantHolds, PTL DEF IInv

\* Under the invariant what gets still reach is what was accepted and not
\* delivered.
LEMMA NothingLostNow == IInv => NothingLost
<1>. SUFFICES ASSUME IInv
              PROVE  NothingLost
  OBVIOUS
<1>1. /\ get_num \in Nat /\ accepted \in Nat /\ delivered \in Seq(Nat)
      /\ Len(delivered) = get_num /\ get_num <= accepted
      /\ \A i \in 1 .. get_num : delivered[i] = i
      /\ \A m \in msgs : m.id \in Nat
  BY DEF IInv, TypeOK, DbTypeOK, DescriptorTypeOK, CountersAgree, Message
<1>2. DOMAIN delivered = 1 .. get_num
  BY <1>1
<1>3. {delivered[i] : i \in DOMAIN delivered} = 1 .. get_num
  BY <1>1, <1>2
<1>4. Pending = (get_num + 1) .. accepted
  BY <1>1, <1>3 DEF Pending
<1>5. {m.id : m \in Reachable} \subseteq (get_num + 1) .. accepted
  BY <1>1, ReachableIsNew DEF IInv, NumbersStored
<1>6. (get_num + 1) .. accepted \subseteq {m.id : m \in Reachable}
  BY <1>1, ReachableIsNew DEF IInv, NumbersStored
<1>. QED
  BY <1>4, <1>5, <1>6 DEF NothingLost

\* No accepted message is lost or handed out twice while the server runs, for
\* every file size, message length and history.
THEOREM NeverLost == Spec => []NothingLost
BY InvariantHolds, NothingLostNow, PTL

\* Messages of one file keep apart.
LEMMA NoOverlapNow == IInv => NoOverlap
<1>. SUFFICES ASSUME IInv, NEW m \in msgs
              PROVE  /\ DbFileHeadLen <= m.pos
                     /\ EndOf(m) <= IF m.file = wdb.cur_index THEN wdb.pos ELSE MaxDbFileSize
                     /\ \A n \in msgs : Before(m, n) /\ m.file = n.file => EndOf(m) <= n.pos
  BY DEF NoOverlap
<1>1. /\ DbFileHeadLen <= m.pos
      /\ EndOf(m) <= IF m.file = wdb.cur_index THEN wdb.pos ELSE MaxDbFileSize
  BY DEF IInv, MsgsInFiles
<1>2. ASSUME NEW n \in msgs, Before(m, n), m.file = n.file
      PROVE  EndOf(m) <= n.pos
  <2>1. m \in Message /\ n \in Message
    BY DEF IInv, TypeOK, DbTypeOK
  <2>2. m.pos < n.pos /\ n.pos < EndOf(n) /\ m # n /\ EndOf(n) \in Nat
    BY <1>2, <2>1, EndOfBound, SizeAssumption DEF Before, Message
  <2>3. ~(n.id < m.id) /\ n.id # m.id
    BY <1>2, <2>1, <2>2 DEF IInv, MsgsInOrder, Message
  <2>4. m.id < n.id
    BY <2>1, <2>3 DEF Message
  <2>. QED
    BY <1>2, <2>1, <2>4 DEF IInv, MsgsInOrder, Message
<1>. QED
  BY <1>1, <1>2

\* Puts never write over a message or a file head.
THEOREM NeverOverlap == Spec => []NoOverlap
BY InvariantHolds, NoOverlapNow, PTL

\* An "empty" answer is true.
THEOREM EmptyTold == Spec => EmptyIsTrue
<1>1. ASSUME IInv, Get, reply' = "QUEUE_GET_END"
      PROVE  Reachable = {} \/ ~DelayPassed(NextMsg)
  <2>1. CASE GetEmpty
    <3>1. get_num \in Nat /\ accepted \in Nat /\ unread_count = accepted - get_num
          /\ get_num <= accepted
      BY <1>1 DEF IInv, TypeOK, DescriptorTypeOK, CountersAgree
    <3>2. get_num = accepted
      BY <2>1, <3>1 DEF GetEmpty
    <3>3. ASSUME NEW m \in msgs
          PROVE  ~(m.id > get_num)
      BY <1>1, <3>1, <3>2 DEF IInv, NumbersStored, TypeOK, DbTypeOK, Message
    <3>. QED
      BY <1>1, <3>3, ReachableIsNew
  <2>2. CASE GetEnd
    BY <2>2 DEF GetEnd
  <2>3. CASE GetDelayed
    BY <2>3 DEF GetDelayed
  <2>4. ~GetOk
    BY <1>1 DEF GetOk
  <2>. QED
    BY <1>1, <2>1, <2>2, <2>3, <2>4 DEF Get, GetNothing
<1>2. ASSUME IInv, [Next]_vars
      PROVE  [Get /\ reply' = "QUEUE_GET_END" =>
                Reachable = {} \/ ~DelayPassed(NextMsg)]_vars
  BY <1>1, <1>2
<1>. QED
  BY <1>2, InvariantHolds, PTL DEF Spec, EmptyIsTrue

\* The unsigned remainder of a difference that is not negative is at most the
\* difference.
LEMMA ModBelow ==
  ASSUME NEW x \in Nat
  PROVE  x % Width <= x
BY ConfigAssumption, SMT

\* Delays are kept as long as the clock is not set back.
THEOREM DelayHonoured == Spec => DelayIsKept
<1>1. ASSUME IInv, GetOk
      PROVE  delay = 0 \/ now >= NextMsg.time + delay
  <2>1. unread_count >= 1 /\ DelayPassed(NextMsg)
    BY <1>1 DEF GetOk
  <2>2. NextMsg \in msgs /\ NextMsg \in Message
    BY <1>1, <2>1, NextPlace
  <2>3. NextMsg.time \in Nat /\ NextMsg.time <= now /\ now \in Nat /\ delay \in Nat
    BY <1>1, <2>2 DEF IInv, MsgsInFiles, TypeOK, DescriptorTypeOK, Message
  <2>4. (now - NextMsg.time) % Width <= now - NextMsg.time
    BY <2>3, ModBelow
  <2>5. (now - NextMsg.time) % Width \in Nat
    BY <2>3, ModNat
  <2>6. delay = 0 \/ (now - NextMsg.time) % Width >= delay
    BY <2>1 DEF DelayPassed
  <2>. QED
    BY <2>3, <2>4, <2>5, <2>6
<1>2. ASSUME IInv, [Next]_vars
      PROVE  [GetOk => delay = 0 \/ now >= NextMsg.time + delay]_vars
  BY <1>1, <1>2
<1>. QED
  BY <1>2, InvariantHolds, PTL DEF Spec, DelayIsKept

\* The numbers of the reachable messages are get_num + 1 .. accepted, each
\* once, so their count is the difference.
LEMMA UnreadIsExactNow == IInv => UnreadIsExact
<1>. SUFFICES ASSUME IInv
              PROVE  unread_count = Cardinality(Reachable)
  BY DEF UnreadIsExact
<1>. DEFINE T == (get_num + 1) .. accepted
            id == [m \in Reachable |-> m.id]
<1>1. /\ get_num \in Nat /\ accepted \in Nat /\ get_num <= accepted
      /\ unread_count = accepted - get_num
      /\ \A m \in msgs : m.id \in Nat /\ m.id <= accepted
      /\ \A i \in T : \E m \in msgs : m.id = i
  BY DEF IInv, TypeOK, DbTypeOK, DescriptorTypeOK, CountersAgree, NumbersStored, Message
<1>2. IsFiniteSet(T) /\ Cardinality(T) = accepted - get_num
  <2>1. /\ IsFiniteSet(T)
        /\ Cardinality(T) = IF get_num + 1 > accepted THEN 0 ELSE accepted - (get_num + 1) + 1
    BY <1>1, FS_Interval
  <2>. QED
    BY <2>1, <1>1
<1>3. id \in [Reachable -> T]
  BY <1>1, ReachableIsNew
<1>4. ASSUME NEW m \in Reachable, NEW n \in Reachable, id[m] = id[n]
      PROVE  m = n
  BY <1>4, ReachableIsNew DEF IInv, MsgsInOrder
<1>5. id \in Injection(Reachable, T)
  BY <1>3, <1>4 DEF Injection, IsInjective
<1>6. ASSUME NEW i \in T
      PROVE  \E m \in Reachable : id[m] = i
  BY <1>1, ReachableIsNew
<1>7. id \in Surjection(Reachable, T)
  BY <1>3, <1>6 DEF Surjection
<1>. QED
  BY <1>1, <1>2, <1>5, <1>7, FS_Injection

\* The counter every limit and early return relies on is exact.
THEOREM UnreadExact == Spec => []UnreadIsExact
BY InvariantHolds, UnreadIsExactNow, PTL
(***************************************************************************)
(* The counts in the heads of the db files                                 *)
(***************************************************************************)

\* There are at most as many messages as puts were acknowledged.
LEMMA MsgsFinite ==
  ASSUME IInv
  PROVE  IsFiniteSet(msgs)
<1>. DEFINE id == [m \in msgs |-> m.id]
<1>1. accepted \in Nat /\ IsFiniteSet(1 .. accepted)
  BY FS_Interval DEF IInv, TypeOK, DescriptorTypeOK
<1>2. id \in [msgs -> 1 .. accepted]
  BY <1>1 DEF IInv, NumbersStored, TypeOK, DbTypeOK, Message
<1>3. id \in Injection(msgs, 1 .. accepted)
  BY <1>2 DEF Injection, IsInjective, IInv, MsgsInOrder
<1>. QED
  BY <1>1, <1>3, FS_Injection

\* The messages of a file after a step.
NewInFile(f) == {m \in msgs' : m.file = f}

\* What a put adds to each file.
LEMMA PutInFile ==
  ASSUME IInv, NEW len \in Lens, PutOk(len), NEW f
  PROVE  /\ IsFiniteSet(InFile(f)) /\ Cardinality(InFile(f)) \in Nat
         /\ Cardinality(NewInFile(f)) =
              IF f = WriteFile(len).cur_index THEN Cardinality(InFile(f)) + 1
              ELSE Cardinality(InFile(f))
<1>. DEFINE m == NewMsg(len)
<1>1. IsFiniteSet(InFile(f))
  BY MsgsFinite, FS_Subset DEF InFile
<1>2. Cardinality(InFile(f)) \in Nat
  BY <1>1, FS_CardinalityType
<1>3. msgs' = msgs \cup {m}
  BY PutKeeps
<1>4. m.file = WriteFile(len).cur_index /\ m.id = accepted + 1
  BY DEF NewMsg
<1>5. m \notin msgs
  BY <1>4 DEF IInv, NumbersStored, TypeOK, DescriptorTypeOK
<1>. HIDE DEF m
<1>6. CASE f = WriteFile(len).cur_index
  <2>1. NewInFile(f) = InFile(f) \cup {m} /\ m \notin InFile(f)
    BY <1>3, <1>4, <1>5, <1>6 DEF InFile, NewInFile
  <2>. QED
    BY <1>1, <1>2, <1>6, <2>1, FS_AddElement
<1>7. CASE f # WriteFile(len).cur_index
  <2>1. NewInFile(f) = InFile(f)
    BY <1>3, <1>4, <1>7 DEF InFile, NewInFile
  <2>. QED
    BY <1>1, <1>2, <1>7, <2>1
<1>. QED
  BY <1>1, <1>2, <1>6, <1>7

\* A put counts its message in the write file and notes the count of the file
\* it leaves.
LEMMA PutHeads ==
  ASSUME IInv, HeadsCount, NEW len \in Lens, PutOk(len)
  PROVE  HeadsCount'
<1>. DEFINE w == WriteFile(len)
<1>1. wdb \in DbMap /\ w \in DbMap
  BY WritePlace DEF IInv, TypeOK, DescriptorTypeOK
<1>2. wdb' = [cur_index |-> w.cur_index, pos |-> EndOf(NewMsg(len)),
              opt_count |-> w.opt_count + 1]
  BY DEF PutOk, NewMsg
<1>3. wdb'.cur_index = w.cur_index /\ wdb'.opt_count = w.opt_count + 1
  BY <1>2
<1>4. db' = RotatedDb(len)
  BY DEF PutOk
<1>5. \A f : /\ Cardinality(InFile(f)) \in Nat
             /\ Cardinality(NewInFile(f)) =
                  IF f = w.cur_index THEN Cardinality(InFile(f)) + 1
                  ELSE Cardinality(InFile(f))
  BY PutInFile
<1>6. DOMAIN db = rdb.cur_index .. wdb.cur_index /\ rdb.cur_index <= wdb.cur_index
      /\ rdb \in DbMap
  BY DEF IInv, FilesMatchCursors, CursorsInFiles, TypeOK, DescriptorTypeOK
<1>7. CASE Fits(len)
  <2>1. w = wdb /\ db' = db
    BY <1>4, <1>7 DEF WriteFile, RotatedDb
  <2>. HIDE DEF w
  <2>2. \A f \in DOMAIN db' \ {wdb'.cur_index} : db'[f] = Cardinality(NewInFile(f))
    BY <1>3, <1>5, <2>1 DEF HeadsCount
  <2>3. db'[wdb'.cur_index] <= wdb'.opt_count
    <3>1. db[wdb.cur_index] <= wdb.opt_count
      BY DEF HeadsCount
    <3>2. db[wdb.cur_index] \in Nat /\ wdb.opt_count \in Nat
      BY <1>1, <1>6 DEF IInv, TypeOK, DbTypeOK, DbMap
    <3>. QED
      BY <1>3, <2>1, <3>1, <3>2
  <2>4. wdb'.opt_count = Cardinality(NewInFile(wdb'.cur_index))
    BY <1>3, <1>5, <2>1 DEF HeadsCount
  <2>. QED
    BY <2>2, <2>3, <2>4 DEF HeadsCount, InFile, NewInFile
<1>8. CASE ~Fits(len)
  <2>1. w = [cur_index |-> wdb.cur_index + 1, pos |-> DbFileHeadLen, opt_count |-> 0]
    BY <1>8 DEF WriteFile
  <2>2. w.cur_index = wdb.cur_index + 1 /\ w.opt_count = 0
    BY <2>1
  <2>. HIDE DEF w
  <2>3. /\ DOMAIN db' = DOMAIN db \cup {wdb.cur_index + 1}
        /\ db'[wdb.cur_index + 1] = 0
        /\ \A f \in DOMAIN db \ {wdb.cur_index + 1} :
             db'[f] = IF f = wdb.cur_index THEN wdb.opt_count ELSE db[f]
    BY <1>4, <1>8 DEF RotatedDb
  <2>4. wdb.cur_index + 1 \notin DOMAIN db /\ wdb.cur_index \in Nat
    BY <1>1, <1>6 DEF DbMap
  <2>5. InFile(w.cur_index) = {}
    BY <1>1, <2>2 DEF InFile, IInv, MsgsInFiles, TypeOK, DbTypeOK, Message, DbMap
  <2>6. Cardinality(InFile(w.cur_index)) = 0
    BY <2>5, FS_EmptySet
  <2>7. ASSUME NEW f \in DOMAIN db' \ {wdb'.cur_index}
        PROVE  db'[f] = Cardinality(NewInFile(f))
    <3>1. f \in DOMAIN db /\ f # wdb.cur_index + 1
      BY <1>3, <2>2, <2>3
    <3>2. db'[f] = Cardinality(InFile(f))
      BY <2>3, <3>1 DEF HeadsCount
    <3>. QED
      BY <1>5, <2>2, <3>1, <3>2
  <2>8. db'[wdb'.cur_index] <= wdb'.opt_count
    BY <1>3, <2>2, <2>3
  <2>9. wdb'.opt_count = Cardinality(NewInFile(wdb'.cur_index))
    BY <1>3, <1>5, <2>2, <2>6
  <2>. QED
    BY <2>7, <2>8, <2>9 DEF HeadsCount, InFile, NewInFile
<1>. QED
  BY <1>7, <1>8

\* A get leaves the files it does not unlink as they were.
LEMMA GetHeads ==
  ASSUME IInv, HeadsCount, GetEnd \/ GetDelayed \/ GetOk
  PROVE  HeadsCount'
<1>. DEFINE m == NextMsg
<1>1. unread_count >= 1 /\ ~GetEnd
  BY NextIsOldest DEF GetEnd, GetDelayed, GetOk
<1>2. MovedTo(m.file) /\ wdb' = wdb
  BY <1>1 DEF GetDelayed, GetOk
<1>3. m.file \in Nat /\ m.file <= wdb.cur_index /\ wdb.cur_index \in Nat
  BY <1>1, NextPlace DEF Message, IInv, TypeOK, DescriptorTypeOK, DbMap
<1>. HIDE DEF m
<1>4. /\ DOMAIN db' = {h \in DOMAIN db : h >= m.file}
      /\ \A g \in DOMAIN db' : db'[g] = db[g]
      /\ msgs' = {n \in msgs : n.file >= m.file}
  BY <1>2 DEF MovedTo
<1>5. ASSUME NEW g, g >= m.file
      PROVE  NewInFile(g) = InFile(g)
  BY <1>4, <1>5 DEF InFile, NewInFile
<1>6. wdb.cur_index >= m.file /\ wdb.cur_index \in DOMAIN db
  BY <1>3 DEF IInv, FilesMatchCursors, CursorsInFiles, TypeOK, DescriptorTypeOK, DbMap
<1>7. \A f \in DOMAIN db' \ {wdb'.cur_index} : db'[f] = Cardinality(NewInFile(f))
  BY <1>2, <1>4, <1>5 DEF HeadsCount
<1>8. db'[wdb'.cur_index] <= wdb'.opt_count /\ wdb'.opt_count = Cardinality(NewInFile(wdb'.cur_index))
  BY <1>2, <1>4, <1>5, <1>6 DEF HeadsCount
<1>. QED
  BY <1>7, <1>8 DEF HeadsCount, InFile, NewInFile

\* A refused rotation notes what cur_wdb has counted so far.
LEMMA NoSpaceHeads ==
  ASSUME IInv, HeadsCount, NEW len \in Lens, PutNoSpace(len)
  PROVE  HeadsCount'
<1>1. /\ msgs' = msgs /\ wdb' = wdb /\ DOMAIN db' = DOMAIN db
      /\ db' = [db EXCEPT ![wdb.cur_index] = wdb.opt_count]
      /\ wdb.cur_index \in DOMAIN db /\ wdb.opt_count \in Nat
  BY NoSpaceKeeps DEF RefusedDb
<1>2. \A f : NewInFile(f) = InFile(f)
  BY <1>1 DEF InFile, NewInFile
<1>3. \A f \in DOMAIN db' \ {wdb'.cur_index} : db'[f] = Cardinality(NewInFile(f))
  BY <1>1, <1>2 DEF HeadsCount
<1>4. db'[wdb'.cur_index] <= wdb'.opt_count
  BY <1>1
<1>5. wdb'.opt_count = Cardinality(NewInFile(wdb'.cur_index))
  BY <1>1, <1>2 DEF HeadsCount
<1>. QED
  BY <1>3, <1>4, <1>5 DEF HeadsCount, InFile, NewInFile

\* Start-up may trust the count in the head of every db file that puts have
\* left, and the head of the write file never promises too many.
THEOREM HeadsExact == Spec => []HeadsCount
<1>1. Init => HeadsCount
  <2>. SUFFICES ASSUME Init PROVE HeadsCount
    OBVIOUS
  <2>1. \A f : InFile(f) = {}
    BY DEF Init, InFile
  <2>2. DOMAIN db = {1} /\ db[1] = 0 /\ wdb.cur_index = 1 /\ wdb.opt_count = 0
    BY DEF Init, NewDb, NewMap
  <2>. QED
    BY <2>1, <2>2, FS_EmptySet DEF HeadsCount
<1>2. IInv /\ HeadsCount /\ [Next]_vars => HeadsCount'
  <2>. SUFFICES ASSUME IInv, HeadsCount, [Next]_vars PROVE HeadsCount'
    OBVIOUS
  <2>1. CASE UNCHANGED <<db, msgs, wdb>>
    BY <2>1 DEF HeadsCount, InFile
  <2>2. \/ UNCHANGED <<db, msgs, wdb>>
        \/ \E len \in Lens : PutOk(len)
        \/ \E len \in Lens : PutNoSpace(len)
        \/ GetEnd \/ GetDelayed \/ GetOk
    BY DEF Next, vars, files, cursors, PutFull, PutWlocked, Get, GetEmpty, GetNothing,
           SetMaxQueue, SetDelay, SetWlock, Configured, Tick
  <2>. QED
    BY <2>1, <2>2, PutHeads, GetHeads, NoSpaceHeads
<1>. QED
  BY <1>1, <1>2, InvariantHolds, PTL DEF Spec

(***************************************************************************)
(* The last rtag item                                                      *)
(***************************************************************************)

\* A number below Width is its own remainder.
LEMMA ModSmall ==
  ASSUME NEW x \in Nat, x < Width
  PROVE  x % Width = x
BY ConfigAssumption, SMT

\* A negative difference wraps to the number it stands for.
LEMMA ModNegative ==
  ASSUME NEW x \in Nat, x < Width
  PROVE  (x - Width) % Width = x
BY ConfigAssumption, SMT

\* The unsigned form of an int gives the int back.
LEMMA IntComesBack ==
  ASSUME NEW x \in Int
  PROVE  ToInt(ToInt(x) % Width) = ToInt(x)
<1>. DEFINE r == x % Width
            h == Width \div 2
<1>1. r \in Nat /\ r < Width /\ Width \in Nat
  BY ModNat, ConfigAssumption, SMT
<1>2. r % Width = r /\ (r - Width) % Width = r
  BY <1>1, ModSmall, ModNegative
<1>3. ToInt(x) = IF r >= h THEN r - Width ELSE r
  BY DEF ToInt
<1>4. ToInt(x) % Width = r
  BY <1>2, <1>3
<1>5. ToInt(r) = IF r >= h THEN r - Width ELSE r
  BY <1>2 DEF ToInt
<1>. QED
  BY <1>3, <1>4, <1>5

\* So do the two special values of wlock.
LEMMA SpecialComesBack ==
  ToInt(0 % Width) = 0 /\ ToInt((-1) % Width) = -1
<1>1. Width \in Nat /\ Width >= 2 /\ Width \div 2 \in Int /\ Width \div 2 >= 1
      /\ Width \div 2 <= Width - 1
  BY ConfigAssumption, SMT
<1>2. 0 % Width = 0
  BY <1>1, ModSmall
<1>3. ((Width - 1) - Width) % Width = Width - 1 /\ (Width - 1) % Width = Width - 1
  BY <1>1, ModNegative, ModSmall
<1>4. (-1) % Width = Width - 1
  <2>1. (Width - 1) - Width = -1
    BY <1>1
  <2>. QED
    BY <1>3, <2>1
<1>5. ToInt(0 % Width) = 0
  BY <1>1, <1>2 DEF ToInt
<1>6. ToInt((-1) % Width) = -1
  BY <1>1, <1>3, <1>4 DEF ToInt
<1>. QED
  BY <1>5, <1>6

\* RtagDescribesQueue is not inductive: wlock must be a number that the rtag
\* file, which has it without a sign, gives back.
RtagInv == RtagDescribesQueue /\ ToInt(wlock % Width) = wlock

\* An item that was just written describes the queue.
LEMMA FreshItem ==
  ASSUME rdb' \in DbMap, ToInt(wlock' % Width) = wlock',
         rtag'[rdb'.cur_index] = Item(rdb', wdb', maxque', delay', wlock')
  PROVE  RtagInv'
<1>. DEFINE item == rtag'[rdb'.cur_index]
<1>1. /\ item.rpos = rdb'.pos /\ item.rcount = rdb'.opt_count /\ item.wpos = wdb'.pos
      /\ item.maxque = maxque' /\ item.delay = delay' /\ item.wlock = wlock' % Width
  BY DEF Item
<1>2. item.rpos <= rdb'.pos
  BY <1>1 DEF DbMap
<1>3. <<item.maxque, item.delay, ToInt(item.wlock)>> = <<maxque', delay', wlock'>>
  BY <1>1
<1>. QED
  BY <1>1, <1>2, <1>3, Zenon DEF RtagInv, RtagDescribesQueue, config, InFile, ToInt

\* The scan of a get that hands nothing out passes no message: what lies
\* between the noted and the new position was read.
LEMMA DelayedRtag ==
  ASSUME IInv, RtagInv, GetDelayed
  PROVE  RtagInv'
<1>. DEFINE m == NextMsg
            item == rtag[rdb.cur_index]
            new == rtag'[rdb'.cur_index]
<1>1. /\ unread_count >= 1 /\ MovedTo(m.file)
      /\ rdb' = ReadPos(m.file, m.pos) /\ rtag' = MovedRtag(m.file)
      /\ UNCHANGED <<wdb, put_num, maxque, delay, wlock>>
  BY DEF GetDelayed, counters, config
<1>2. /\ m \in msgs /\ m.id = get_num + 1 /\ m.file \in Nat /\ m.pos \in Nat
      /\ rdb.cur_index <= m.file /\ DbFileHeadLen <= m.pos
      /\ m.file > rdb.cur_index \/ rdb.pos <= m.pos
      /\ m.pos < EndOf(m) /\ EndOf(m) \in Nat
  BY <1>1, NextPlace DEF Message
<1>3. /\ rdb \in DbMap /\ get_num \in Nat /\ wdb \in DbMap
      /\ rdb.cur_index \in Nat /\ rdb.pos \in Nat
  BY DEF IInv, TypeOK, DescriptorTypeOK, DbMap
<1>4. ASSUME NEW n \in msgs
      PROVE  /\ n.id \in Nat /\ n.pos \in Nat /\ n.file \in Nat
             /\ EndOf(n) \in Nat /\ n.pos < EndOf(n)
  BY EndOfBound, SizeAssumption DEF IInv, TypeOK, DbTypeOK, Message
<1>5. /\ rdb'.cur_index = m.file /\ rdb'.pos = m.pos
      /\ rdb'.opt_count = IF m.file = rdb.cur_index THEN rdb.opt_count ELSE 0
  BY <1>1 DEF ReadPos
<1>6. ASSUME NEW n \in msgs, n.file = m.file, n.id > get_num
      PROVE  n.pos >= m.pos
  <2>1. n = m \/ EndOf(m) <= n.pos
    BY <1>2, <1>3, <1>4, <1>6 DEF IInv, MsgsInOrder
  <2>. QED
    BY <1>2, <1>4, <2>1
<1>7. \A n : n \in msgs' <=> n \in msgs /\ n.file >= m.file
  BY <1>1 DEF MovedTo
<1>. HIDE DEF m
<1>8. CASE m.file = rdb.cur_index
  <2>1. new = item
    BY <1>1, <1>5, <1>8 DEF MovedRtag
  <2>2. /\ item.rpos <= rdb.pos /\ item.rpos \in Nat /\ item.rcount = rdb.opt_count
        /\ item.wpos = wdb.pos \/ (item.wpos = 0 /\ put_num = 0)
        /\ <<item.maxque, item.delay, ToInt(item.wlock)>> = <<maxque, delay, wlock>>
        /\ ToInt(wlock % Width) = wlock
    BY DEF RtagInv, RtagDescribesQueue, config, IInv, TypeOK, RtagTypeOK, RtagItem,
           FilesMatchCursors
  <2>3. ASSUME NEW n \in msgs, n.file = m.file
        PROVE  n.pos >= item.rpos <=> n.pos >= m.pos
    <3>1. n.pos >= item.rpos <=> n.pos >= rdb.pos
      BY <1>8, <2>3 DEF RtagInv, RtagDescribesQueue, InFile
    <3>2. n.pos >= rdb.pos => n.id > get_num
      BY <1>3, <1>4, <2>3 DEF IInv, CursorBetween
    <3>3. n.pos >= rdb.pos => n.pos >= m.pos
      BY <1>6, <2>3, <3>2
    <3>4. rdb.pos <= m.pos
      BY <1>2, <1>3, <1>8
    <3>. QED
      BY <1>2, <1>3, <1>4, <2>2, <3>1, <3>3, <3>4
  <2>4. {n \in msgs' : n.file = m.file /\ n.pos >= item.rpos}
          = {n \in msgs' : n.file = m.file /\ n.pos >= m.pos}
    BY <1>7, <2>3
  <2>5. item.rpos <= m.pos
    BY <1>2, <1>3, <1>8, <2>2
  <2>. HIDE DEF item, new
  <2>6. /\ {n \in {k \in msgs' : k.file = rdb'.cur_index} : n.pos >= new.rpos}
             = {n \in {k \in msgs' : k.file = rdb'.cur_index} : n.pos >= rdb'.pos}
        /\ new.rpos <= rdb'.pos /\ new.rcount = rdb'.opt_count
    BY <1>5, <1>8, <2>1, <2>2, <2>4, <2>5
  <2>7. /\ new.wpos = wdb'.pos \/ (new.wpos = 0 /\ put_num' = 0)
        /\ <<new.maxque, new.delay, ToInt(new.wlock)>> = <<maxque', delay', wlock'>>
        /\ ToInt(wlock' % Width) = wlock'
    BY <1>1, <2>1, <2>2, Zenon
  <2>. QED
    BY <2>6, <2>7, Zenon DEF RtagInv, RtagDescribesQueue, config, InFile, ToInt, new
<1>9. CASE m.file # rdb.cur_index
  <2>1. new = Item(ReadPos(m.file, DbFileHeadLen), wdb, maxque, delay, wlock)
    BY <1>1, <1>5, <1>9 DEF MovedRtag
  <2>2. /\ new.rpos = DbFileHeadLen /\ new.wpos = wdb.pos /\ new.rcount = 0
        /\ new.maxque = maxque /\ new.delay = delay /\ new.wlock = wlock % Width
    BY <1>9, <2>1 DEF Item, ReadPos
  <2>3. ASSUME NEW n \in msgs, n.file = m.file
        PROVE  n.pos >= DbFileHeadLen /\ n.pos >= m.pos
    <3>1. n.id > get_num
      BY <1>2, <1>3, <1>4, <1>9, <2>3 DEF IInv, CursorBetween
    <3>2. n.pos >= m.pos
      BY <1>6, <2>3, <3>1
    <3>. QED
      BY <1>2, <1>4, <3>2, SizeAssumption
  <2>4. {n \in msgs' : n.file = m.file /\ n.pos >= DbFileHeadLen}
          = {n \in msgs' : n.file = m.file /\ n.pos >= m.pos}
    BY <1>7, <2>3
  <2>5. ToInt(wlock % Width) = wlock
    BY DEF RtagInv
  <2>. HIDE DEF item, new
  <2>6. /\ {n \in {k \in msgs' : k.file = rdb'.cur_index} : n.pos >= new.rpos}
             = {n \in {k \in msgs' : k.file = rdb'.cur_index} : n.pos >= rdb'.pos}
        /\ new.rpos <= rdb'.pos /\ new.rcount = rdb'.opt_count
    BY <1>2, <1>5, <1>9, <2>2, <2>4
  <2>7. /\ new.wpos = wdb'.pos \/ (new.wpos = 0 /\ put_num' = 0)
        /\ <<new.maxque, new.delay, ToInt(new.wlock)>> = <<maxque', delay', wlock'>>
        /\ ToInt(wlock' % Width) = wlock'
    BY <1>1, <2>2, <2>5, Zenon
  <2>. QED
    BY <2>6, <2>7, Zenon DEF RtagInv, RtagDescribesQueue, config, InFile, ToInt, new
<1>. QED
  BY <1>8, <1>9

\* The setters write what they set; a lock is a number that comes back.
LEMMA SetRtag ==
  ASSUME IInv, RtagInv,
         \/ \E n \in MaxQueues : SetMaxQueue(n)
         \/ \E d \in Delays : SetDelay(d)
         \/ \E w \in Wlocks : SetWlock(w)
  PROVE  RtagInv'
<1>1. Configured
  BY DEF SetMaxQueue, SetDelay, SetWlock
<1>2. /\ rdb' = rdb /\ wdb' = wdb
      /\ rtag' = [rtag EXCEPT ![rdb.cur_index] = Item(rdb, wdb, maxque', delay', wlock')]
  BY <1>1 DEF Configured, cursors
<1>3. rdb \in DbMap /\ rdb.cur_index \in DOMAIN rtag /\ now \in Nat
  BY DEF IInv, TypeOK, DescriptorTypeOK, FilesMatchCursors
<1>4. rtag'[rdb'.cur_index] = Item(rdb', wdb', maxque', delay', wlock')
  BY <1>2, <1>3
<1>5. ToInt(wlock' % Width) = wlock'
  <2>1. CASE wlock' = wlock
    BY <2>1, Zenon DEF RtagInv
  <2>2. ASSUME NEW w \in Wlocks, SetWlock(w)
        PROVE  ToInt(wlock' % Width) = wlock'
    <3>1. wlock' = 0 \/ wlock' = -1 \/ wlock' = ToInt(now + w)
      BY <2>2 DEF SetWlock
    <3>2. now + w \in Int
      BY <1>3, ConfigAssumption
    <3>. QED
      BY <3>1, <3>2, IntComesBack, SpecialComesBack, Zenon
  <2>. QED
    BY <2>1, <2>2 DEF SetMaxQueue, SetDelay
<1>6. rdb' \in DbMap
  BY <1>2, <1>3
<1>. QED
  BY <1>4, <1>5, <1>6, FreshItem

\* A put and a get that hands a message out write an item last.
LEMMA WorkRtag ==
  ASSUME IInv, RtagInv, GetOk \/ \E len \in Lens : PutOk(len)
  PROVE  RtagInv'
<1>1. rdb \in DbMap /\ DOMAIN rtag = {rdb.cur_index} /\ wdb \in DbMap
  BY DEF IInv, TypeOK, DescriptorTypeOK, FilesMatchCursors
<1>2. ToInt(wlock' % Width) = wlock'
  <2>1. wlock' = wlock
    BY Zenon DEF GetOk, PutOk, config
  <2>. QED
    BY <2>1, Zenon DEF RtagInv
<1>3. ASSUME NEW len \in Lens, PutOk(len)
      PROVE  RtagInv'
  <2>1. /\ rdb' = rdb /\ UNCHANGED <<maxque, delay, wlock>>
        /\ rtag' = [rtag EXCEPT ![rdb.cur_index] = Item(rdb, wdb', maxque, delay, wlock)]
    BY <1>3, Zenon DEF PutOk, config
  <2>2. rtag'[rdb'.cur_index] = Item(rdb', wdb', maxque', delay', wlock')
    BY <1>1, <2>1
  <2>3. rdb' \in DbMap
    BY <1>1, <2>1
  <2>. QED
    BY <1>2, <2>2, <2>3, FreshItem
<1>4. ASSUME GetOk
      PROVE  RtagInv'
  <2>. DEFINE m == NextMsg
  <2>1. /\ unread_count >= 1
        /\ rdb' = [ReadPos(m.file, EndOf(m)) EXCEPT !.opt_count = @ + 1]
        /\ rtag' = [MovedRtag(m.file) EXCEPT ![m.file] = Item(rdb', wdb, maxque, delay, wlock)]
        /\ UNCHANGED <<wdb, maxque, delay, wlock>>
    BY <1>4, Zenon DEF GetOk, config
  <2>2. m.file \in Nat /\ EndOf(m) \in Nat
    BY <2>1, NextPlace DEF Message
  <2>3. DOMAIN MovedRtag(m.file) = {m.file}
    BY <2>2, MovedRtagType
  <2>. HIDE DEF m
  <2>4. ReadPos(m.file, EndOf(m)) \in DbMap /\ ReadPos(m.file, EndOf(m)).cur_index = m.file
    BY <1>1, <2>2 DEF ReadPos, DbMap
  <2>5. rdb' \in DbMap /\ rdb'.cur_index = m.file
    BY <2>1, <2>4, CountedType
  <2>6. rtag'[rdb'.cur_index] = Item(rdb', wdb', maxque', delay', wlock')
    BY <2>1, <2>3, <2>5
  <2>. QED
    BY <1>2, <2>5, <2>6, FreshItem
<1>. QED
  BY <1>3, <1>4

\* A server that starts from the last rtag item continues where this one is,
\* after every request.
THEOREM RtagDescribes == Spec => []RtagDescribesQueue
<1>1. Init => RtagInv
  <2>. SUFFICES ASSUME Init PROVE RtagInv
    OBVIOUS
  <2>. DEFINE item == rtag[rdb.cur_index]
  <2>1. /\ item.rpos = 0 /\ item.rcount = 0 /\ item.wpos = 0 /\ item.wlock = 0
        /\ item.maxque = maxque /\ item.delay = delay
        /\ rdb.pos = DbFileHeadLen /\ rdb.opt_count = 0
        /\ put_num = 0 /\ wlock = 0 /\ msgs = {}
    BY DEF Init, NewRtag, NewMap
  <2>2. ToInt(0) = 0
    <3>1. 0 % Width = 0
      BY ModSmall, ConfigAssumption
    <3>. QED
      BY <3>1, SpecialComesBack
  <2>3. ToInt(wlock % Width) = wlock
    BY <2>1, SpecialComesBack
  <2>4. {m \in InFile(rdb.cur_index) : m.pos >= item.rpos}
          = {m \in InFile(rdb.cur_index) : m.pos >= rdb.pos}
    BY <2>1 DEF InFile
  <2>5. item.rpos <= rdb.pos
    BY <2>1, SizeAssumption
  <2>6. <<item.maxque, item.delay, ToInt(item.wlock)>> = <<maxque, delay, wlock>>
    BY <2>1, <2>2
  <2>7. item.rcount = rdb.opt_count /\ item.wpos = 0 /\ put_num = 0
    BY <2>1
  <2>. QED
    BY <2>3, <2>4, <2>5, <2>6, <2>7, Zenon DEF RtagInv, RtagDescribesQueue, config
<1>2. IInv /\ RtagInv /\ [Next]_vars => RtagInv'
  <2>. SUFFICES ASSUME IInv, RtagInv, [Next]_vars PROVE RtagInv'
    OBVIOUS
  <2>1. CASE UNCHANGED <<msgs, rtag, rdb, wdb, put_num, maxque, delay, wlock>>
    <3>1. /\ msgs' = msgs /\ rtag' = rtag /\ rdb' = rdb /\ wdb' = wdb /\ put_num' = put_num
          /\ maxque' = maxque /\ delay' = delay /\ wlock' = wlock
      BY <2>1, Zenon
    <3>. QED
      BY <3>1, Zenon DEF RtagInv, RtagDescribesQueue, config, InFile, ToInt
  <2>2. \/ UNCHANGED <<msgs, rtag, rdb, wdb, put_num, maxque, delay, wlock>>
        \/ \E len \in Lens : PutOk(len)
        \/ \E len \in Lens : PutNoSpace(len)
        \/ GetEnd \/ GetDelayed \/ GetOk
        \/ \E n \in MaxQueues : SetMaxQueue(n)
        \/ \E d \in Delays : SetDelay(d)
        \/ \E w \in Wlocks : SetWlock(w)
    BY DEF Next, vars, files, cursors, counters, config, PutFull, PutWlocked, Get,
           GetEmpty, GetNothing, Tick
  <2>3. ~GetEnd
    BY NextIsOldest DEF GetEnd
  <2>4. (\E len \in Lens : PutNoSpace(len))
          => UNCHANGED <<msgs, rtag, rdb, wdb, put_num, maxque, delay, wlock>>
    BY NoSpaceKeeps
  <2>. QED
    BY <2>1, <2>2, <2>3, <2>4, SetRtag, WorkRtag, DelayedRtag
<1>3. RtagInv => RtagDescribesQueue
  BY DEF RtagInv
<1>. QED
  BY <1>1, <1>2, <1>3, InvariantHolds, PTL DEF Spec

(***************************************************************************)
(* The refinement of FifoQueue                                             *)
(***************************************************************************)

\* Reachable messages up to a number are as many as there are numbers.
LEMMA ReachableUpTo ==
  ASSUME IInv, NEW k \in get_num .. accepted
  PROVE  Cardinality({n \in Reachable : n.id <= k}) = k - get_num
<1>. DEFINE S == {n \in Reachable : n.id <= k}
            T == (get_num + 1) .. k
            id == [n \in S |-> n.id]
<1>1. /\ get_num \in Nat /\ accepted \in Nat /\ k \in Nat /\ get_num <= k /\ k <= accepted
      /\ \A n \in msgs : n.id \in Nat
      /\ \A i \in (get_num + 1) .. accepted : \E n \in msgs : n.id = i
  BY DEF IInv, TypeOK, DbTypeOK, DescriptorTypeOK, NumbersStored, Message
<1>2. IsFiniteSet(T) /\ Cardinality(T) = k - get_num
  <2>1. /\ IsFiniteSet(T)
        /\ Cardinality(T) = IF get_num + 1 > k THEN 0 ELSE k - (get_num + 1) + 1
    BY <1>1, FS_Interval
  <2>. QED
    BY <2>1, <1>1
<1>3. id \in [S -> T]
  BY <1>1, ReachableIsNew
<1>4. ASSUME NEW m \in S, NEW n \in S, id[m] = id[n]
      PROVE  m = n
  BY <1>4, ReachableIsNew DEF IInv, MsgsInOrder
<1>5. id \in Injection(S, T)
  BY <1>3, <1>4 DEF Injection, IsInjective
<1>6. ASSUME NEW i \in T
      PROVE  \E m \in S : id[m] = i
  BY <1>1, ReachableIsNew
<1>7. id \in Surjection(S, T)
  BY <1>3, <1>6 DEF Surjection
<1>. QED
  BY <1>2, <1>5, <1>7, FS_Injection

\* The scan meets reachable messages in the order of their numbers.
LEMMA ScanOrder ==
  ASSUME IInv, NEW m \in Reachable, NEW n \in Reachable
  PROVE  Before(n, m) <=> n.id < m.id
<1>1. m \in msgs /\ n \in msgs
  BY DEF Reachable
<1>2. m \in Message /\ n \in Message
  BY <1>1 DEF IInv, TypeOK, DbTypeOK
<1>3. /\ EndOf(m) \in Nat /\ m.pos < EndOf(m)
      /\ EndOf(n) \in Nat /\ n.pos < EndOf(n)
      /\ m.id \in Nat /\ n.id \in Nat /\ m.file \in Nat /\ n.file \in Nat
      /\ m.pos \in Nat /\ n.pos \in Nat
  BY <1>2, EndOfBound, SizeAssumption DEF Message
<1>4. /\ m.id = n.id => m = n
      /\ m.id < n.id => m.file < n.file \/ (m.file = n.file /\ EndOf(m) <= n.pos)
      /\ n.id < m.id => n.file < m.file \/ (n.file = m.file /\ EndOf(n) <= m.pos)
  BY <1>1 DEF IInv, MsgsInOrder
<1>. QED
  BY <1>3, <1>4 DEF Before

\* The numbers from g + 1 on.
Numbers(g, n) == [i \in 1 .. n |-> g + i]

\* The queue seen from outside has the numbers that were accepted and not
\* delivered, in order.
FifoIsNumbers == FifoOf(Reachable) = Numbers(get_num, accepted - get_num)

\* The abstract queue is the numbers between those handed out and those accepted.
LEMMA FifoNow == IInv => FifoIsNumbers
<1>. SUFFICES ASSUME IInv
              PROVE  FifoOf(Reachable) = Numbers(get_num, accepted - get_num)
  BY DEF FifoIsNumbers
<1>1. /\ get_num \in Nat /\ accepted \in Nat /\ get_num <= accepted
      /\ unread_count = accepted - get_num
      /\ \A n \in msgs : n.id \in Nat /\ n.id <= accepted
      /\ \A i \in (get_num + 1) .. accepted : \E n \in msgs : n.id = i
  BY DEF IInv, TypeOK, DbTypeOK, DescriptorTypeOK, CountersAgree, NumbersStored, Message
<1>2. Cardinality(Reachable) = accepted - get_num
  BY <1>1, UnreadIsExactNow DEF UnreadIsExact
<1>3. ASSUME NEW n \in Reachable
      PROVE  Cardinality({k \in Reachable : Before(k, n)}) = n.id - 1 - get_num
  <2>1. n.id \in Nat /\ n.id > get_num /\ n.id <= accepted
    BY <1>1, ReachableIsNew
  <2>2. ASSUME NEW k \in Reachable
        PROVE  Before(k, n) <=> k.id <= n.id - 1
    <3>1. k.id \in Nat
      BY <1>1, ReachableIsNew
    <3>. QED
      BY <2>1, <3>1, ScanOrder
  <2>3. {k \in Reachable : Before(k, n)} = {k \in Reachable : k.id <= n.id - 1}
    BY <2>2
  <2>4. n.id - 1 \in get_num .. accepted
    BY <1>1, <2>1
  <2>. QED
    BY <2>3, <2>4, ReachableUpTo
<1>4. ASSUME NEW i \in 1 .. (accepted - get_num)
      PROVE  (CHOOSE m \in Reachable :
                Cardinality({n \in Reachable : Before(n, m)}) = i - 1).id = get_num + i
  <2>. DEFINE At(m) == Cardinality({n \in Reachable : Before(n, m)}) = i - 1
              c == CHOOSE m \in Reachable : At(m)
  <2>1. PICK m \in msgs : m.id = get_num + i
    BY <1>1
  <2>2. m \in Reachable
    BY <1>1, <2>1, ReachableIsNew
  <2>3. At(m)
    BY <1>1, <1>3, <2>1, <2>2
  <2>4. c \in Reachable /\ At(c)
    <3>. HIDE DEF At
    <3>. QED
      BY <2>2, <2>3
  <2>5. c.id - 1 - get_num = i - 1 /\ c.id \in Nat
    <3>1. c.id \in Nat
      BY <1>1, <2>4, ReachableIsNew
    <3>. QED
      BY <1>3, <2>4, <3>1
  <2>. HIDE DEF c
  <2>6. c.id = get_num + i
    BY <1>1, <2>5
  <2>. QED
    BY <2>6 DEF c
<1>5. FifoOf(Reachable) =
        [i \in 1 .. (accepted - get_num) |->
           (CHOOSE m \in Reachable :
              Cardinality({n \in Reachable : Before(n, m)}) = i - 1).id]
  BY <1>2 DEF FifoOf
<1>. QED
  BY <1>4, <1>5 DEF Numbers

\* Sequences of one length with the same members are one.
LEMMA SameSequence ==
  ASSUME NEW s \in Seq(Nat), NEW t \in Seq(Nat), NEW n \in Nat, Len(s) = n, Len(t) = n,
         \A i \in 1 .. n : s[i] = t[i]
  PROVE  s = t
OBVIOUS

\* Sequences of consecutive numbers.
LEMMA NumbersGrow ==
  ASSUME NEW g \in Nat, NEW n \in Nat
  PROVE  /\ Numbers(g, n) \in Seq(Nat) /\ Len(Numbers(g, n)) = n
         /\ Numbers(g, n + 1) = Append(Numbers(g, n), n + g + 1)
<1>1. Numbers(g, n) \in Seq(Nat) /\ Len(Numbers(g, n)) = n
  BY DEF Numbers
<1>2. Numbers(g, n + 1) \in Seq(Nat) /\ Len(Numbers(g, n + 1)) = n + 1
  BY DEF Numbers
<1>3. Append(Numbers(g, n), n + g + 1) \in Seq(Nat)
      /\ Len(Append(Numbers(g, n), n + g + 1)) = n + 1
  BY <1>1
<1>4. ASSUME NEW i \in 1 .. (n + 1)
      PROVE  Numbers(g, n + 1)[i] = Append(Numbers(g, n), n + g + 1)[i]
  BY <1>1 DEF Numbers
<1>. QED
  BY <1>2, <1>3, <1>4, SameSequence

\* Taking the first number off.
LEMMA NumbersShrink ==
  ASSUME NEW g \in Nat, NEW n \in Nat, n > 0
  PROVE  /\ Numbers(g, n) # << >>
         /\ Head(Numbers(g, n)) = g + 1
         /\ Tail(Numbers(g, n)) = Numbers(g + 1, n - 1)
<1>1. Numbers(g, n) \in Seq(Nat) /\ Len(Numbers(g, n)) = n
  BY DEF Numbers
<1>2. Numbers(g + 1, n - 1) \in Seq(Nat) /\ Len(Numbers(g + 1, n - 1)) = n - 1
  BY DEF Numbers
<1>3. Numbers(g, n) # << >> /\ Head(Numbers(g, n)) = g + 1
  BY <1>1 DEF Numbers
<1>4. Tail(Numbers(g, n)) \in Seq(Nat) /\ Len(Tail(Numbers(g, n))) = n - 1
  BY <1>1
<1>5. ASSUME NEW i \in 1 .. (n - 1)
      PROVE  Tail(Numbers(g, n))[i] = Numbers(g + 1, n - 1)[i]
  BY <1>1 DEF Numbers
<1>6. n - 1 \in Nat
  OBVIOUS
<1>7. Tail(Numbers(g, n)) = Numbers(g + 1, n - 1)
  BY <1>2, <1>4, <1>5, <1>6, SameSequence
<1>. QED
  BY <1>3, <1>7

\* Every step of the store is a step of the queue or changes nothing there.
LEMMA FifoStep ==
  ASSUME IInv, [Next]_vars, FifoIsNumbers, FifoIsNumbers'
  PROVE  [Fifo!FifoNext]_(Fifo!fifoVars)
<1>. DEFINE queue == FifoOf(Reachable)
            n == accepted - get_num
<1>1. /\ get_num \in Nat /\ accepted \in Nat /\ n \in Nat
      /\ Len(delivered) = get_num /\ unread_count = n
  BY DEF IInv, TypeOK, DescriptorTypeOK, CountersAgree
<1>2. CASE \E len \in Lens : PutOk(len)
  <2>1. accepted' = accepted + 1 /\ get_num' = get_num /\ delivered' = delivered
    BY <1>2 DEF PutOk
  <2>2. accepted' - get_num' = n + 1
    BY <1>1, <2>1
  <2>3. queue = Numbers(get_num, n) /\ queue' = Numbers(get_num, n + 1)
    BY <2>1, <2>2, Zenon DEF FifoIsNumbers
  <2>. HIDE DEF n, queue
  <2>4. Len(queue) = n /\ queue' = Append(queue, n + get_num + 1)
    BY <1>1, <2>3, NumbersGrow
  <2>5. queue' = Append(queue, Len(queue) + Len(delivered) + 1)
    BY <1>1, <2>4
  <2>. QED
    BY <2>1, <2>5, Zenon DEF Fifo!FifoNext, Fifo!Accept, queue
<1>3. CASE GetOk
  <2>1. /\ unread_count >= 1 /\ get_num' = get_num + 1 /\ accepted' = accepted
        /\ delivered' = Append(delivered, NextMsg.id)
    BY <1>3 DEF GetOk
  <2>2. NextMsg.id = get_num + 1
    BY <2>1, NextIsOldest
  <2>3. accepted' - get_num' = n - 1 /\ n > 0
    BY <1>1, <2>1
  <2>4. queue = Numbers(get_num, n) /\ queue' = Numbers(get_num + 1, n - 1)
    BY <2>1, <2>3, Zenon DEF FifoIsNumbers
  <2>. HIDE DEF n, queue
  <2>5. queue # << >> /\ Head(queue) = get_num + 1 /\ queue' = Tail(queue)
    BY <1>1, <2>3, <2>4, NumbersShrink
  <2>6. delivered' = Append(delivered, Head(queue))
    BY <2>1, <2>2, <2>5
  <2>. QED
    BY <2>5, <2>6, Zenon DEF Fifo!FifoNext, Fifo!Deliver, queue
<1>4. CASE UNCHANGED <<accepted, get_num, delivered>>
  <2>1. queue' = queue /\ delivered' = delivered
    BY <1>4 DEF FifoIsNumbers
  <2>. QED
    BY <2>1, Zenon DEF Fifo!fifoVars
<1>5. \/ \E len \in Lens : PutOk(len)
      \/ GetOk
      \/ UNCHANGED <<accepted, get_num, delivered>>
  BY DEF Next, vars, counters, history, PutFull, PutWlocked, PutNoSpace, Get, GetEmpty,
         GetNothing, GetEnd, GetDelayed, SetMaxQueue, SetDelay, SetWlock, Configured, Tick
<1>. QED
  BY <1>2, <1>3, <1>4, <1>5

\* The files, cursors and counters implement a first-in first-out queue.
THEOREM StoreImplementsFifo == Spec => ImplementsFifo
<1>1. Init => Fifo!FifoInit
  <2>. SUFFICES ASSUME Init PROVE Fifo!FifoInit
    OBVIOUS
  <2>1. get_num = 0 /\ accepted = 0
    BY DEF Init
  <2>2. delivered = << >>
    BY Zenon DEF Init
  <2>3. FifoOf(Reachable) = Numbers(0, 0)
    BY <2>1, InitIInv, FifoNow DEF FifoIsNumbers
  <2>4. Numbers(0, 0) = << >>
    BY DEF Numbers
  <2>. QED
    BY <2>2, <2>3, <2>4 DEF Fifo!FifoInit
<1>2. IInv /\ FifoIsNumbers /\ FifoIsNumbers' /\ [Next]_vars
        => [Fifo!FifoNext]_(Fifo!fifoVars)
  BY FifoStep
<1>. QED
  BY <1>1, <1>2, InvariantHolds, FifoNow, PTL DEF Spec, ImplementsFifo, Fifo!FifoSpec
==============================================================================
