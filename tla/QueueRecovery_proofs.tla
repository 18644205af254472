------------------------- MODULE QueueRecovery_proofs -------------------------
(***************************************************************************)
(* Proofs about QueueRecovery, for every file size, length and setting,    *)
(* any number of messages and any number of deaths at any point.           *)
(*                                                                         *)
(* Whether a queue is served or waits in its directory for the next start, *)
(* a pair of cursors describes it: those of the descriptor, and those a    *)
(* start would read from the rtag item.  The proofs are about messages and *)
(* such a pair, the read cursor at q of file R and the write cursor at p   *)
(* of file W, with a set S of messages and a set D of numbers that were    *)
(* handed out.                                                             *)
(***************************************************************************)
EXTENDS QueueRecovery, QueueStore_proofs, SequenceTheorems, NaturalsInduction,
        WellFoundedInduction

\* The numbers handed out.
Told == {delivered[i] : i \in DOMAIN delivered}

\* A message that lies in front of the write cursor, and any message once the
\* write cursor has left the head of its file.  The others were written before
\* an unanswered request, start-up has gone back before them, and they are
\* overwritten before a reader can come to them.
Live(m, W, p) == m.file < W \/ EndOf(m) <= p \/ p > DbFileHeadLen

\* The cursors are in order, and the only messages behind the write cursor are
\* those a death has left: at the cursor, or behind the head of the file.
InPlace(S, R, q, W, p) ==
  /\ R <= W
  /\ R = W => q <= p
  /\ R < W => DbFileHeadLen <= p
  /\ \A m \in S :
       /\ R <= m.file /\ m.file <= W
       /\ m.file = W => \/ EndOf(m) <= p
                        \/ m.pos = p
                        \/ m.pos = DbFileHeadLen /\ p <= DbFileHeadLen

\* Messages lie in the order of their numbers.
Ordered(S, W, p) ==
  \A m, n \in S :
    Live(m, W, p) /\ Live(n, W, p) /\ m.id < n.id =>
      m.file < n.file \/ (m.file = n.file /\ EndOf(m) <= n.pos)

\* Whatever a reader will meet is younger than everything handed out.
Ahead(S, D, R, q, W, p) ==
  \A m \in S :
    Live(m, W, p) /\ (m.file > R \/ m.pos >= q) => \A d \in D : d < m.id

Good(S, D, R, q, W, p) ==
  InPlace(S, R, q, W, p) /\ Ordered(S, W, p) /\ Ahead(S, D, R, q, W, p)

\* What a reader meets, as in Reachable.
ReachedAt(m, R, q, W, p) ==
  /\ \/ m.file = R /\ m.pos >= q
     \/ m.file \in (R + 1) .. W /\ m.pos >= DbFileHeadLen
  /\ m.file = W => m.pos + MsgHeadLen < p

\* A reader will meet all of the messages in E.
Kept(S, E, R, q, W, p) ==
  \A i \in E : \E m \in S : m.id = i /\ ReachedAt(m, R, q, W, p)

(***************************************************************************)
(* Messages and a pair of cursors                                          *)
(***************************************************************************)

\* The numbers of the sizes.
LEMMA Sizes ==
  DbFileHeadLen \in Nat /\ DbFileHeadLen > 0 /\ MsgHeadLen \in Nat /\ MsgHeadLen >= 1
BY SizeAssumption, CrashAssumption

\* The fields of a message.
LEMMA MessageFields ==
  ASSUME NEW m \in Message
  PROVE  /\ m.id \in Nat /\ m.file \in Nat /\ m.pos \in Nat
         /\ EndOf(m) \in Nat /\ m.pos + MsgHeadLen < EndOf(m) /\ m.pos < EndOf(m)
<1>1. m.id \in Nat /\ m.file \in Nat /\ m.pos \in Nat
  BY DEF Message
<1>2. EndOf(m) \in Nat /\ m.pos + MsgHeadLen < EndOf(m)
  BY EndOfBound
<1> QED
  BY <1>1, <1>2, Sizes

\* Fewer messages.
LEMMA GoodFewer ==
  ASSUME NEW S, NEW T \in SUBSET S, NEW D, NEW R, NEW q, NEW W, NEW p,
         Good(S, D, R, q, W, p)
  PROVE  Good(T, D, R, q, W, p)
BY DEF Good, InPlace, Ordered, Ahead

\* The read cursor moves forward and the files it leaves are unlinked.
LEMMA GoodRead ==
  ASSUME NEW S \in SUBSET Message, NEW D, NEW R \in Nat, NEW q \in Nat,
         NEW W \in Nat, NEW p \in Nat, Good(S, D, R, q, W, p),
         NEW f \in Nat, NEW x \in Nat, R <= f, f <= W,
         f = R => q <= x, f = W => x <= p
  PROVE  Good({m \in S : m.file >= f}, D, f, x, W, p)
<1> DEFINE T == {m \in S : m.file >= f}
<1>1. \A m \in T : m \in S /\ m.file >= f /\ m.file \in Nat /\ m.pos \in Nat
  BY MessageFields
<1>2. R < W => DbFileHeadLen <= p
  BY DEF Good, InPlace
<1>3. f < W => R < W
  OBVIOUS
<1>4. InPlace(T, f, x, W, p)
  BY <1>1, <1>2, <1>3 DEF Good, InPlace
<1>5. Ordered(T, W, p)
  BY DEF Good, Ordered
<1>6. \A m \in T : (m.file > f \/ m.pos >= x) => (m.file > R \/ m.pos >= q)
  BY <1>1
<1>7. Ahead(T, D, f, x, W, p)
  BY <1>1, <1>6 DEF Good, Ahead
<1> QED
  BY <1>4, <1>5, <1>7 DEF Good

\* One more number is handed out, of which everything ahead is younger.
LEMMA GoodTold ==
  ASSUME NEW S, NEW D, NEW R, NEW q, NEW W, NEW p, Good(S, D, R, q, W, p), NEW d,
         \A m \in S : Live(m, W, p) /\ (m.file > R \/ m.pos >= q) => d < m.id
  PROVE  Good(S, D \cup {d}, R, q, W, p)
BY DEF Good, Ahead

\* The next db file is there.
LEMMA GoodRotate ==
  ASSUME NEW S \in SUBSET Message, NEW D, NEW R \in Nat, NEW q \in Nat,
         NEW W \in Nat, NEW p \in Nat, Good(S, D, R, q, W, p), p > DbFileHeadLen,
         NEW x \in Nat, x >= DbFileHeadLen
  PROVE  Good(S, D, R, q, W + 1, x)
<1>1. \A m \in S : m.file \in Nat /\ R <= m.file /\ m.file <= W /\ m.file < W + 1
  BY MessageFields DEF Good, InPlace
<1>2. \A m \in S : Live(m, W, p) /\ Live(m, W + 1, x)
  BY <1>1 DEF Live
<1>3. R <= W + 1 /\ R # W + 1
  BY DEF Good, InPlace
<1>4. InPlace(S, R, q, W + 1, x)
  BY <1>1, <1>3 DEF InPlace
<1> QED
  BY <1>2, <1>4 DEF Good, Ordered, Ahead

\* A message is written at the write cursor, which moves behind it or, if the
\* process dies, stays for the next start.
LEMMA GoodWrite ==
  ASSUME NEW S \in SUBSET Message, NEW D, NEW R \in Nat, NEW q \in Nat,
         NEW W \in Nat, NEW p \in Nat, Good(S, D, R, q, W, p),
         NEW m \in Message, m.file = W, m.pos = p,
         \A n \in S : n.id < m.id, \A d \in D : d < m.id,
         NEW x \in {p, EndOf(m)}
  PROVE  Good(Overwrite(S, W, p, EndOf(m)) \cup {m}, D, R, q, W, x)
<1> DEFINE H == DbFileHeadLen
           T == Overwrite(S, W, p, EndOf(m))
<1>1. /\ m.id \in Nat /\ EndOf(m) \in Nat /\ p < EndOf(m) /\ x \in Nat /\ p <= x
      /\ H \in Nat
  BY MessageFields, Sizes
<1>2. ASSUME NEW n \in T
      PROVE  /\ n \in S /\ n.id \in Nat /\ n.file \in Nat /\ n.pos \in Nat /\ EndOf(n) \in Nat
             /\ n.pos < EndOf(n)
             /\ R <= n.file /\ n.file <= W
             /\ n.file = W => EndOf(n) <= p \/ (EndOf(m) <= n.pos /\ n.pos = H /\ p <= H)
             /\ Live(n, W, x) => Live(n, W, p) /\ (n.file < W \/ EndOf(n) <= p)
  <2>1. n \in S /\ n \in Message
    BY DEF Overwrite
  <2>2. /\ n.id \in Nat /\ n.file \in Nat /\ n.pos \in Nat /\ EndOf(n) \in Nat
        /\ n.pos < EndOf(n)
    BY <2>1, MessageFields
  <2>3. n.file # W \/ EndOf(n) <= p \/ EndOf(m) <= n.pos
    BY DEF Overwrite
  <2>4. /\ R <= n.file /\ n.file <= W
        /\ n.file = W => EndOf(n) <= p \/ n.pos = p \/ (n.pos = H /\ p <= H)
    BY <2>1 DEF Good, InPlace
  <2>5. n.file = W => EndOf(n) <= p \/ (EndOf(m) <= n.pos /\ n.pos = H /\ p <= H)
    BY <1>1, <2>2, <2>3, <2>4
  <2>6. ASSUME Live(n, W, x)
        PROVE  n.file < W \/ EndOf(n) <= p
    <3>1. CASE n.file = W /\ EndOf(m) <= n.pos /\ n.pos = H
      <4>1. x <= H /\ x < EndOf(n)
        BY <1>1, <2>2, <3>1
      <4> QED
        BY <1>1, <2>2, <2>6, <3>1, <4>1 DEF Live
    <3> QED
      BY <2>2, <2>4, <2>5, <3>1
  <2> QED
    BY <2>1, <2>2, <2>4, <2>5, <2>6 DEF Live
<1>3. m.file \in Nat /\ m.pos \in Nat /\ m \notin T
  BY <1>2, <1>1
<1>4. InPlace(T \cup {m}, R, q, W, x)
  <2>1. R <= W /\ (R = W => q <= x) /\ (R < W => H <= x)
    BY <1>1 DEF Good, InPlace
  <2>2. ASSUME NEW n \in T
        PROVE  /\ R <= n.file /\ n.file <= W
               /\ n.file = W => EndOf(n) <= x \/ n.pos = x \/ (n.pos = H /\ x <= H)
    BY <1>1, <1>2
  <2>3. R <= m.file /\ m.file <= W /\ (EndOf(m) <= x \/ m.pos = x)
    BY <1>1, <2>1
  <2> QED
    BY <2>1, <2>2, <2>3 DEF InPlace
<1>5. Ordered(T \cup {m}, W, x)
  <2>1. ASSUME NEW n \in T, NEW k \in T, Live(n, W, x), Live(k, W, x), n.id < k.id
        PROVE  n.file < k.file \/ (n.file = k.file /\ EndOf(n) <= k.pos)
    BY <1>2, <2>1 DEF Good, Ordered
  <2>2. ASSUME NEW n \in T, Live(n, W, x)
        PROVE  n.file < W \/ (n.file = W /\ EndOf(n) <= p)
    BY <1>2, <2>2
  <2>3. \A n \in T : ~(m.id < n.id)
    BY <1>1, <1>2
  <2>4. ~(m.id < m.id)
    BY <1>1
  <2>5. ASSUME NEW n \in T \cup {m}, NEW k \in T \cup {m},
               Live(n, W, x), Live(k, W, x), n.id < k.id
        PROVE  n.file < k.file \/ (n.file = k.file /\ EndOf(n) <= k.pos)
    <3>1. CASE k = m
      BY <2>2, <2>4, <2>5, <3>1
    <3>2. CASE k \in T
      <4>1. n \in T
        BY <2>3, <2>5, <3>2
      <4> QED
        BY <2>1, <2>5, <3>2, <4>1
    <3> QED
      BY <3>1, <3>2
  <2> QED
    BY <2>5 DEF Ordered
<1>6. Ahead(T \cup {m}, D, R, q, W, x)
  BY <1>2 DEF Good, Ahead
<1> QED
  BY <1>4, <1>5, <1>6 DEF Good

\* A reader meets only messages in front of the write cursor, none of which was
\* handed out.
LEMMA ReachedLive ==
  ASSUME NEW S \in SUBSET Message, NEW D, NEW R \in Nat, NEW q \in Nat,
         NEW W \in Nat, NEW p \in Nat, Good(S, D, R, q, W, p),
         NEW m \in S, ReachedAt(m, R, q, W, p)
  PROVE  /\ m.file < W \/ (m.file = W /\ EndOf(m) <= p)
         /\ Live(m, W, p)
         /\ m.file > R \/ (m.file = R /\ m.pos >= q)
         /\ \A d \in D : d < m.id
<1>1. m.file \in Nat /\ m.pos \in Nat /\ EndOf(m) \in Nat
  BY MessageFields
<1>2. /\ R <= m.file /\ m.file <= W
      /\ m.file = W => EndOf(m) <= p \/ m.pos = p \/ (m.pos = DbFileHeadLen /\ p <= DbFileHeadLen)
  BY DEF Good, InPlace
<1>3. m.file = W => m.pos < p
  BY <1>1, Sizes DEF ReachedAt
<1>4. m.file < W \/ (m.file = W /\ EndOf(m) <= p)
  BY <1>1, <1>2, <1>3, Sizes
<1>5. m.file > R \/ (m.file = R /\ m.pos >= q)
  BY <1>1, <1>2 DEF ReachedAt
<1>6. Live(m, W, p)
  BY <1>4 DEF Live
<1> QED
  BY <1>4, <1>5, <1>6 DEF Good, Ahead

\* The next db file is there: nothing is lost.
LEMMA KeptRotate ==
  ASSUME NEW S \in SUBSET Message, NEW E, NEW D, NEW R \in Nat, NEW q \in Nat,
         NEW W \in Nat, NEW p \in Nat, NEW x, Good(S, D, R, q, W, p),
         Kept(S, E, R, q, W, p)
  PROVE  Kept(S, E, R, q, W + 1, x)
<1>1. ASSUME NEW m \in S, ReachedAt(m, R, q, W, p)
      PROVE  ReachedAt(m, R, q, W + 1, x)
  <2>1. m.file \in Nat /\ m.file <= W
    BY MessageFields DEF Good, InPlace
  <2>2. m.file # W + 1 /\ (m.file \in (R + 1) .. W => m.file \in (R + 1) .. (W + 1))
    BY <2>1
  <2> QED
    BY <1>1, <2>2 DEF ReachedAt
<1> QED
  BY <1>1 DEF Kept

\* A message is written at the write cursor: nothing is lost, and it will be met
\* itself once the cursor is behind it.
LEMMA KeptWrite ==
  ASSUME NEW S \in SUBSET Message, NEW E, NEW D, NEW R \in Nat, NEW q \in Nat,
         NEW W \in Nat, NEW p \in Nat, Good(S, D, R, q, W, p),
         Kept(S, E, R, q, W, p),
         NEW m \in Message, m.file = W, m.pos = p, NEW x \in {p, EndOf(m)}
  PROVE  /\ Kept(Overwrite(S, W, p, EndOf(m)) \cup {m}, E, R, q, W, x)
         /\ x = EndOf(m) => Kept(Overwrite(S, W, p, EndOf(m)) \cup {m}, E \cup {m.id}, R, q, W, x)
<1> DEFINE T == Overwrite(S, W, p, EndOf(m)) \cup {m}
<1>1. EndOf(m) \in Nat /\ p < EndOf(m) /\ p + MsgHeadLen < EndOf(m) /\ x \in Nat /\ p <= x
  BY MessageFields, Sizes
<1>2. ASSUME NEW n \in S, ReachedAt(n, R, q, W, p)
      PROVE  n \in T /\ ReachedAt(n, R, q, W, x)
  <2>1. n.file < W \/ (n.file = W /\ EndOf(n) <= p)
    BY <1>2, ReachedLive
  <2>2. n.file \in Nat /\ n.pos \in Nat
    BY MessageFields
  <2>3. n.file # W \/ EndOf(n) <= p
    BY <2>1, <2>2
  <2>4. n \in T
    BY <2>3 DEF Overwrite
  <2>5. n.file = W => n.pos + MsgHeadLen < x
    BY <1>1, <1>2, <2>2, Sizes DEF ReachedAt
  <2> QED
    BY <1>2, <2>4, <2>5 DEF ReachedAt
<1>3. Kept(T, E, R, q, W, x)
  BY <1>2 DEF Kept
<1>4. ASSUME x = EndOf(m)
      PROVE  ReachedAt(m, R, q, W, x)
  <2>1. R <= W /\ (R = W => q <= p) /\ (R < W => DbFileHeadLen <= p)
    BY DEF Good, InPlace
  <2>2. R = W \/ W \in (R + 1) .. W
    BY <2>1
  <2> QED
    BY <1>1, <1>4, <2>1, <2>2, Sizes DEF ReachedAt
<1> QED
  BY <1>3, <1>4 DEF Kept


(***************************************************************************)
(* The invariant                                                           *)
(***************************************************************************)

\* Whatever has happened to the files.
FilesInv ==
  /\ \E b \in Nat : \A f \in DOMAIN db : f <= b
  /\ \A s \in short : \A f \in DOMAIN db : f <= s
  /\ status = "open" =>
       /\ short = {}
       /\ \A f \in DOMAIN db : f <= wdb.cur_index
       /\ ToInt(wlock % Width) = wlock

MsgsInv ==
  /\ \A m \in msgs : /\ 1 <= m.id /\ m.id <= accepted
                     /\ m.id > base \/ m.id \in doubtful
  /\ \A m, n \in msgs : m.id = n.id => m = n
  /\ \A m, n \in msgs : m.file = n.file /\ m.pos = n.pos => m = n
  /\ \A d \in Told : d <= accepted

\* The item of rtag file f is one a start would use: X are the db files, from f
\* to b, and r the rtag files.
ItemAt(r, X, f, b) == r[f] # EmptyFile /\ f <= b /\ X = f .. b

\* The cursors of such an item are good.
ItemsGood(S, D, X, r) ==
  \A f \in DOMAIN r, b \in Nat :
    ItemAt(r, X, f, b) => Good(S, D, f, r[f].rpos, b, r[f].wpos)

\* The item of a queue that was reset and not written to since.
Fresh(S, item, rd, wd) ==
  /\ S = {} /\ rd.cur_index = wd.cur_index /\ wd.pos = DbFileHeadLen
  /\ item.rpos = 0 /\ item.wpos = 0

\* The cursors rd and wd of the descriptor are good, and there is an item with
\* the position of wd.
CursorsGood(S, D, X, r, rd, wd) ==
  /\ X = rd.cur_index .. wd.cur_index
  /\ Good(S, D, rd.cur_index, rd.pos, wd.cur_index, wd.pos)
  /\ rd.cur_index \in DOMAIN r /\ r[rd.cur_index] # EmptyFile
  /\ r[rd.cur_index].wpos = wd.pos \/ Fresh(S, r[rd.cur_index], rd, wd)

\* Unless the process died in the middle of deleting the queue, its files are
\* in a row, and the cursors of the descriptor and of the items are good.
WholeInv ==
  "partial" \notin torn =>
    /\ \E a, b \in Nat : DOMAIN db = a .. b
    /\ status = "open" => CursorsGood(msgs, Told, DOMAIN db, rtag, rdb, wdb)
    /\ ItemsGood(msgs, Told, DOMAIN db, rtag)
    /\ AtMostOnceInOrder

\* Such an item, unless it is blank, reaches the messages with the numbers in E,
\* and it has the settings a.
ItemsSafe(S, E, X, r, a) ==
  \A f \in DOMAIN r, b \in Nat :
    ItemAt(r, X, f, b) =>
      /\ <<r[f].maxque, r[f].delay, ToInt(r[f].wlock)>> = a
      /\ ~Blank(r[f]) => /\ DbFileHeadLen <= r[f].rpos
                         /\ Kept(S, E, f, r[f].rpos, b, r[f].wpos)

\* The cursors of the descriptor reach the messages with the numbers in E.
CursorsSafe(S, E, rd, wd) ==
  /\ DbFileHeadLen <= rd.pos /\ DbFileHeadLen <= wd.pos
  /\ Kept(S, E, rd.cur_index, rd.pos, wd.cur_index, wd.pos)

\* Unless the process died where start-up does not recover from it, cursors of
\* descriptor and items reach the expected messages, and the settings are those
\* that were asked for.
SafeInv ==
  torn = {} =>
    /\ \A m \in msgs : DbFileHeadLen <= m.pos
    /\ \A f, g \in DOMAIN rtag : f = g
    /\ status = "open" => config = asked /\ CursorsSafe(msgs, Expected, rdb, wdb)
    /\ status = "unknown" => Expected = {}
    /\ status = "down" =>
         /\ Expected # {} => \E f \in DOMAIN rtag : HandleFile(f)
         /\ \A f \in DOMAIN rtag : ~Blank(rtag[f])
    /\ ItemsSafe(msgs, Expected, DOMAIN db, rtag, asked)

TypeInv == RecoveryTypeOK /\ FilesInv /\ MsgsInv

RecoveryInv == TypeInv /\ WholeInv /\ SafeInv

(***************************************************************************)
(* Types                                                                   *)
(***************************************************************************)

\* An item is not the contents of an empty file.
LEMMA ItemNotEmpty ==
  ASSUME NEW item \in RtagItem
  PROVE  item # EmptyFile
<1>1. DOMAIN item = {"rcount", "rpos", "wpos", "maxque", "delay", "wlock"}
  BY DEF RtagItem
<1>2. DOMAIN EmptyFile = {}
  BY DEF EmptyFile
<1> QED
  BY <1>1, <1>2

\* Some message comes first.
LEMMA NextReached ==
  ASSUME TypeInv, Reachable # {}
  PROVE  /\ NextMsg \in Reachable
         /\ \A n \in Reachable : n = NextMsg \/ Before(NextMsg, n)
<1> DEFINE Less == {e \in Nat \X Nat : e[1] < e[2]}
<1>0. IsWellFoundedOn(Less, Nat)
  BY NatLessThanWellFounded, Zenon DEF OpToRel
<1>1. \A m \in Reachable : m \in msgs /\ m \in Message /\ m.file \in Nat /\ m.pos \in Nat
  BY MessageFields DEF TypeInv, RecoveryTypeOK, DbTypeOK, Reachable
<1>2. PICK f \in Nat : /\ \E m \in Reachable : m.file = f
                       /\ \A m \in Reachable : ~(m.file < f)
  <2> DEFINE F == {m.file : m \in Reachable}
  <2>1. F \subseteq Nat /\ F # {}
    BY <1>1
  <2>2. PICK f \in F : \A g \in F : ~(<<g, f>> \in Less)
    BY <1>0, <2>1, WFMin
  <2>3. \A g \in F : ~(g < f)
    BY <2>1, <2>2
  <2> QED
    BY <2>1, <2>3
<1>3. PICK x \in Nat : /\ \E m \in Reachable : m.file = f /\ m.pos = x
                       /\ \A m \in Reachable : m.file = f => ~(m.pos < x)
  <2> DEFINE F == {m.pos : m \in {n \in Reachable : n.file = f}}
  <2>1. F \subseteq Nat /\ F # {}
    BY <1>1, <1>2
  <2>2. PICK x \in F : \A g \in F : ~(<<g, x>> \in Less)
    BY <1>0, <2>1, WFMin
  <2>3. \A g \in F : ~(g < x)
    BY <2>1, <2>2
  <2> QED
    BY <2>1, <2>3
<1>4. PICK m \in Reachable : m.file = f /\ m.pos = x
  BY <1>3
<1>5. ASSUME NEW n \in Reachable
      PROVE  n = m \/ Before(m, n)
  <2>1. n.file = f /\ n.pos = x => n = m
    BY <1>1, <1>4 DEF TypeInv, MsgsInv
  <2>2. n.file > f \/ (n.file = f /\ (n.pos = x \/ n.pos > x))
    BY <1>1, <1>2, <1>3
  <2> QED
    BY <1>4, <2>1, <2>2 DEF Before
<1> QED
  BY <1>4, <1>5 DEF NextMsg


\* The types of what the descriptor and the history hold.
LEMMA Typed ==
  ASSUME TypeInv
  PROVE  /\ rdb \in DbMap /\ wdb \in DbMap
         /\ rdb.cur_index \in Nat /\ rdb.pos \in Nat /\ rdb.opt_count \in Nat
         /\ wdb.cur_index \in Nat /\ wdb.pos \in Nat /\ wdb.opt_count \in Nat
         /\ maxque \in Nat /\ delay \in Nat /\ wlock \in Int /\ now \in Nat
         /\ accepted \in Nat /\ delivered \in Seq(Nat) /\ msgs \subseteq Message
         /\ base \in 0 .. accepted /\ doubtful \subseteq 1 .. accepted
BY DEF TypeInv, RecoveryTypeOK, DescriptorTypeOK, DbTypeOK, DbMap

\* The messages after a put that is admitted.
Written(len) ==
  LET m == NewMsg(len)
  IN  Overwrite(RotatedMsgs(len), m.file, m.pos, EndOf(m)) \cup {m}

\* What a step does to the db files and the messages in them.
FilesStay == UNCHANGED <<db, msgs, accepted, delivered>>

FilesGrow(len) ==
  /\ status = "open" /\ accepted < MaxPut
  /\ db' = RotatedDb(len) /\ msgs' = Written(len)
  /\ accepted' = accepted + 1 /\ delivered' = delivered

FilesRotate(len) ==
  /\ status = "open" /\ ~Fits(len)
  /\ db' = RotatedDb(len) /\ msgs' = RotatedMsgs(len)
  /\ UNCHANGED <<accepted, delivered>>

FilesMove(f) ==
  /\ status = "open" /\ MovedTo(f) /\ accepted' = accepted
  /\ \/ delivered' = delivered
     \/ GetOk /\ f = NextMsg.file

FilesScan(f) ==
  /\ status = "open"
  /\ DOMAIN db' = {h \in DOMAIN db : h >= f}
  /\ \A g \in DOMAIN db' : db'[g] \in Nat
  /\ msgs' \subseteq msgs
  /\ UNCHANGED <<accepted, delivered>>

FilesGo(dbs) ==
  /\ status # "down"
  /\ db' = [f \in dbs |-> db[f]]
  /\ msgs' = {m \in msgs : m.file \in dbs}
  /\ dbs \in {DOMAIN db, {}} \/ "partial" \in torn'
  /\ UNCHANGED <<accepted, delivered>>

FilesNew ==
  /\ status # "down"
  /\ db' \in {NewDb, << >>} /\ msgs' = {}
  /\ UNCHANGED <<accepted, delivered>>

FilesFirst(len) ==
  /\ status = "unknown"
  /\ db' = NewDb
  /\ msgs' = {[id |-> accepted + 1, file |-> 1, pos |-> DbFileHeadLen, len |-> len, time |-> now]}
  /\ accepted' = accepted + 1 /\ delivered' = delivered

\* The message a put writes is the one of NewMsg.
LEMMA NewMsgIs ==
  ASSUME NEW len
  PROVE  NewMsg(len) =
           [id |-> accepted + 1, file |-> WriteFile(len).cur_index,
            pos |-> WriteFile(len).pos, len |-> len, time |-> now]
BY DEF NewMsg

\* Where the scan of a get can stop.
LEMMA ScanPlace ==
  ASSUME TypeInv, Reachable # {}
  PROVE  /\ NextMsg \in msgs /\ NextMsg \in Message
         /\ NextMsg.file \in Nat /\ rdb.cur_index <= NextMsg.file
         /\ NextMsg.file = rdb.cur_index \/ NextMsg.file <= wdb.cur_index
<1>1. NextMsg \in Reachable
  BY NextReached
<1>2. NextMsg \in msgs /\ NextMsg \in Message
  BY <1>1, Typed DEF Reachable
<1>3. NextMsg.file \in Nat
  BY <1>2, MessageFields
<1>4. NextMsg.file = rdb.cur_index \/ NextMsg.file \in (rdb.cur_index + 1) .. wdb.cur_index
  BY <1>1 DEF Reachable
<1> QED
  BY <1>2, <1>3, <1>4, Typed

\* The process dies where the scan of a get has come to file f, or after a
\* refused rotation.
ScanDeath(f) ==
  /\ FilesScan(f)
  /\ f \in {rdb.cur_index, ScanTarget} \cup (rdb.cur_index .. ScanTarget)
  /\ \A m \in msgs' : m.file >= f
  /\ \A m \in msgs : m.file >= f /\ DbFileHeadLen <= m.pos => m \in msgs'
  /\ rtag' = MovedRtag(f)
  /\ UNCHANGED <<short, accepted, doubtful, base>>
  /\ Die({})

\* A refused rotation leaves the heads numbers and destroys no message that lies
\* behind the head.
LEMMA RefusedFiles ==
  ASSUME TypeInv
  PROVE  /\ DOMAIN RefusedDb = DOMAIN db /\ \A f \in DOMAIN db : RefusedDb[f] \in Nat
         /\ RefusedMsgs \subseteq msgs
         /\ \A m \in msgs : DbFileHeadLen <= m.pos => m \in RefusedMsgs
<1>1. (\A f \in DOMAIN db : db[f] \in Nat) /\ wdb.opt_count \in Nat
  BY Typed DEF TypeInv, RecoveryTypeOK, DbTypeOK
<1> QED
  BY <1>1 DEF RefusedDb, RefusedMsgs, Overwrite

\* Both deaths are of that kind.
LEMMA ScanDeaths ==
  ASSUME TypeInv
  PROVE  /\ \A len \in Lens, f \in {rdb.cur_index, wdb.cur_index} :
              CrashNoSpace(len, f) => f \in Nat /\ ScanDeath(f)
         /\ \A f \in rdb.cur_index .. ScanTarget : CrashInScan(f) => f \in Nat /\ ScanDeath(f)
<1>1. rdb.cur_index \in Nat /\ wdb.cur_index \in Nat /\ \A f \in DOMAIN db : db[f] \in Nat
  BY Typed DEF TypeInv, RecoveryTypeOK, DbTypeOK
<1>2. ASSUME NEW len \in Lens, NEW f \in {rdb.cur_index, wdb.cur_index}, CrashNoSpace(len, f)
      PROVE  f \in Nat /\ ScanDeath(f)
  <2>1. /\ status = "open" /\ f \in {rdb.cur_index, ScanTarget}
        /\ db' = [g \in {h \in DOMAIN db : h >= f} |-> RefusedDb[g]]
        /\ msgs' = {m \in RefusedMsgs : m.file >= f}
        /\ rtag' = MovedRtag(f)
        /\ UNCHANGED <<short, accepted, doubtful, base>>
        /\ Die({})
    BY <1>2 DEF CrashNoSpace
  <2>2. delivered' = delivered
    BY <2>1 DEF Die
  <2>3. DOMAIN db' = {h \in DOMAIN db : h >= f} /\ \A g \in DOMAIN db' : db'[g] \in Nat
    BY <2>1, RefusedFiles
  <2>4. msgs' \subseteq msgs
    BY <2>1, RefusedFiles
  <2>5. FilesScan(f)
    BY <2>1, <2>2, <2>3, <2>4 DEF FilesScan
  <2>6. /\ \A m \in msgs' : m.file >= f
        /\ \A m \in msgs : m.file >= f /\ DbFileHeadLen <= m.pos => m \in msgs'
    BY <2>1, RefusedFiles
  <2> QED
    BY <1>1, <2>1, <2>5, <2>6 DEF ScanDeath
<1>3. ASSUME NEW f \in rdb.cur_index .. ScanTarget, CrashInScan(f)
      PROVE  f \in Nat /\ ScanDeath(f)
  <2>1. /\ status = "open"
        /\ db' = [g \in {h \in DOMAIN db : h >= f} |-> db[g]]
        /\ msgs' = {m \in msgs : m.file >= f}
        /\ rtag' = MovedRtag(f)
        /\ UNCHANGED <<short, accepted, doubtful, base>>
        /\ Die({})
    BY <1>3 DEF CrashInScan, MovedTo
  <2>2. delivered' = delivered
    BY <2>1 DEF Die
  <2>3. DOMAIN db' = {h \in DOMAIN db : h >= f} /\ \A g \in DOMAIN db' : db'[g] \in Nat
    BY <1>1, <2>1
  <2>4. FilesScan(f)
    BY <2>1, <2>2, <2>3 DEF FilesScan
  <2>5. f \in Nat
    BY <1>1
  <2> QED
    BY <2>1, <2>4, <2>5 DEF ScanDeath
<1> QED
  BY <1>2, <1>3

\* Every step does one of these things.
LEMMA FileKinds ==
  ASSUME TypeInv, [AnyCrashNext]_recoveryVars
  PROVE  \/ FilesStay
         \/ \E len \in Lens : FilesGrow(len)
         \/ \E len \in Lens : FilesRotate(len)
         \/ \E f \in Nat : FilesMove(f)
         \/ \E f \in Nat : FilesScan(f)
         \/ \E dbs \in SUBSET DOMAIN db : FilesGo(dbs)
         \/ FilesNew
         \/ \E len \in Lens : FilesFirst(len)
<1>1. CASE UNCHANGED recoveryVars
  BY <1>1 DEF recoveryVars, vars, files, history, FilesStay
<1>2. CASE Serve
  <2>1. CASE PutFull \/ PutWlocked \/ GetEmpty \/ Tick
    BY <2>1 DEF PutFull, PutWlocked, GetEmpty, Tick, files, history, FilesStay
  <2>2. CASE \E n \in MaxQueues : SetMaxQueue(n)
    BY <2>2 DEF SetMaxQueue, Configured, history, FilesStay
  <2>3. CASE \E d \in Delays : SetDelay(d)
    BY <2>3 DEF SetDelay, Configured, history, FilesStay
  <2>4. CASE \E w \in Wlocks : SetWlock(w)
    BY <2>4 DEF SetWlock, Configured, history, FilesStay
  <2>5. ASSUME NEW len \in Lens, PutOk(len)
        PROVE  FilesGrow(len)
    <3>1. /\ accepted < MaxPut /\ db' = RotatedDb(len) /\ msgs' = Written(len)
          /\ accepted' = accepted + 1 /\ delivered' = delivered
      BY <2>5 DEF PutOk, Written, NewMsg
    <3> QED
      BY <1>2, <3>1 DEF Serve, FilesGrow
  <2>6. CASE GetEnd
    <3>1. MovedTo(wdb.cur_index) /\ UNCHANGED <<accepted, delivered>>
      BY <2>6 DEF GetEnd, history
    <3> QED
      BY <1>2, <3>1, Typed DEF Serve, FilesMove
  <2>7. CASE GetDelayed
    <3>1. MovedTo(NextMsg.file) /\ UNCHANGED <<accepted, delivered>> /\ Reachable # {}
      BY <2>7 DEF GetDelayed, history
    <3> QED
      BY <1>2, <3>1, ScanPlace DEF Serve, FilesMove
  <2>8. CASE GetOk
    <3>1. MovedTo(NextMsg.file) /\ accepted' = accepted /\ Reachable # {}
      BY <2>8 DEF GetOk
    <3> QED
      BY <1>2, <2>8, <3>1, ScanPlace DEF Serve, FilesMove
  <2>9. ASSUME NEW len \in Lens, PutNoSpace(len)
        PROVE  FilesScan(0)
    <3>1. db' = RefusedDb /\ msgs' = RefusedMsgs /\ UNCHANGED <<accepted, delivered>>
      BY <2>9 DEF PutNoSpace, history
    <3>2. DOMAIN db = {h \in DOMAIN db : h >= 0}
      BY DEF TypeInv, RecoveryTypeOK, DbTypeOK
    <3> QED
      BY <1>2, <3>1, <3>2, RefusedFiles DEF Serve, FilesScan
  <2>10. CASE \E len \in Lens : PutNoSpace(len)
    BY <2>9, <2>10
  <2> QED
    BY <1>2, <2>1, <2>2, <2>3, <2>4, <2>5, <2>6, <2>7, <2>8, <2>10 DEF Serve, Next, Get, GetNothing
<1>3. ASSUME NEW len \in Lens, PutNew(len)
      PROVE  FilesFirst(len)
  BY <1>3 DEF PutNew, Created, FilesFirst
<1>4. CASE \/ \E n \in MaxQueues : SetNew(n, DefDelay)
           \/ \E d \in Delays : SetNew(DefMaxQueue, d % Width)
  BY <1>4 DEF SetNew, Created, FilesNew
<1>5. CASE Reset
  BY <1>5 DEF Reset, Created, FilesNew
<1>6. CASE Remove
  BY <1>6 DEF Remove, history, FilesNew
<1>7. CASE CrashIdle
  BY <1>7 DEF CrashIdle, Die, files, FilesStay
<1>8. CASE Restart
  BY <1>8 DEF Restart, files, history, FilesStay
<1>9. ASSUME NEW len \in Lens, CrashInRotation(len)
      PROVE  FilesRotate(len)
  BY <1>9 DEF CrashInRotation, PutAdmitted, Die, FilesRotate
<1>10. ASSUME NEW len \in Lens, NEW written \in BOOLEAN, CrashBeforeAck(len, written)
       PROVE  FilesGrow(len)
  <2>1. /\ PutAdmitted /\ db' = RotatedDb(len) /\ msgs' = Written(len)
        /\ accepted' = accepted + 1
    BY <1>10 DEF CrashBeforeAck, Written, NewMsg
  <2>2. delivered' = delivered
    BY <1>10 DEF CrashBeforeAck, Die
  <2> QED
    BY <2>1, <2>2 DEF FilesGrow, PutAdmitted
<1>11. ASSUME NEW f \in rdb.cur_index .. (ScanTarget - 1), NEW step \in 1 .. 3, CrashInHop(f, step)
       PROVE  f \in Nat /\ FilesMove(f)
  <2>1. status = "open" /\ MovedTo(f) /\ accepted' = accepted /\ delivered' = delivered
    BY <1>11 DEF CrashInHop, Die
  <2>2. f \in Nat
    BY <1>11, Typed
  <2> QED
    BY <2>1, <2>2 DEF FilesMove
<1>12. CASE CrashBeforeReply
  <2>1. /\ status = "open" /\ MovedTo(NextMsg.file) /\ accepted' = accepted
        /\ delivered' = delivered /\ Reachable # {}
    BY <1>12 DEF CrashBeforeReply, Die
  <2> QED
    BY <2>1, ScanPlace DEF FilesMove
<1>13. ASSUME NEW dbs \in SUBSET DOMAIN db, NEW rtags \in SUBSET DOMAIN rtag,
              CrashInDelete(dbs, rtags)
       PROVE  FilesGo(dbs)
  BY <1>13 DEF CrashInDelete, Die, FilesGo
<1>14. ASSUME NEW step \in 1 .. 4, CrashInCreate(step)
       PROVE  FilesNew
  BY <1>14 DEF CrashInCreate, Die, FilesNew
<1>15. CASE \/ \E len \in Lens, f \in {rdb.cur_index, wdb.cur_index} : CrashNoSpace(len, f)
            \/ \E f \in rdb.cur_index .. ScanTarget : CrashInScan(f)
  BY <1>15, ScanDeaths DEF ScanDeath
<1> QED
  BY <1>1, <1>2, <1>3, <1>4, <1>5, <1>6, <1>7, <1>8, <1>9, <1>10, <1>11, <1>12, <1>13, <1>14, <1>15
  DEF AnyCrashNext, ResetNext, IdleCrashNext, Request, CrashInRequest


\* Where a put writes.
LEMMA WriteAt ==
  ASSUME TypeInv, NEW len \in Lens
  PROVE  /\ WriteFile(len) \in DbMap
         /\ Fits(len) => WriteFile(len) = wdb
         /\ ~Fits(len) => /\ WriteFile(len).cur_index = wdb.cur_index + 1
                          /\ WriteFile(len).pos = DbFileHeadLen
                          /\ wdb.pos > DbFileHeadLen
         /\ NewMsg(len) \in Message
         /\ NewMsg(len).id = accepted + 1
         /\ NewMsg(len).file = WriteFile(len).cur_index
         /\ NewMsg(len).pos = WriteFile(len).pos
<1>1. len \in Nat /\ DbFileHeadLen + len + MsgHeadLen <= MaxDbFileSize /\ MaxDbFileSize \in Nat
  BY LenBound, SizeAssumption
<1>2. ~Fits(len) => wdb.pos > DbFileHeadLen
  BY <1>1, Typed, Sizes, SMTT(60) DEF Fits
<1>3. WriteFile(len) \in DbMap
  BY Typed, Sizes, SMTT(60) DEF WriteFile, DbMap
<1>4. /\ Fits(len) => WriteFile(len) = wdb
      /\ ~Fits(len) => /\ WriteFile(len).cur_index = wdb.cur_index + 1
                       /\ WriteFile(len).pos = DbFileHeadLen
  BY DEF WriteFile
<1>5. NewMsg(len) \in Message
  BY <1>3, Typed, SMTT(60) DEF NewMsg, Message, DbMap
<1> QED
  BY <1>2, <1>3, <1>4, <1>5, SMTT(60) DEF NewMsg

\* The db files keep their type, and there are never endlessly many.
LEMMA DbKept ==
  ASSUME TypeInv, [AnyCrashNext]_recoveryVars
  PROVE  DbTypeOK' /\ \E b \in Nat : \A f \in DOMAIN db' : f <= b
<1>1. PICK b \in Nat : \A f \in DOMAIN db : f <= b
  BY DEF TypeInv, FilesInv
<1>2. DOMAIN db \subseteq Nat /\ (\A f \in DOMAIN db : db[f] \in Nat) /\ msgs \subseteq Message
  BY DEF TypeInv, RecoveryTypeOK, DbTypeOK
<1>3. CASE FilesStay
  BY <1>1, <1>2, <1>3 DEF FilesStay, DbTypeOK
<1>4. ASSUME NEW len \in Lens, db' = RotatedDb(len)
      PROVE  /\ DOMAIN db' \subseteq Nat /\ \A f \in DOMAIN db' : db'[f] \in Nat
             /\ \E c \in Nat : \A f \in DOMAIN db' : f <= c
  <2>1. CASE Fits(len)
    BY <1>1, <1>2, <1>4, <2>1 DEF RotatedDb
  <2>2. CASE ~Fits(len)
    <3>1. DOMAIN db' = DOMAIN db \cup {wdb.cur_index + 1}
      BY <1>4, <2>2 DEF RotatedDb
    <3>2. \A f \in DOMAIN db' : db'[f] \in {0, wdb.opt_count} \/ (f \in DOMAIN db /\ db'[f] = db[f])
      BY <1>4, <2>2 DEF RotatedDb
    <3>3. \A f \in DOMAIN db' : db'[f] \in Nat
      <4>1. 0 \in Nat /\ wdb.opt_count \in Nat
        BY Typed
      <4> QED
        BY <1>2, <3>2, <4>1
    <3>4. DOMAIN db' \subseteq Nat
      BY <1>2, <3>1, Typed
    <3>5. PICK c \in Nat : c >= b /\ c >= wdb.cur_index + 1
      <4>1. \A i, j \in Nat : i + j + 1 \in Nat /\ i + j + 1 >= i /\ i + j + 1 >= j + 1
        OBVIOUS
      <4> QED
        BY <4>1, Typed, Zenon
    <3>6. \A f \in DOMAIN db' : f <= c
      BY <1>1, <1>2, <3>1, <3>5, Typed
    <3> QED
      BY <3>3, <3>4, <3>6
  <2> QED
    BY <2>1, <2>2
<1>5. \A len : RotatedMsgs(len) \subseteq msgs
  BY DEF RotatedMsgs, Overwrite
<1>6. ASSUME NEW len \in Lens, FilesGrow(len) \/ FilesRotate(len)
      PROVE  DbTypeOK' /\ \E c \in Nat : \A f \in DOMAIN db' : f <= c
  <2>1. msgs' \subseteq msgs \cup {NewMsg(len)}
    BY <1>5, <1>6 DEF FilesGrow, FilesRotate, Written, Overwrite
  <2>2. db' = RotatedDb(len)
    BY <1>6 DEF FilesGrow, FilesRotate
  <2>3. msgs' \subseteq Message
    BY <1>2, <2>1, WriteAt
  <2> QED
    BY <1>4, <2>2, <2>3 DEF DbTypeOK
<1>7. ASSUME NEW f \in Nat, FilesMove(f)
      PROVE  DbTypeOK' /\ \E c \in Nat : \A g \in DOMAIN db' : g <= c
  BY <1>1, <1>2, <1>7 DEF FilesMove, MovedTo, DbTypeOK
<1>12. ASSUME NEW f \in Nat, FilesScan(f)
       PROVE  DbTypeOK' /\ \E c \in Nat : \A g \in DOMAIN db' : g <= c
  BY <1>1, <1>2, <1>12 DEF FilesScan, DbTypeOK
<1>8. ASSUME NEW dbs \in SUBSET DOMAIN db, FilesGo(dbs)
      PROVE  DbTypeOK' /\ \E c \in Nat : \A g \in DOMAIN db' : g <= c
  BY <1>1, <1>2, <1>8 DEF FilesGo, DbTypeOK
<1>9. ASSUME db' \in {NewDb, << >>}
      PROVE  /\ DOMAIN db' \subseteq Nat /\ \A f \in DOMAIN db' : db'[f] \in Nat
             /\ \E c \in Nat : \A f \in DOMAIN db' : f <= c
  BY <1>9 DEF NewDb
<1>10. CASE FilesNew
  BY <1>9, <1>10 DEF FilesNew, DbTypeOK
<1>11. ASSUME NEW len \in Lens, FilesFirst(len)
       PROVE  DbTypeOK' /\ \E c \in Nat : \A f \in DOMAIN db' : f <= c
  <2>1. msgs' \subseteq Message
    BY <1>11, Typed, Sizes DEF FilesFirst, Message
  <2> QED
    BY <1>9, <1>11, <2>1 DEF FilesFirst, DbTypeOK
<1> QED
  BY <1>3, <1>6, <1>7, <1>8, <1>10, <1>11, <1>12, FileKinds

\* What a step does to the numbers clients have given up.
LEMMA BaseKinds ==
  ASSUME TypeInv, [AnyCrashNext]_recoveryVars
  PROVE  /\ \/ base' = base /\ doubtful \subseteq doubtful'
            \/ msgs' = {} /\ accepted' = accepted
            \/ doubtful' = 1 .. accepted /\ accepted' = accepted /\ msgs' \subseteq msgs
         /\ base' \in 0 .. accepted' /\ doubtful' \subseteq 1 .. accepted'
<1> DEFINE Result ==
         /\ \/ base' = base /\ doubtful \subseteq doubtful'
            \/ msgs' = {} /\ accepted' = accepted
            \/ doubtful' = 1 .. accepted /\ accepted' = accepted /\ msgs' \subseteq msgs
         /\ base' \in 0 .. accepted' /\ doubtful' \subseteq 1 .. accepted'
<1>1. accepted \in Nat /\ base \in 0 .. accepted /\ doubtful \subseteq 1 .. accepted
  BY Typed
<1>2. accepted' \in Nat /\ accepted <= accepted'
  <2>1. accepted' = accepted \/ accepted' = accepted + 1
    BY FileKinds, Zenon
    DEF FilesStay, FilesGrow, FilesRotate, FilesMove, FilesScan, FilesGo, FilesNew, FilesFirst
  <2> QED
    BY <1>1, <2>1
<1>3. ASSUME base' = base, doubtful' = doubtful
      PROVE  Result
  BY <1>1, <1>2, <1>3
<1>4. CASE UNCHANGED recoveryVars
  BY <1>3, <1>4 DEF recoveryVars
<1>5. CASE Serve \/ CrashIdle \/ Restart
  BY <1>3, <1>5 DEF Serve, CrashIdle, Restart
<1>6. ASSUME NEW len \in Lens, PutNew(len) \/ CrashInRotation(len)
      PROVE  Result
  BY <1>3, <1>6 DEF PutNew, Created, CrashInRotation
<1>7. CASE \/ \E n \in MaxQueues : SetNew(n, DefDelay)
           \/ \E d \in Delays : SetNew(DefMaxQueue, d % Width)
  BY <1>3, <1>7 DEF SetNew, Created
<1>8. CASE Reset
  <2>1. msgs' = {} /\ base' = accepted /\ accepted' = accepted /\ doubtful' = doubtful
    BY <1>8 DEF Reset, Created
  <2> QED
    BY <1>1, <2>1
<1>9. CASE Remove
  <2>1. msgs' = {} /\ base' = accepted /\ accepted' = accepted /\ doubtful' = doubtful
    BY <1>9 DEF Remove, history
  <2> QED
    BY <1>1, <2>1
<1>10. ASSUME NEW len \in Lens, NEW written \in BOOLEAN, CrashBeforeAck(len, written)
       PROVE  Result
  <2>1. base' = base /\ doubtful' = doubtful \cup {accepted + 1} /\ accepted' = accepted + 1
    BY <1>10 DEF CrashBeforeAck
  <2> QED
    BY <1>1, <2>1
<1>11. ASSUME NEW f, NEW step, CrashInHop(f, step)
       PROVE  Result
  BY <1>3, <1>11 DEF CrashInHop
<1>16. CASE \/ \E len \in Lens, f \in {rdb.cur_index, wdb.cur_index} : CrashNoSpace(len, f)
            \/ \E f \in rdb.cur_index .. ScanTarget : CrashInScan(f)
  BY <1>3, <1>16 DEF CrashNoSpace, CrashInScan
<1>12. CASE CrashBeforeReply
  <2>1. /\ base' = base /\ doubtful' = doubtful \cup {NextMsg.id} /\ accepted' = accepted
        /\ Reachable # {}
    BY <1>12 DEF CrashBeforeReply
  <2>2. NextMsg.id \in 1 .. accepted
    <3>1. NextMsg \in msgs /\ NextMsg.id \in Nat
      BY <2>1, ScanPlace, MessageFields
    <3> QED
      BY <1>1, <3>1 DEF TypeInv, MsgsInv
  <2> QED
    BY <1>1, <2>1, <2>2
<1>13. ASSUME GivenUp, accepted' = accepted, msgs' \subseteq msgs
       PROVE  Result
  BY <1>1, <1>13 DEF GivenUp
<1>14. ASSUME NEW dbs, NEW rtags, CrashInDelete(dbs, rtags)
       PROVE  Result
  <2>1. GivenUp /\ accepted' = accepted /\ msgs' \subseteq msgs
    BY <1>14 DEF CrashInDelete
  <2> QED
    BY <2>1, <1>13
<1>15. ASSUME NEW step, CrashInCreate(step)
       PROVE  Result
  <2>1. GivenUp /\ accepted' = accepted /\ msgs' \subseteq msgs
    BY <1>15 DEF CrashInCreate
  <2> QED
    BY <2>1, <1>13
<1> QED
  BY <1>4, <1>5, <1>6, <1>7, <1>8, <1>9, <1>10, <1>11, <1>12, <1>14, <1>15, <1>16
  DEF AnyCrashNext, ResetNext, IdleCrashNext, Request, CrashInRequest


\* A get hands one more number out.
LEMMA ToldMore ==
  ASSUME TypeInv, NEW x \in Nat, delivered' = Append(delivered, x)
  PROVE  Told' = Told \cup {x}
<1>1. /\ delivered \in Seq(Nat) /\ Len(delivered) \in Nat
      /\ DOMAIN delivered = 1 .. Len(delivered)
  BY Typed, LenProperties
<1>2. /\ DOMAIN delivered' = 1 .. (Len(delivered) + 1)
      /\ \A i \in 1 .. Len(delivered) : delivered'[i] = delivered[i]
      /\ delivered'[Len(delivered) + 1] = x
  BY <1>1, AppendProperties
<1>3. 1 .. (Len(delivered) + 1) = (1 .. Len(delivered)) \cup {Len(delivered) + 1}
  BY <1>1
<1>4. Told' = {delivered'[i] : i \in DOMAIN delivered'}
  BY DEF Told
<1> QED
  BY <1>1, <1>2, <1>3, <1>4 DEF Told

\* What a step does to the numbers handed out.
LEMMA ToldKinds ==
  ASSUME TypeInv, [AnyCrashNext]_recoveryVars
  PROVE  \/ delivered' = delivered /\ Told' = Told
         \/ /\ GetOk /\ status = "open" /\ NextMsg \in msgs
            /\ Told' = Told \cup {NextMsg.id} /\ accepted' = accepted
<1>1. delivered' = delivered => Told' = Told
  BY DEF Told
<1>2. ASSUME GetOk
      PROVE  NextMsg \in msgs /\ Told' = Told \cup {NextMsg.id} /\ accepted' = accepted
  <2>1. Reachable # {} /\ delivered' = Append(delivered, NextMsg.id) /\ accepted' = accepted
    BY <1>2 DEF GetOk
  <2>2. NextMsg \in msgs /\ NextMsg.id \in Nat
    BY <2>1, ScanPlace, MessageFields
  <2> QED
    BY <2>1, <2>2, ToldMore
<1> QED
  BY <1>1, <1>2, FileKinds
  DEF FilesStay, FilesGrow, FilesRotate, FilesMove, FilesScan, FilesGo, FilesNew, FilesFirst

\* What a step does to the messages.
LEMMA MsgKinds ==
  ASSUME TypeInv, [AnyCrashNext]_recoveryVars
  PROVE  \/ msgs' \subseteq msgs /\ accepted' = accepted
         \/ /\ accepted' = accepted + 1
            /\ \E m \in Message :
                 /\ m.id = accepted + 1
                 /\ msgs' \subseteq msgs \cup {m}
                 /\ \A n \in msgs' \ {m} : n.file # m.file \/ n.pos # m.pos
<1>1. \A len : RotatedMsgs(len) \subseteq msgs
  BY DEF RotatedMsgs, Overwrite
<1>2. ASSUME NEW len \in Lens, FilesGrow(len)
      PROVE  /\ accepted' = accepted + 1
             /\ \E m \in Message :
                  /\ m.id = accepted + 1
                  /\ msgs' \subseteq msgs \cup {m}
                  /\ \A n \in msgs' \ {m} : n.file # m.file \/ n.pos # m.pos
  <2> DEFINE m == NewMsg(len)
  <2>1. m \in Message /\ m.id = accepted + 1
    BY WriteAt
  <2>2. msgs' = Overwrite(RotatedMsgs(len), m.file, m.pos, EndOf(m)) \cup {m}
    BY <1>2 DEF FilesGrow, Written
  <2>3. msgs' \subseteq msgs \cup {m}
    BY <1>1, <2>2 DEF Overwrite
  <2>4. ASSUME NEW n \in msgs' \ {m}
        PROVE  n.file # m.file \/ n.pos # m.pos
    <3>1. n \in Message /\ (n.file # m.file \/ EndOf(n) <= m.pos \/ EndOf(m) <= n.pos)
      BY <2>2, <2>3, Typed DEF Overwrite
    <3>2. /\ n.pos \in Nat /\ EndOf(n) \in Nat /\ n.pos < EndOf(n)
          /\ m.pos \in Nat /\ EndOf(m) \in Nat /\ m.pos < EndOf(m)
      BY <2>1, <3>1, MessageFields
    <3> QED
      BY <3>1, <3>2
  <2> QED
    BY <1>2, <2>1, <2>3, <2>4 DEF FilesGrow
<1>3. ASSUME NEW len \in Lens, FilesFirst(len)
      PROVE  /\ accepted' = accepted + 1
             /\ \E m \in Message :
                  /\ m.id = accepted + 1
                  /\ msgs' \subseteq msgs \cup {m}
                  /\ \A n \in msgs' \ {m} : n.file # m.file \/ n.pos # m.pos
  <2> DEFINE m == [id |-> accepted + 1, file |-> 1, pos |-> DbFileHeadLen, len |-> len, time |-> now]
  <2>1. m \in Message /\ m.id = accepted + 1
    BY Typed, Sizes DEF Message
  <2>2. msgs' = {m} /\ accepted' = accepted + 1
    BY <1>3 DEF FilesFirst
  <2> HIDE DEF m
  <2> QED
    BY <2>1, <2>2
<1> QED
  BY <1>1, <1>2, <1>3, FileKinds
  DEF FilesStay, FilesRotate, FilesMove, MovedTo, FilesScan, FilesGo, FilesNew

\* Messages have different numbers and places, which clients know of.
LEMMA MsgsKept ==
  ASSUME TypeInv, [AnyCrashNext]_recoveryVars
  PROVE  MsgsInv'
<1>1. accepted \in Nat /\ msgs \subseteq Message /\ base \in 0 .. accepted
  BY Typed
<1>2. \A m \in msgs : m.id \in Nat /\ 1 <= m.id /\ m.id <= accepted /\ (m.id > base \/ m.id \in doubtful)
  BY <1>1, MessageFields DEF TypeInv, MsgsInv
<1>3. /\ \A m, n \in msgs : m.id = n.id => m = n
      /\ \A m, n \in msgs : m.file = n.file /\ m.pos = n.pos => m = n
      /\ \A d \in Told : d \in Nat /\ d <= accepted
  <2>1. \A d \in Told : d \in Nat
    BY Typed, ElementOfSeq, LenProperties DEF Told
  <2> QED
    BY <2>1 DEF TypeInv, MsgsInv
<1>4. ASSUME NEW m \in msgs', m \in msgs
      PROVE  m.id > base' \/ m.id \in doubtful'
  BY <1>1, <1>2, <1>4, BaseKinds
<1>5. \A d \in Told' : d \in Nat /\ d <= accepted
  BY <1>2, <1>3, ToldKinds
<1>6. CASE msgs' \subseteq msgs /\ accepted' = accepted
  BY <1>2, <1>3, <1>4, <1>5, <1>6 DEF MsgsInv
<1>7. ASSUME accepted' = accepted + 1, NEW m \in Message, m.id = accepted + 1,
             msgs' \subseteq msgs \cup {m},
             \A n \in msgs' \ {m} : n.file # m.file \/ n.pos # m.pos
      PROVE  MsgsInv'
  <2>1. \A d \in Told' : d <= accepted'
    BY <1>1, <1>5, <1>7
  <2>2. base' = base \/ msgs' = {}
    BY <1>1, <1>7, BaseKinds
  <2>3. \A n \in msgs' : /\ 1 <= n.id /\ n.id <= accepted'
                         /\ n.id > base' \/ n.id \in doubtful'
    BY <1>1, <1>2, <1>4, <1>7, <2>2
  <2>4. \A n \in msgs' \ {m} : n \in msgs /\ n.id # m.id
    BY <1>1, <1>2, <1>7
  <2>5. \A n, k \in msgs' : n.id = k.id => n = k
    BY <1>3, <2>4
  <2>6. \A n, k \in msgs' : n.file = k.file /\ n.pos = k.pos => n = k
    BY <1>3, <1>7, <2>4
  <2> QED
    BY <2>1, <2>3, <2>5, <2>6 DEF MsgsInv
<1> QED
  BY <1>6, <1>7, MsgKinds


\* The cursors after a put and after a get.
LEMMA CursorTypes ==
  ASSUME TypeInv
  PROVE  /\ \A len \in Lens :
              [cur_index |-> WriteFile(len).cur_index, pos |-> EndOf(NewMsg(len)),
               opt_count |-> WriteFile(len).opt_count + 1] \in DbMap
         /\ \A len \in Lens : [WriteFile(len) EXCEPT !.pos = EndOf(NewMsg(len))] \in DbMap
         /\ \A f, x \in Nat : ReadPos(f, x) \in DbMap
         /\ Reachable # {} =>
              [ReadPos(NextMsg.file, EndOf(NextMsg)) EXCEPT !.opt_count = @ + 1] \in DbMap
<1>1. ASSUME NEW len \in Lens
      PROVE  /\ [cur_index |-> WriteFile(len).cur_index, pos |-> EndOf(NewMsg(len)),
                 opt_count |-> WriteFile(len).opt_count + 1] \in DbMap
             /\ [WriteFile(len) EXCEPT !.pos = EndOf(NewMsg(len))] \in DbMap
  <2>1. WriteFile(len) \in DbMap /\ EndOf(NewMsg(len)) \in Nat
    BY WriteAt, MessageFields
  <2> QED
    BY <2>1 DEF DbMap
<1>2. \A f, x \in Nat : ReadPos(f, x) \in DbMap
  BY Typed DEF ReadPos, DbMap
<1>3. ASSUME Reachable # {}
      PROVE  [ReadPos(NextMsg.file, EndOf(NextMsg)) EXCEPT !.opt_count = @ + 1] \in DbMap
  <2>1. NextMsg.file \in Nat /\ EndOf(NextMsg) \in Nat
    BY <1>3, ScanPlace, MessageFields
  <2> QED
    BY <1>2, <2>1, CountedType
<1> QED
  BY <1>1, <1>2, <1>3

\* The rtag files a get leaves have items.
LEMMA MovedRtagItems ==
  ASSUME TypeInv, NEW f \in Nat
  PROVE  /\ DOMAIN MovedRtag(f) \subseteq Nat
         /\ \A g \in DOMAIN MovedRtag(f) : MovedRtag(f)[g] \in RtagItem \cup {EmptyFile}
<1>1. Item(ReadPos(f, DbFileHeadLen), wdb, maxque, delay, wlock) \in RtagItem
  BY CursorTypes, ItemType, Typed, Sizes
<1>2. DOMAIN rtag \subseteq Nat /\ \A g \in DOMAIN rtag : rtag[g] \in RtagItem \cup {EmptyFile}
  BY DEF TypeInv, RecoveryTypeOK, RtagTypeOK
<1>3. CASE f = rdb.cur_index
  BY <1>2, <1>3 DEF MovedRtag
<1>4. CASE f # rdb.cur_index
  BY <1>1, <1>4 DEF MovedRtag
<1> QED
  BY <1>3, <1>4

\* The setters give the settings their types, and a lock comes back from its
\* unsigned form.
LEMMA SetTypes ==
  ASSUME TypeInv, \/ \E n \in MaxQueues : SetMaxQueue(n)
                  \/ \E d \in Delays : SetDelay(d)
                  \/ \E w \in Wlocks : SetWlock(w)
  PROVE  /\ maxque' \in Nat /\ delay' \in Nat /\ wlock' \in Int
         /\ wlock' = wlock \/ ToInt(wlock' % Width) = wlock'
         /\ Configured
<1>1. CASE \E n \in MaxQueues : SetMaxQueue(n)
  BY <1>1, Typed, ConfigAssumption DEF SetMaxQueue
<1>2. CASE \E d \in Delays : SetDelay(d)
  BY <1>2, Typed, ConfigAssumption, ModNat DEF SetDelay
<1>3. ASSUME NEW w \in Wlocks, SetWlock(w)
      PROVE  /\ maxque' \in Nat /\ delay' \in Nat /\ wlock' \in Int
             /\ ToInt(wlock' % Width) = wlock'
             /\ Configured
  <2>1. w \in Int /\ now + w \in Int
    BY Typed, ConfigAssumption
  <2>2. UNCHANGED <<maxque, delay>> /\ Configured
    BY <1>3 DEF SetWlock
  <2>3. CASE w = 0
    <3>1. wlock' = 0
      BY <1>3, <2>3 DEF SetWlock
    <3> QED
      BY <2>2, <3>1, SpecialComesBack, Typed
  <2>4. CASE w = -1
    <3>1. wlock' = -1
      BY <1>3, <2>4 DEF SetWlock
    <3> QED
      BY <2>2, <3>1, SpecialComesBack, Typed
  <2>5. CASE w \notin {-1, 0}
    <3>1. wlock' = ToInt(now + w)
      BY <1>3, <2>5 DEF SetWlock
    <3>2. ToInt(now + w) \in Int /\ ToInt(ToInt(now + w) % Width) = ToInt(now + w)
      BY <2>1, IntComesBack, ToIntType
    <3> QED
      BY <2>2, <3>1, <3>2, Typed
  <2> QED
    BY <2>3, <2>4, <2>5
<1> QED
  BY <1>1, <1>2, <1>3


\* There are at most as many messages as numbers.
LEMMA StoredFinite ==
  ASSUME TypeInv
  PROVE  IsFiniteSet(msgs)
<1> DEFINE id == [m \in msgs |-> m.id]
<1>1. accepted \in Nat /\ IsFiniteSet(1 .. accepted)
  BY FS_Interval, Typed
<1>2. \A m \in msgs : m.id \in Nat /\ 1 <= m.id /\ m.id <= accepted
  BY MessageFields, Typed DEF TypeInv, MsgsInv
<1>3. id \in [msgs -> 1 .. accepted]
  BY <1>1, <1>2
<1>4. \A m, n \in msgs : m.id = n.id => m = n
  BY DEF TypeInv, MsgsInv
<1>5. id \in Injection(msgs, 1 .. accepted)
  BY <1>3, <1>4 DEF Injection, IsInjective
<1> QED
  BY <1>1, <1>5, FS_Injection

\* There is a first and a last db file if there is one.
LEMMA FirstAndLast ==
  ASSUME TypeInv, DOMAIN db # {}
  PROVE  /\ ReadFid \in DOMAIN db /\ WriteFid \in DOMAIN db
         /\ ReadFid \in Nat /\ WriteFid \in Nat
         /\ \A f \in DOMAIN db : ReadFid <= f /\ f <= WriteFid
<1> DEFINE Less == {e \in Nat \X Nat : e[1] < e[2]}
           Above == {c \in Nat : \A f \in DOMAIN db : f <= c}
<1>0. IsWellFoundedOn(Less, Nat)
  BY NatLessThanWellFounded, Zenon DEF OpToRel
<1>1. DOMAIN db \subseteq Nat
  BY DEF TypeInv, RecoveryTypeOK, DbTypeOK
<1>2. PICK a \in DOMAIN db : \A f \in DOMAIN db : a <= f
  <2>1. PICK a \in DOMAIN db : \A f \in DOMAIN db : ~(<<f, a>> \in Less)
    BY <1>0, <1>1, WFMin
  <2>2. \A f, g \in Nat : ~(<<f, g>> \in Less) => g <= f
    OBVIOUS
  <2> HIDE DEF Less
  <2> QED
    BY <1>1, <2>1, <2>2, Zenon
<1>3. PICK c \in Above : \A d \in Above : ~(<<d, c>> \in Less)
  <2>1. Above # {} /\ Above \subseteq Nat
    BY DEF TypeInv, FilesInv
  <2> QED
    BY <1>0, <2>1, WFMin
<1>4. c \in Nat /\ (\A f \in DOMAIN db : f <= c) /\ \A d \in Above : ~(d < c)
  BY <1>3
<1>5. c \in DOMAIN db
  <2> SUFFICES ASSUME c \notin DOMAIN db
               PROVE  FALSE
    OBVIOUS
  <2>1. c > 0 /\ \A f \in DOMAIN db : f < c
    BY <1>1, <1>2, <1>4
  <2>2. c - 1 \in Nat /\ \A f \in DOMAIN db : f <= c - 1
    BY <1>1, <1>4, <2>1
  <2>3. c - 1 \in Above /\ c - 1 < c
    BY <1>4, <2>2
  <2> QED
    BY <1>4, <2>3
<1>6. ReadFid \in DOMAIN db /\ \A f \in DOMAIN db : ReadFid <= f
  BY <1>2 DEF ReadFid, Min
<1>7. \A f \in DOMAIN db : c >= f
  BY <1>1, <1>4
<1>8. WriteFid \in DOMAIN db /\ \A f \in DOMAIN db : WriteFid >= f
  BY <1>5, <1>7 DEF WriteFid, Max
<1> QED
  BY <1>1, <1>6, <1>8

\* Start-up counts finitely many messages.
LEMMA CountType ==
  ASSUME TypeInv, NEW wpos \in Nat
  PROVE  Cardinality(Counted(wpos)) \in Nat
<1> DEFINE pairs(f) == {f} \X (1 .. FileCount(f, wpos))
           parts == {pairs(f) : f \in DOMAIN db}
           part == [f \in DOMAIN db |-> pairs(f)]
<1>1. IsFiniteSet(DOMAIN db)
  <2>1. PICK b \in Nat : \A f \in DOMAIN db : f <= b
    BY DEF TypeInv, FilesInv
  <2>2. DOMAIN db \subseteq 0 .. b
    BY <2>1 DEF TypeInv, RecoveryTypeOK, DbTypeOK
  <2>3. IsFiniteSet(0 .. b)
    BY FS_Interval
  <2> QED
    BY <2>2, <2>3, FS_Subset
<1>2. ASSUME NEW f \in DOMAIN db
      PROVE  IsFiniteSet(pairs(f))
  <2>1. Cardinality({m \in InFile(f) : ReadFid = WriteFid => m.pos < wpos}) \in Nat
    <3>1. {m \in InFile(f) : ReadFid = WriteFid => m.pos < wpos} \subseteq msgs
      BY DEF InFile
    <3> QED
      BY <3>1, StoredFinite, FS_Subset, FS_CardinalityType
  <2>2. db[f] \in Nat
    BY DEF TypeInv, RecoveryTypeOK, DbTypeOK
  <2>3. FileCount(f, wpos) \in Nat
    BY <2>1, <2>2 DEF FileCount
  <2>4. IsFiniteSet(1 .. FileCount(f, wpos))
    BY <2>3, FS_Interval
  <2>5. IsFiniteSet({f})
    BY FS_Singleton
  <2> QED
    BY <2>4, <2>5, FS_Product
<1> HIDE DEF pairs
<1>3. part \in Surjection(DOMAIN db, parts)
  BY DEF Surjection
<1>4. IsFiniteSet(parts)
  BY <1>1, <1>3, FS_Surjection
<1>5. IsFiniteSet(UNION parts)
  BY <1>2, <1>4, FS_UNION
<1>6. Counted(wpos) = UNION parts
  BY DEF Counted, pairs
<1> QED
  BY <1>5, <1>6, FS_CardinalityType

\* A start that opens the queue.
LEMMA RestartTypes ==
  ASSUME TypeInv, NEW fid \in DOMAIN rtag, HandleFile(fid), Opened(rtag[fid])
  PROVE  /\ rtag[fid] \in RtagItem /\ fid = ReadFid /\ fid \in Nat
         /\ rdb' \in DbMap /\ rdb'.cur_index = fid /\ rdb'.pos = rtag[fid].rpos
         /\ wdb' \in DbMap /\ wdb'.cur_index = WriteFid /\ wdb'.pos = rtag[fid].wpos
         /\ maxque' = rtag[fid].maxque /\ delay' = rtag[fid].delay
         /\ wlock' = ToInt(rtag[fid].wlock)
         /\ maxque' \in Nat /\ delay' \in Nat /\ wlock' \in Int
         /\ unread_count' \in Nat /\ put_num' \in Nat /\ get_num' \in Nat
         /\ status' = "open"
         /\ short = {}
         /\ DOMAIN db # {}
<1> DEFINE item == rtag[fid]
           count == Cardinality(Counted(item.wpos))
<1>1. item \in RtagItem
  BY DEF HandleFile, TypeInv, RecoveryTypeOK, RtagTypeOK
<1>2. DOMAIN db # {} /\ fid = ReadFid
  BY DEF HandleFile
<1>3. /\ item.rcount \in Nat /\ item.rpos \in Nat /\ item.wpos \in Nat /\ item.maxque \in Nat
      /\ item.delay \in Nat /\ item.wlock \in Nat /\ item.wlock \in Int
  BY <1>1 DEF RtagItem
<1>4. ReadFid \in Nat /\ WriteFid \in Nat
  BY <1>2, FirstAndLast
<1>5. count \in Nat
  BY <1>3, CountType
<1>6. rdb' = [cur_index |-> ReadFid, pos |-> item.rpos, opt_count |-> item.rcount]
  BY DEF Opened, RestoredRdb
<1>7. wdb' = [cur_index |-> WriteFid, pos |-> item.wpos, opt_count |-> 0]
  BY DEF Opened, RestoredWdb
<1>8. rdb' \in DbMap /\ wdb' \in DbMap
  BY <1>3, <1>4, <1>6, <1>7 DEF DbMap
<1>9. /\ maxque' = item.maxque /\ delay' = item.delay /\ wlock' = ToInt(item.wlock)
      /\ get_num' = item.rcount /\ put_num' = count
      /\ unread_count' = RestoredUnread(count, item.rcount) /\ status' = "open"
  BY DEF Opened
<1> HIDE DEF count
<1>10. unread_count' \in Nat
  BY <1>3, <1>5, <1>9 DEF RestoredUnread
<1>11. wlock' \in Int
  BY <1>3, <1>9, ToIntType
<1>12. short = {}
  <2>1. \A s \in short : s = WriteFid
    BY <1>2, <1>4, FirstAndLast DEF TypeInv, FilesInv, RecoveryTypeOK, DbTypeOK
  <2> QED
    BY <2>1 DEF HandleFile
<1> QED
  BY <1>1, <1>2, <1>3, <1>4, <1>5, <1>6, <1>7, <1>8, <1>9, <1>10, <1>11, <1>12


\* What clients are told of.
LEMMA HistoryTypes ==
  ASSUME TypeInv, [AnyCrashNext]_recoveryVars
  PROVE  accepted' \in Nat /\ accepted <= accepted' /\ delivered' \in Seq(Nat)
<1>1. accepted \in Nat /\ delivered \in Seq(Nat)
  BY Typed
<1>2. ASSUME GetOk
      PROVE  delivered' \in Seq(Nat)
  <2>1. Reachable # {} /\ delivered' = Append(delivered, NextMsg.id)
    BY <1>2 DEF GetOk
  <2>2. NextMsg.id \in Nat
    BY <2>1, ScanPlace, MessageFields
  <2> QED
    BY <1>1, <2>1, <2>2
<1>3. accepted' = accepted \/ accepted' = accepted + 1
  BY FileKinds, Zenon
  DEF FilesStay, FilesGrow, FilesRotate, FilesMove, FilesScan, FilesGo, FilesNew, FilesFirst
<1>4. delivered' = delivered \/ GetOk
  BY FileKinds, Zenon
  DEF FilesStay, FilesGrow, FilesRotate, FilesMove, FilesScan, FilesGo, FilesNew, FilesFirst
<1> QED
  BY <1>1, <1>2, <1>3, <1>4

\* The items of the rtag files.
ItemsTyped(r) ==
  DOMAIN r \subseteq Nat /\ \A f \in DOMAIN r : r[f] \in RtagItem \cup {EmptyFile}

\* An item is written to the current rtag file.
LEMMA ItemsExcept ==
  ASSUME NEW r, ItemsTyped(r), NEW f, NEW item \in RtagItem \cup {EmptyFile}
  PROVE  ItemsTyped([r EXCEPT ![f] = item])
BY DEF ItemsTyped

\* A request that finds the queue.
LEMMA ServeTypes ==
  ASSUME TypeInv, Serve
  PROVE  /\ rdb' \in DbMap /\ wdb' \in DbMap
         /\ unread_count' \in Nat /\ put_num' \in Nat /\ get_num' \in Nat
         /\ maxque' \in Nat /\ delay' \in Nat /\ wlock' \in Int
         /\ now' \in Nat /\ reply' \in Replies
         /\ ToInt(wlock' % Width) = wlock'
         /\ ItemsTyped(rtag')
         /\ wdb.cur_index <= wdb'.cur_index
         /\ DOMAIN rtag' = DOMAIN rtag \/ \E f \in Nat : DOMAIN rtag' = {f}
<1> DEFINE Result ==
         /\ rdb' \in DbMap /\ wdb' \in DbMap
         /\ unread_count' \in Nat /\ put_num' \in Nat /\ get_num' \in Nat
         /\ maxque' \in Nat /\ delay' \in Nat /\ wlock' \in Int
         /\ now' \in Nat /\ reply' \in Replies
         /\ ToInt(wlock' % Width) = wlock'
         /\ ItemsTyped(rtag')
         /\ wdb.cur_index <= wdb'.cur_index
         /\ DOMAIN rtag' = DOMAIN rtag \/ \E f \in Nat : DOMAIN rtag' = {f}
<1>1. /\ rdb \in DbMap /\ wdb \in DbMap /\ wdb.cur_index \in Nat
      /\ unread_count \in Nat /\ put_num \in Nat /\ get_num \in Nat
      /\ maxque \in Nat /\ delay \in Nat /\ wlock \in Int
      /\ now \in Nat /\ reply \in Replies
  BY Typed DEF TypeInv, RecoveryTypeOK, DescriptorTypeOK
<1>2. ToInt(wlock % Width) = wlock
  BY DEF TypeInv, FilesInv, Serve
<1>3. ItemsTyped(rtag)
  BY DEF TypeInv, RecoveryTypeOK, RtagTypeOK, ItemsTyped
<1>4. wdb.cur_index <= wdb.cur_index
  BY <1>1
<1>5. CASE PutFull \/ PutWlocked \/ (\E len \in Lens : PutNoSpace(len)) \/ GetEmpty
  <2>1. UNCHANGED <<rdb, wdb, unread_count, put_num, get_num, maxque, delay, wlock, now, rtag>>
    BY <1>5 DEF PutFull, PutWlocked, PutNoSpace, GetEmpty, files, cursors, counters, config
  <2>2. reply' \in Replies
    BY <1>5 DEF PutFull, PutWlocked, PutNoSpace, GetEmpty, Replies
  <2> QED
    BY <1>1, <1>2, <1>3, <1>4, <2>1, <2>2
<1>6. CASE Tick
  <2>1. UNCHANGED <<rdb, wdb, unread_count, put_num, get_num, maxque, delay, wlock, reply, rtag>>
    BY <1>6 DEF Tick, files, cursors, counters, config
  <2>2. now' \in Nat
    BY <1>1, <1>6 DEF Tick
  <2> QED
    BY <1>1, <1>2, <1>3, <1>4, <2>1, <2>2
<1>7. CASE \/ \E n \in MaxQueues : SetMaxQueue(n)
           \/ \E d \in Delays : SetDelay(d)
           \/ \E w \in Wlocks : SetWlock(w)
  <2>1. /\ maxque' \in Nat /\ delay' \in Nat /\ wlock' \in Int
        /\ wlock' = wlock \/ ToInt(wlock' % Width) = wlock'
        /\ Configured
    BY <1>7, SetTypes
  <2>2. /\ UNCHANGED <<rdb, wdb, unread_count, put_num, get_num, now>>
        /\ rtag' = [rtag EXCEPT ![rdb.cur_index] = Item(rdb, wdb, maxque', delay', wlock')]
        /\ reply' \in Replies
    BY <2>1 DEF Configured, cursors, counters, Replies
  <2>3. Item(rdb, wdb, maxque', delay', wlock') \in RtagItem
    BY <1>1, <2>1, ItemType
  <2>4. ItemsTyped(rtag') /\ DOMAIN rtag' = DOMAIN rtag
    BY <1>3, <2>2, <2>3, ItemsExcept
  <2> QED
    BY <1>1, <1>2, <1>4, <2>1, <2>2, <2>4
<1>8. ASSUME NEW len \in Lens, PutOk(len)
      PROVE  Result
  <2> DEFINE w == [cur_index |-> WriteFile(len).cur_index, pos |-> EndOf(NewMsg(len)),
                   opt_count |-> WriteFile(len).opt_count + 1]
  <2>1. /\ wdb' = w /\ put_num' = put_num + 1
        /\ rtag' = [rtag EXCEPT ![rdb.cur_index] = Item(rdb, wdb', maxque, delay, wlock)]
        /\ unread_count' = unread_count + 1
        /\ reply' \in Replies
        /\ UNCHANGED <<rdb, get_num, maxque, delay, wlock, now>>
    BY <1>8 DEF PutOk, NewMsg, config, Replies
  <2>2. w \in DbMap
    BY CursorTypes
  <2>3. w.cur_index = WriteFile(len).cur_index
    OBVIOUS
  <2> HIDE DEF w
  <2>4. Item(rdb, wdb', maxque, delay, wlock) \in RtagItem
    BY <1>1, <2>1, <2>2, ItemType
  <2>5. ItemsTyped(rtag') /\ DOMAIN rtag' = DOMAIN rtag
    BY <1>3, <2>1, <2>4, ItemsExcept
  <2>6. wdb.cur_index <= wdb'.cur_index
    BY <1>1, <2>1, <2>3, WriteAt
  <2> QED
    BY <1>1, <1>2, <2>1, <2>2, <2>5, <2>6
<1>9. ASSUME NEW f \in Nat
      PROVE  /\ ItemsTyped(MovedRtag(f))
             /\ DOMAIN MovedRtag(f) = DOMAIN rtag \/ DOMAIN MovedRtag(f) = {f}
  <2>1. ItemsTyped(MovedRtag(f))
    BY MovedRtagItems DEF ItemsTyped
  <2> QED
    BY <2>1 DEF MovedRtag
<1>10. CASE GetEnd
  <2>1. /\ rtag' = MovedRtag(wdb.cur_index) /\ rdb' = ReadPos(wdb.cur_index, wdb.pos)
        /\ unread_count' = 0 /\ reply' \in Replies
        /\ UNCHANGED <<wdb, put_num, get_num, maxque, delay, wlock, now>>
    BY <1>10 DEF GetEnd, config, Replies
  <2>2. rdb' \in DbMap
    BY <2>1, CursorTypes, Typed
  <2> QED
    BY <1>1, <1>2, <1>4, <1>9, <2>1, <2>2
<1>11. CASE GetDelayed
  <2>1. /\ Reachable # {} /\ rtag' = MovedRtag(NextMsg.file)
        /\ rdb' = ReadPos(NextMsg.file, NextMsg.pos) /\ reply' \in Replies
        /\ UNCHANGED <<wdb, unread_count, put_num, get_num, maxque, delay, wlock, now>>
    BY <1>11 DEF GetDelayed, config, counters, Replies
  <2>2. NextMsg.file \in Nat /\ NextMsg.pos \in Nat
    BY <2>1, ScanPlace, MessageFields
  <2>3. rdb' \in DbMap
    BY <2>1, <2>2, CursorTypes
  <2> QED
    BY <1>1, <1>2, <1>4, <1>9, <2>1, <2>2, <2>3
<1>12. CASE GetOk
  <2> DEFINE r == [ReadPos(NextMsg.file, EndOf(NextMsg)) EXCEPT !.opt_count = @ + 1]
  <2>1. /\ Reachable # {} /\ rdb' = r
        /\ rtag' = [MovedRtag(NextMsg.file) EXCEPT ![NextMsg.file] =
                      Item(rdb', wdb, maxque, delay, wlock)]
        /\ get_num' = get_num + 1
        /\ unread_count >= 1 /\ unread_count' = unread_count - 1 /\ reply' \in Replies
        /\ UNCHANGED <<wdb, put_num, maxque, delay, wlock, now>>
    BY <1>12 DEF GetOk, config, Replies
  <2>2. NextMsg.file \in Nat /\ r \in DbMap
    BY <2>1, ScanPlace, CursorTypes
  <2> HIDE DEF r
  <2>3. Item(rdb', wdb, maxque, delay, wlock) \in RtagItem
    BY <1>1, <2>1, <2>2, ItemType
  <2>4. ItemsTyped(rtag') /\ DOMAIN rtag' = DOMAIN MovedRtag(NextMsg.file)
    BY <1>9, <2>1, <2>2, <2>3, ItemsExcept
  <2>5. unread_count' \in Nat /\ get_num' \in Nat
    BY <1>1, <2>1
  <2>6. DOMAIN rtag' = DOMAIN rtag \/ \E f \in Nat : DOMAIN rtag' = {f}
    BY <1>9, <2>2, <2>4
  <2> QED
    BY <1>1, <1>2, <1>4, <2>1, <2>2, <2>4, <2>5, <2>6
<1> QED
  BY <1>5, <1>6, <1>7, <1>8, <1>10, <1>11, <1>12 DEF Serve, Next, Get, GetNothing


\* A process that dies.
LEMMA DieTypes ==
  ASSUME TypeInv, NEW how \in SUBSET {"between", "partial"}, Die(how)
  PROVE  /\ rdb' = NoMap /\ wdb' = NoMap
         /\ unread_count' \in Nat /\ put_num' \in Nat /\ get_num' \in Nat
         /\ maxque' \in Nat /\ delay' \in Nat /\ wlock' \in Int
         /\ now' \in Nat /\ reply' \in Replies
         /\ crashes' \in 0 .. MaxCrash /\ asked' = asked /\ delivered' = delivered
         /\ torn' \subseteq {"between", "partial", "blank"}
         /\ torn \subseteq torn' /\ how \subseteq torn'
         /\ status' = "down"
<1>1. crashes' \in 0 .. MaxCrash
  BY CrashAssumption DEF Die, TypeInv, RecoveryTypeOK
<1>2. torn' \subseteq {"between", "partial", "blank"}
  BY DEF Die, TypeInv, RecoveryTypeOK
<1>3. now' \in Nat /\ reply' \in Replies
  BY Typed DEF Die, Replies
<1> QED
  BY <1>1, <1>2, <1>3 DEF Die

\* How the process dies in each of the crashes.
LEMMA Deaths ==
  ASSUME CrashIdle \/ CrashInRequest
  PROVE  \E how \in SUBSET {"between", "partial"} : Die(how)
<1>1. \A dbs : (IF dbs \in {DOMAIN db, {}} THEN {} ELSE {"partial"}) \in SUBSET {"between", "partial"}
  OBVIOUS
<1>2. {} \in SUBSET {"between", "partial"} /\ {"between"} \in SUBSET {"between", "partial"}
  OBVIOUS
<1> QED
  BY <1>1, <1>2 DEF CrashIdle, CrashInRequest, CrashInRotation, CrashBeforeAck, CrashInHop,
      CrashBeforeReply, CrashNoSpace, CrashInScan, CrashInDelete, CrashInCreate

\* A request that makes the queue.
LEMMA MadeTypes ==
  ASSUME TypeInv,
         \/ \E len \in Lens : PutNew(len)
         \/ \E n \in MaxQueues : SetNew(n, DefDelay)
         \/ \E d \in Delays : SetNew(DefMaxQueue, d % Width)
         \/ Reset
  PROVE  /\ rdb' \in DbMap /\ wdb' \in DbMap /\ wdb'.cur_index = 1 /\ rdb' = NewMap
         /\ unread_count' \in Nat /\ put_num' \in Nat /\ get_num' \in Nat
         /\ maxque' \in Nat /\ delay' \in Nat /\ wlock' = 0
         /\ now' = now /\ reply' \in Replies
         /\ \E item \in RtagItem : rtag' = [f \in {1} |-> item]
         /\ crashes' = crashes /\ asked' = config' /\ torn' = torn /\ status' = "open"
         /\ short' = {} /\ db' = NewDb
<1> DEFINE Result(mq, d, w, item) ==
         /\ w \in DbMap /\ w.cur_index = 1 /\ mq \in Nat /\ d \in Nat /\ item \in RtagItem
         /\ wdb' = w /\ maxque' = mq /\ delay' = d /\ Created(item)
         /\ unread_count' \in Nat /\ put_num' \in Nat /\ reply' \in Replies
<1>1. NewMap \in DbMap /\ NewMap.cur_index = 1
  BY Sizes DEF NewMap, DbMap
<1>2. ASSUME NEW len \in Lens, PutNew(len)
      PROVE  \E mq, d, w, item : Result(mq, d, w, item)
  <2> DEFINE m == [id |-> accepted + 1, file |-> 1, pos |-> DbFileHeadLen, len |-> len, time |-> now]
             w == [cur_index |-> 1, pos |-> EndOf(m), opt_count |-> 1]
  <2>1. m \in Message
    BY Typed, Sizes DEF Message
  <2>2. EndOf(m) \in Nat
    BY <2>1, MessageFields
  <2> HIDE DEF m
  <2>3. w \in DbMap /\ w.cur_index = 1
    BY <2>2 DEF DbMap
  <2> HIDE DEF w
  <2>4. Item(NewMap, w, DefMaxQueue, DefDelay, 0) \in RtagItem
    BY <1>1, <2>3, ItemType, ConfigAssumption
  <2>5. /\ wdb' = w /\ maxque' = DefMaxQueue /\ delay' = DefDelay
        /\ Created(Item(NewMap, w, DefMaxQueue, DefDelay, 0))
        /\ unread_count' = 1 /\ put_num' = 1 /\ reply' = "QUEUE_PUT_OK"
    BY <1>2 DEF PutNew, w, m
  <2>6. DefMaxQueue \in Nat /\ DefDelay \in Nat
    BY ConfigAssumption
  <2>7. unread_count' \in Nat /\ put_num' \in Nat /\ reply' \in Replies
    BY <2>5 DEF Replies
  <2>8. Result(DefMaxQueue, DefDelay, w, Item(NewMap, w, DefMaxQueue, DefDelay, 0))
    BY <2>3, <2>4, <2>5, <2>6, <2>7
  <2> QED
    BY <2>8
<1>3. ASSUME NEW mq \in Nat, NEW d \in Nat, SetNew(mq, d)
      PROVE  \E x, y, w, item : Result(x, y, w, item)
  <2>1. Item(NewMap, NewMap, mq, d, 0) \in RtagItem
    BY <1>1, ItemType
  <2>2. Result(mq, d, NewMap, Item(NewMap, NewMap, mq, d, 0))
    BY <1>1, <1>3, <2>1 DEF SetNew, Replies
  <2> QED
    BY <2>2
<1>4. ASSUME Reset
      PROVE  \E mq, d, w, item : Result(mq, d, w, item)
  <2>1. NewRtag[1] \in RtagItem
    BY ConfigAssumption DEF NewRtag, RtagItem
  <2>2. Result(DefMaxQueue, DefDelay, NewMap, NewRtag[1])
    BY <1>1, <1>4, <2>1, ConfigAssumption DEF Reset, Replies
  <2> QED
    BY <2>2
<1>5. /\ \A n \in MaxQueues : n \in Nat
      /\ \A d \in Delays : d % Width \in Nat
      /\ DefMaxQueue \in Nat /\ DefDelay \in Nat
  BY ConfigAssumption, ModNat
<1>6. \E mq, d, w, item : Result(mq, d, w, item)
  BY <1>2, <1>3, <1>4, <1>5
<1>7. PICK mq, d, w, item : Result(mq, d, w, item)
  BY <1>6
<1>8. /\ wdb' = w /\ maxque' = mq /\ delay' = d /\ Created(item)
      /\ w \in DbMap /\ w.cur_index = 1 /\ mq \in Nat /\ d \in Nat /\ item \in RtagItem
      /\ unread_count' \in Nat /\ put_num' \in Nat /\ reply' \in Replies
  BY <1>7
<1> HIDE DEF Result
<1>9. /\ rdb' = NewMap /\ get_num' = 0 /\ wlock' = 0 /\ now' = now
      /\ rtag' = [f \in {1} |-> item]
      /\ crashes' = crashes /\ asked' = config' /\ torn' = torn /\ status' = "open"
      /\ short' = {} /\ db' = NewDb
  BY <1>8 DEF Created
<1> QED
  BY <1>1, <1>8, <1>9


\* The items a process leaves when it dies.
LEMMA DeadItems ==
  ASSUME TypeInv, CrashIdle \/ CrashInRequest
  PROVE  ItemsTyped(rtag')
<1>1. ItemsTyped(rtag)
  BY DEF TypeInv, RecoveryTypeOK, RtagTypeOK, ItemsTyped
<1>2. \A f \in Nat : ItemsTyped(MovedRtag(f))
  BY MovedRtagItems DEF ItemsTyped
<1>3. CASE CrashIdle
  BY <1>1, <1>3 DEF CrashIdle, files
<1>4. ASSUME NEW len \in Lens, CrashInRotation(len)
      PROVE  ItemsTyped(rtag')
  BY <1>1, <1>4 DEF CrashInRotation
<1>5. ASSUME NEW len \in Lens, NEW written \in BOOLEAN, CrashBeforeAck(len, written)
      PROVE  ItemsTyped(rtag')
  <2> DEFINE w == WriteFile(len)
             x == [w EXCEPT !.pos = EndOf(NewMsg(len))]
  <2>1. \E item \in {Item(rdb, x, maxque, delay, wlock), Item(rdb, w, maxque, delay, wlock),
                     rtag[rdb.cur_index]} :
          rtag' = [rtag EXCEPT ![rdb.cur_index] = item]
    BY <1>5 DEF CrashBeforeAck, NewMsg
  <2>2. x \in DbMap /\ w \in DbMap
    BY CursorTypes, WriteAt
  <2> HIDE DEF x, w
  <2>3. /\ Item(rdb, x, maxque, delay, wlock) \in RtagItem
        /\ Item(rdb, w, maxque, delay, wlock) \in RtagItem
    BY <2>2, ItemType, Typed
  <2>4. CASE rdb.cur_index \in DOMAIN rtag
    <3>1. rtag[rdb.cur_index] \in RtagItem \cup {EmptyFile}
      BY <1>1, <2>4 DEF ItemsTyped
    <3>2. PICK item \in RtagItem \cup {EmptyFile} : rtag' = [rtag EXCEPT ![rdb.cur_index] = item]
      BY <2>1, <2>3, <3>1
    <3> QED
      BY <1>1, <3>2, ItemsExcept
  <2>5. CASE rdb.cur_index \notin DOMAIN rtag
    <3>1. DOMAIN rtag' = DOMAIN rtag /\ \A f \in DOMAIN rtag : rtag'[f] = rtag[f]
      BY <2>1, <2>5
    <3> QED
      BY <1>1, <3>1 DEF ItemsTyped
  <2> QED
    BY <2>4, <2>5
<1>6. ASSUME NEW f \in rdb.cur_index .. (ScanTarget - 1), NEW step \in 1 .. 3, CrashInHop(f, step)
      PROVE  ItemsTyped(rtag')
  <2> DEFINE item == Item(ReadPos(f + 1, DbFileHeadLen), wdb, maxque, delay, wlock)
             here == MovedRtag(f)
             next == IF step # 1 THEN item
                     ELSE IF f + 1 \in DOMAIN here THEN here[f + 1] ELSE EmptyFile
  <2>1. rtag' = [g \in (DOMAIN here \cup {f + 1}) \ (IF step = 3 THEN {f} ELSE {}) |->
                   IF g = f + 1 THEN next ELSE here[g]]
    BY <1>6 DEF CrashInHop
  <2>2. f \in Nat /\ f + 1 \in Nat
    BY <1>6, Typed
  <2>3. item \in RtagItem
    BY <2>2, CursorTypes, ItemType, Typed, Sizes
  <2>4. ItemsTyped(here)
    BY <1>2, <2>2
  <2> HIDE DEF item, here
  <2>5. next \in RtagItem \cup {EmptyFile}
    BY <2>3, <2>4 DEF ItemsTyped
  <2> HIDE DEF next
  <2>6. DOMAIN rtag' \subseteq DOMAIN here \cup {f + 1}
    BY <2>1
  <2>7. \A g \in DOMAIN rtag' : rtag'[g] = next \/ (g \in DOMAIN here /\ rtag'[g] = here[g])
    BY <2>1
  <2> QED
    BY <2>2, <2>4, <2>5, <2>6, <2>7 DEF ItemsTyped
<1>7. CASE CrashBeforeReply
  <2> DEFINE r == [ReadPos(NextMsg.file, EndOf(NextMsg)) EXCEPT !.opt_count = @ + 1]
  <2>1. /\ Reachable # {}
        /\ rtag' = [MovedRtag(NextMsg.file) EXCEPT ![NextMsg.file] =
                      Item(r, wdb, maxque, delay, wlock)]
    BY <1>7 DEF CrashBeforeReply
  <2>2. r \in DbMap /\ NextMsg.file \in Nat
    BY <2>1, CursorTypes, ScanPlace
  <2> HIDE DEF r
  <2>3. Item(r, wdb, maxque, delay, wlock) \in RtagItem
    BY <2>2, ItemType, Typed
  <2> QED
    BY <1>2, <2>1, <2>2, <2>3, ItemsExcept
<1>8. ASSUME NEW dbs \in SUBSET DOMAIN db, NEW rtags \in SUBSET DOMAIN rtag,
             CrashInDelete(dbs, rtags)
      PROVE  ItemsTyped(rtag')
  BY <1>1, <1>8 DEF CrashInDelete, ItemsTyped
<1>9. ASSUME NEW step \in 1 .. 4, CrashInCreate(step)
      PROVE  ItemsTyped(rtag')
  <2>1. NewRtag[1] \in RtagItem
    BY ConfigAssumption DEF NewRtag, RtagItem
  <2>2. rtag' = [g \in {1} |-> NewRtag[1]] \/ rtag' = [g \in {1} |-> EmptyFile]
    BY <1>9 DEF CrashInCreate, NewRtag
  <2> QED
    BY <2>1, <2>2 DEF ItemsTyped
<1>10. CASE \/ \E len \in Lens, f \in {rdb.cur_index, wdb.cur_index} : CrashNoSpace(len, f)
            \/ \E f \in rdb.cur_index .. ScanTarget : CrashInScan(f)
  <2>1. PICK f \in Nat : ScanDeath(f)
    BY <1>10, ScanDeaths
  <2> QED
    BY <1>2, <2>1 DEF ScanDeath
<1> QED
  BY <1>3, <1>4, <1>5, <1>6, <1>7, <1>8, <1>9, <1>10 DEF CrashInRequest

\* The files that are not extended yet.
ShortOK ==
  /\ short \subseteq DOMAIN db
  /\ \A s \in short : \A f \in DOMAIN db : f <= s
  /\ status = "open" => short = {} /\ \A f \in DOMAIN db : f <= wdb.cur_index

\* Only the last file can be short, and the write cursor stands in it.
LEMMA ShortKept ==
  ASSUME TypeInv, [AnyCrashNext]_recoveryVars
  PROVE  ShortOK'
<1>1. ShortOK /\ DOMAIN db \subseteq Nat
  BY DEF TypeInv, FilesInv, RecoveryTypeOK, DbTypeOK, ShortOK
<1>2. CASE UNCHANGED recoveryVars
  BY <1>1, <1>2 DEF recoveryVars, vars, files, cursors, ShortOK
<1>3. CASE Serve
  <2>1. short' = {} /\ status = "open" /\ status' = "open" /\ wdb.cur_index <= wdb'.cur_index
    BY <1>1, <1>3, ServeTypes DEF Serve, ShortOK
  <2>2. wdb.cur_index \in Nat /\ wdb'.cur_index \in Nat
    BY <1>3, Typed, ServeTypes DEF DbMap
  <2>3. ASSUME NEW len \in Lens, PutOk(len)
        PROVE  \A f \in DOMAIN db' : f <= wdb'.cur_index
    <3>1. db' = RotatedDb(len) /\ wdb'.cur_index = WriteFile(len).cur_index
      BY <2>3 DEF PutOk
    <3>2. CASE Fits(len)
      BY <1>1, <2>1, <3>1, <3>2 DEF RotatedDb, WriteFile, ShortOK
    <3>3. CASE ~Fits(len)
      <4>1. DOMAIN db' = DOMAIN db \cup {wdb.cur_index + 1}
        BY <3>1, <3>3 DEF RotatedDb
      <4>2. wdb'.cur_index = wdb.cur_index + 1
        BY <3>1, <3>3 DEF WriteFile
      <4>3. \A f \in DOMAIN db : f \in Nat /\ f <= wdb.cur_index
        BY <1>1, <2>1 DEF ShortOK
      <4> QED
        BY <2>2, <4>1, <4>2, <4>3
    <3> QED
      BY <3>2, <3>3
  <2>4. DOMAIN db' \subseteq DOMAIN db => \A f \in DOMAIN db' : f <= wdb'.cur_index
    <3>1. \A f \in DOMAIN db : f \in Nat /\ f <= wdb.cur_index
      BY <1>1, <2>1 DEF ShortOK
    <3> QED
      BY <2>1, <2>2, <3>1
  <2>5. (\E len \in Lens : PutOk(len)) \/ DOMAIN db' \subseteq DOMAIN db
    BY <1>3 DEF Serve, Next, PutFull, PutWlocked, Get, GetEmpty, GetNothing, GetEnd, GetDelayed,
         GetOk, MovedTo, SetMaxQueue, SetDelay, SetWlock, Configured, Tick, files, PutNoSpace,
         RefusedDb
  <2> QED
    BY <2>1, <2>3, <2>4, <2>5 DEF ShortOK
<1>4. CASE \/ \E len \in Lens : PutNew(len)
           \/ \E n \in MaxQueues : SetNew(n, DefDelay)
           \/ \E d \in Delays : SetNew(DefMaxQueue, d % Width)
           \/ Reset
  <2>1. short' = {} /\ db' = NewDb /\ wdb'.cur_index = 1
    BY <1>4, MadeTypes
  <2> QED
    BY <2>1 DEF NewDb, ShortOK
<1>5. CASE Remove
  BY <1>1, <1>5 DEF Remove, ShortOK
<1>6. CASE CrashIdle
  BY <1>1, <1>6 DEF CrashIdle, Die, files, ShortOK
<1>7. CASE Restart
  <2>1. UNCHANGED <<db, short>>
    BY <1>7 DEF Restart, files
  <2>2. CASE status' = "open"
    <3>1. PICK fid \in DOMAIN rtag : HandleFile(fid) /\ Opened(rtag[fid])
      BY <1>7, <2>2 DEF Restart
    <3>2. short = {} /\ DOMAIN db # {} /\ wdb'.cur_index = WriteFid
      BY <3>1, RestartTypes
    <3> QED
      BY <2>1, <3>2, FirstAndLast DEF ShortOK
  <2> QED
    BY <1>1, <2>1, <2>2 DEF ShortOK
<1>8. ASSUME NEW len \in Lens, CrashInRotation(len)
      PROVE  ShortOK'
  <2>1. /\ status = "open" /\ status' = "down" /\ short' \in {{}, {wdb.cur_index + 1}}
        /\ DOMAIN db' = DOMAIN db \cup {wdb.cur_index + 1}
    BY <1>8 DEF CrashInRotation, PutAdmitted, Die, RotatedDb
  <2>2. wdb.cur_index \in Nat /\ \A f \in DOMAIN db : f \in Nat /\ f <= wdb.cur_index
    BY <1>1, <2>1, Typed DEF ShortOK
  <2>3. \A f \in DOMAIN db' : f <= wdb.cur_index + 1
    BY <2>1, <2>2
  <2> QED
    BY <2>1, <2>3 DEF ShortOK
<1>9. ASSUME status = "open", short' = short, status' = "down"
      PROVE  ShortOK'
  BY <1>1, <1>9 DEF ShortOK
<1>10. ASSUME NEW len \in Lens, NEW written \in BOOLEAN, CrashBeforeAck(len, written)
       PROVE  ShortOK'
  BY <1>9, <1>10 DEF CrashBeforeAck, PutAdmitted, Die
<1>11. ASSUME NEW f, NEW step, CrashInHop(f, step)
       PROVE  ShortOK'
  BY <1>9, <1>11 DEF CrashInHop, Die
<1>12. CASE CrashBeforeReply
  BY <1>9, <1>12 DEF CrashBeforeReply, Die
<1>15. CASE \/ \E len \in Lens, f \in {rdb.cur_index, wdb.cur_index} : CrashNoSpace(len, f)
            \/ \E f \in rdb.cur_index .. ScanTarget : CrashInScan(f)
  BY <1>9, <1>15 DEF CrashNoSpace, CrashInScan, Die
<1>13. ASSUME NEW dbs \in SUBSET DOMAIN db, NEW rtags, CrashInDelete(dbs, rtags)
       PROVE  ShortOK'
  BY <1>1, <1>13 DEF CrashInDelete, Die, ShortOK
<1>14. ASSUME NEW step \in 1 .. 4, CrashInCreate(step)
       PROVE  ShortOK'
  <2>1. /\ status' = "down"
        /\ (short' = {}) \/ (short' = {1} /\ DOMAIN db' = {1})
    BY <1>14 DEF CrashInCreate, Die, NewDb
  <2> QED
    BY <2>1 DEF ShortOK
<1> QED
  BY <1>2, <1>3, <1>4, <1>5, <1>6, <1>7, <1>8, <1>10, <1>11, <1>12, <1>13, <1>14, <1>15
  DEF AnyCrashNext, ResetNext, IdleCrashNext, Request, CrashInRequest


\* The types of the descriptor, and a lock that comes back from its unsigned form.
LEMMA DescriptorKept ==
  ASSUME TypeInv, [AnyCrashNext]_recoveryVars
  PROVE  /\ rdb' \in DbMap /\ wdb' \in DbMap
         /\ unread_count' \in Nat /\ put_num' \in Nat /\ get_num' \in Nat
         /\ maxque' \in Nat /\ delay' \in Nat /\ wlock' \in Int
         /\ now' \in Nat /\ reply' \in Replies
         /\ ItemsTyped(rtag')
         /\ status' \in {"down", "open", "unknown"}
         /\ crashes' \in 0 .. MaxCrash
         /\ asked' \in Nat \X Nat \X Int
         /\ torn' \subseteq {"between", "partial", "blank"}
         /\ status' = "open" => ToInt(wlock' % Width) = wlock'
<1> DEFINE Result ==
         /\ rdb' \in DbMap /\ wdb' \in DbMap
         /\ unread_count' \in Nat /\ put_num' \in Nat /\ get_num' \in Nat
         /\ maxque' \in Nat /\ delay' \in Nat /\ wlock' \in Int
         /\ now' \in Nat /\ reply' \in Replies
         /\ ItemsTyped(rtag')
         /\ status' \in {"down", "open", "unknown"}
         /\ crashes' \in 0 .. MaxCrash
         /\ asked' \in Nat \X Nat \X Int
         /\ torn' \subseteq {"between", "partial", "blank"}
         /\ status' = "open" => ToInt(wlock' % Width) = wlock'
<1>1. /\ rdb \in DbMap /\ wdb \in DbMap
      /\ unread_count \in Nat /\ put_num \in Nat /\ get_num \in Nat
      /\ maxque \in Nat /\ delay \in Nat /\ wlock \in Int
      /\ now \in Nat /\ reply \in Replies
      /\ status \in {"down", "open", "unknown"}
      /\ crashes \in 0 .. MaxCrash /\ asked \in Nat \X Nat \X Int
      /\ torn \subseteq {"between", "partial", "blank"}
  BY DEF TypeInv, RecoveryTypeOK, DescriptorTypeOK
<1>2. status = "open" => ToInt(wlock % Width) = wlock
  BY DEF TypeInv, FilesInv
<1>3. ItemsTyped(rtag)
  BY DEF TypeInv, RecoveryTypeOK, RtagTypeOK, ItemsTyped
<1>4. NoMap \in DbMap
  BY DEF NoMap, DbMap
<1>5. CASE UNCHANGED recoveryVars
  <2>1. /\ UNCHANGED <<rdb, wdb, unread_count, put_num, get_num, maxque, delay, wlock, now, reply,
                       rtag, status, crashes, asked, torn>>
    BY <1>5 DEF recoveryVars, vars, files, cursors, counters, config
  <2> QED
    BY <1>1, <1>2, <1>3, <2>1
<1>6. CASE Serve
  <2>1. asked' = <<maxque', delay', wlock'>> /\ UNCHANGED <<status, crashes, torn>>
    BY <1>6 DEF Serve, config
  <2> QED
    BY <1>1, <1>6, <2>1, ServeTypes
<1>7. CASE \/ \E len \in Lens : PutNew(len)
           \/ \E n \in MaxQueues : SetNew(n, DefDelay)
           \/ \E d \in Delays : SetNew(DefMaxQueue, d % Width)
           \/ Reset
  <2>1. /\ rdb' \in DbMap /\ wdb' \in DbMap
        /\ unread_count' \in Nat /\ put_num' \in Nat /\ get_num' \in Nat
        /\ maxque' \in Nat /\ delay' \in Nat /\ wlock' = 0
        /\ now' = now /\ reply' \in Replies
        /\ crashes' = crashes /\ asked' = <<maxque', delay', wlock'>> /\ torn' = torn
        /\ status' = "open"
    BY <1>7, MadeTypes DEF config
  <2>2. ItemsTyped(rtag')
    <3>1. PICK item \in RtagItem : rtag' = [f \in {1} |-> item]
      BY <1>7, MadeTypes
    <3> QED
      BY <3>1 DEF ItemsTyped
  <2>3. ToInt(wlock' % Width) = wlock'
    BY <2>1, SpecialComesBack
  <2>4. asked' \in Nat \X Nat \X Int
    BY <2>1
  <2> QED
    BY <1>1, <2>1, <2>2, <2>3, <2>4
<1>8. CASE Remove
  <2>1. /\ rdb' = NoMap /\ wdb' = NoMap /\ unread_count' = 0 /\ put_num' = 0 /\ get_num' = 0
        /\ maxque' = 0 /\ delay' = 0 /\ wlock' = 0 /\ reply' = "SET_OK" /\ status' = "unknown"
        /\ rtag' = << >> /\ asked' = <<0, 0, 0>> /\ UNCHANGED <<now, crashes, torn>>
    BY <1>8 DEF Remove, config
  <2>2. ItemsTyped(rtag')
    BY <2>1 DEF ItemsTyped
  <2> QED
    BY <1>1, <1>4, <2>1, <2>2 DEF Replies
<1>9. CASE CrashIdle \/ CrashInRequest
  <2>1. PICK how \in SUBSET {"between", "partial"} : Die(how)
    BY <1>9, Deaths
  <2>2. ItemsTyped(rtag')
    BY <1>9, DeadItems
  <2> QED
    BY <1>1, <1>4, <2>1, <2>2, DieTypes
<1>10. CASE Restart
  <2>1. UNCHANGED <<rtag, now, reply, crashes, asked, torn>>
    BY <1>10 DEF Restart, files
  <2>2. CASE \E fid \in DOMAIN rtag : HandleFile(fid) /\ Opened(rtag[fid])
    <3>1. PICK fid \in DOMAIN rtag : HandleFile(fid) /\ Opened(rtag[fid])
      BY <2>2
    <3>2. /\ rtag[fid] \in RtagItem /\ wlock' = ToInt(rtag[fid].wlock)
          /\ rdb' \in DbMap /\ wdb' \in DbMap
          /\ unread_count' \in Nat /\ put_num' \in Nat /\ get_num' \in Nat
          /\ maxque' \in Nat /\ delay' \in Nat /\ wlock' \in Int /\ status' = "open"
      BY <3>1, RestartTypes
    <3>3. rtag[fid].wlock \in Int
      BY <3>2 DEF RtagItem
    <3>4. ToInt(wlock' % Width) = wlock'
      BY <3>2, <3>3, IntComesBack
    <3> QED
      BY <1>1, <1>3, <2>1, <3>2, <3>4
  <2>3. CASE status' = "unknown" /\ UNCHANGED <<cursors, counters, config>>
    <3>1. UNCHANGED <<rdb, wdb, unread_count, put_num, get_num, maxque, delay, wlock>>
      BY <2>3 DEF cursors, counters, config
    <3> QED
      BY <1>1, <1>3, <2>1, <2>3, <3>1
  <2> QED
    BY <1>10, <2>2, <2>3 DEF Restart
<1> QED
  BY <1>5, <1>6, <1>7, <1>8, <1>9, <1>10 DEF AnyCrashNext, ResetNext, IdleCrashNext, Request

\* The types are kept.
LEMMA TypeStep ==
  ASSUME TypeInv, [AnyCrashNext]_recoveryVars
  PROVE  TypeInv'
<1>1. MsgsInv'
  BY MsgsKept
<1>2. DbTypeOK' /\ \E b \in Nat : \A f \in DOMAIN db' : f <= b
  BY DbKept
<1>3. RtagTypeOK(RtagItem \cup {EmptyFile})'
  BY DescriptorKept DEF ItemsTyped, RtagTypeOK
<1>4. DescriptorTypeOK'
  BY DescriptorKept, HistoryTypes DEF DescriptorTypeOK
<1>5. base' \in 0 .. accepted' /\ doubtful' \subseteq 1 .. accepted'
  BY BaseKinds
<1>6. /\ short' \subseteq DOMAIN db'
      /\ \A s \in short' : \A f \in DOMAIN db' : f <= s
      /\ status' = "open" => short' = {} /\ \A f \in DOMAIN db' : f <= wdb'.cur_index
  BY ShortKept DEF ShortOK
<1>7. /\ status' \in {"down", "open", "unknown"} /\ crashes' \in 0 .. MaxCrash
      /\ asked' \in Nat \X Nat \X Int /\ torn' \subseteq {"between", "partial", "blank"}
      /\ status' = "open" => ToInt(wlock' % Width) = wlock'
  BY DescriptorKept
<1>8. RecoveryTypeOK'
  BY <1>2, <1>3, <1>4, <1>5, <1>6, <1>7 DEF RecoveryTypeOK
<1>9. FilesInv'
  BY <1>2, <1>6, <1>7 DEF FilesInv
<1> QED
  BY <1>1, <1>8, <1>9 DEF TypeInv

\* A server that never heard of the queue.
LEMMA InitTypes == RecoveryInit => TypeInv
<1> SUFFICES ASSUME RecoveryInit
             PROVE  TypeInv
  OBVIOUS
<1>1. DbTypeOK /\ RtagTypeOK(RtagItem \cup {EmptyFile}) /\ short \subseteq DOMAIN db
  BY DEF RecoveryInit, DbTypeOK, RtagTypeOK
<1>2. DescriptorTypeOK
  BY DEF RecoveryInit, DescriptorTypeOK, NoMap, DbMap, Replies
<1>3. asked = <<0, 0, 0>>
  BY DEF RecoveryInit, config
<1>4. RecoveryTypeOK
  BY <1>1, <1>2, <1>3, CrashAssumption DEF RecoveryInit, RecoveryTypeOK
<1>5. FilesInv
  BY DEF RecoveryInit, FilesInv
<1>6. MsgsInv
  BY DEF RecoveryInit, MsgsInv, Told
<1> QED
  BY <1>4, <1>5, <1>6 DEF TypeInv

\* However the server dies and starts, every cursor, counter, setting and item
\* keeps its type: the start-up code never computes a number below zero (the
\* difference of mq_sm_get_msg_count and the count of read messages), and what it
\* reads from an rtag item that is there is what a handler wrote.
THEOREM RecoveryTypeCorrect == AnyCrashSpec => []RecoveryTypeOK
<1>1. RecoveryInit => TypeInv
  BY InitTypes
<1>2. TypeInv /\ [AnyCrashNext]_recoveryVars => TypeInv'
  BY TypeStep
<1>3. TypeInv => RecoveryTypeOK
  BY DEF TypeInv
<1> QED
  BY <1>1, <1>2, <1>3, PTL DEF AnyCrashSpec


(***************************************************************************)
(* Cursors                                                                 *)
(***************************************************************************)

\* Of two intervals that are the same.
LEMMA SameRow ==
  ASSUME NEW a \in Nat, NEW b \in Nat, NEW c \in Nat, NEW d \in Nat,
         a <= b, a .. b = c .. d
  PROVE  a = c /\ b = d
<1>1. a \in c .. d /\ b \in c .. d
  OBVIOUS
<1>2. c \in a .. b /\ d \in a .. b
  BY <1>1
<1> QED
  BY <1>1, <1>2

\* Only the rtag file of the first db file can be one a start would use.
LEMMA OneItem ==
  ASSUME NEW S, NEW D, NEW R \in Nat, NEW W \in Nat, R <= W, NEW X, X = R .. W,
         NEW r, DOMAIN r \subseteq Nat,
         R \in DOMAIN r => r[R] = EmptyFile \/ Good(S, D, R, r[R].rpos, W, r[R].wpos)
  PROVE  ItemsGood(S, D, X, r)
<1> SUFFICES ASSUME NEW f \in DOMAIN r, NEW b \in Nat, ItemAt(r, X, f, b)
             PROVE  Good(S, D, f, r[f].rpos, b, r[f].wpos)
  BY DEF ItemsGood
<1>1. f \in Nat /\ R .. W = f .. b
  BY DEF ItemAt
<1>2. f = R /\ b = W
  BY <1>1, SameRow
<1> QED
  BY <1>2 DEF ItemAt

\* The cursors of the item of a queue that is served.
LEMMA ItemOfOpen ==
  ASSUME NEW S, NEW D, NEW X, NEW r, NEW rd \in DbMap, NEW wd \in DbMap,
         CursorsGood(S, D, X, r, rd, wd), ItemsGood(S, D, X, r)
  PROVE  Good(S, D, rd.cur_index, r[rd.cur_index].rpos, wd.cur_index, r[rd.cur_index].wpos)
<1>1. wd.cur_index \in Nat /\ rd.cur_index <= wd.cur_index
  BY DEF CursorsGood, Good, InPlace, DbMap
<1>2. ItemAt(r, X, rd.cur_index, wd.cur_index) /\ rd.cur_index \in DOMAIN r
  BY <1>1 DEF CursorsGood, ItemAt
<1> QED
  BY <1>1, <1>2 DEF ItemsGood

\* A queue without messages.
LEMMA GoodNone ==
  ASSUME NEW D, NEW R \in Nat, NEW q \in Nat, NEW p \in Nat, q <= p
  PROVE  Good({}, D, R, q, R, p)
BY DEF Good, InPlace, Ordered, Ahead

\* A put writes behind the cursors of the descriptor, or of the item.
LEMMA PutGood ==
  ASSUME TypeInv, NEW len \in Lens, NEW q \in Nat,
         Good(msgs, Told, rdb.cur_index, q, wdb.cur_index, wdb.pos),
         NEW x \in {WriteFile(len).pos, EndOf(NewMsg(len))}
  PROVE  Good(Written(len), Told, rdb.cur_index, q, WriteFile(len).cur_index, x)
<1> DEFINE m == NewMsg(len)
           R == rdb.cur_index
           W == wdb.cur_index
           V == WriteFile(len).cur_index
           p == WriteFile(len).pos
           S == RotatedMsgs(len)
<1>1. /\ m \in Message /\ m.file = V /\ m.pos = p /\ m.id = accepted + 1
      /\ R \in Nat /\ W \in Nat /\ V \in Nat /\ p \in Nat /\ wdb.pos \in Nat
  BY WriteAt, Typed DEF DbMap
<1>2. S \subseteq msgs /\ S \subseteq Message
  BY Typed DEF RotatedMsgs, Overwrite
<1>3. Good(S, Told, R, q, V, p)
  <2>1. CASE Fits(len)
    <3>1. V = W /\ p = wdb.pos /\ S = msgs
      BY <2>1, WriteAt DEF RotatedMsgs
    <3> QED
      BY <3>1
  <2>2. CASE ~Fits(len)
    <3>1. V = W + 1 /\ p = DbFileHeadLen /\ wdb.pos > DbFileHeadLen
      BY <2>2, WriteAt
    <3>2. msgs \in SUBSET Message /\ DbFileHeadLen \in Nat /\ DbFileHeadLen >= DbFileHeadLen
      BY Typed, Sizes
    <3> HIDE DEF R, W, V, p, S, m
    <3>3. Good(msgs, Told, R, q, W, wdb.pos)
      BY DEF R, W
    <3>4. Good(msgs, Told, R, q, W + 1, DbFileHeadLen)
      BY <1>1, <3>1, <3>2, <3>3, GoodRotate
    <3>5. Good(S, Told, R, q, W + 1, DbFileHeadLen)
      BY <1>2, <3>4, GoodFewer
    <3> QED
      BY <3>1, <3>5
  <2> QED
    BY <2>1, <2>2
<1>4. accepted \in Nat /\ (\A n \in S : n.id \in Nat /\ n.id <= accepted)
      /\ (\A d \in Told : d <= accepted)
  BY <1>2, MessageFields, Typed DEF TypeInv, MsgsInv
<1>5. \A d \in Told : d \in Nat
  <2>1. delivered \in Seq(Nat)
    BY Typed
  <2> QED
    BY <2>1 DEF Told
<1>6. (\A n \in S : n.id < m.id) /\ (\A d \in Told : d < m.id)
  <2>1. \A i \in Nat : i <= accepted => i < accepted + 1
    BY <1>4
  <2> HIDE DEF m, S
  <2> QED
    BY <1>1, <1>4, <1>5, <2>1
<1>7. Written(len) = Overwrite(S, V, p, EndOf(m)) \cup {m}
  BY <1>1 DEF Written
<1> HIDE DEF m, V, p, S
<1>8. x \in {p, EndOf(m)}
  BY DEF p, m
<1>9. Good(Overwrite(S, V, p, EndOf(m)) \cup {m}, Told, R, q, V, x)
  BY <1>1, <1>2, <1>3, <1>6, <1>8, GoodWrite
<1> QED
  BY <1>7, <1>9 DEF V


\* The message a get comes to first, of a descriptor with good cursors.
LEMMA NextGood ==
  ASSUME TypeInv, Reachable # {},
         Good(msgs, Told, rdb.cur_index, rdb.pos, wdb.cur_index, wdb.pos)
  PROVE  /\ NextMsg \in msgs /\ NextMsg \in Message
         /\ NextMsg.id \in Nat /\ NextMsg.file \in Nat /\ NextMsg.pos \in Nat
         /\ EndOf(NextMsg) \in Nat
         /\ rdb.cur_index <= NextMsg.file /\ NextMsg.file <= wdb.cur_index
         /\ NextMsg.file = rdb.cur_index => rdb.pos <= NextMsg.pos /\ rdb.pos <= EndOf(NextMsg)
         /\ NextMsg.file = wdb.cur_index => NextMsg.pos <= wdb.pos /\ EndOf(NextMsg) <= wdb.pos
         /\ \A d \in Told : d < NextMsg.id
         /\ \A m \in msgs : /\ Live(m, wdb.cur_index, wdb.pos)
                            /\ m.file >= NextMsg.file
                            /\ m.file > NextMsg.file \/ m.pos >= EndOf(NextMsg)
                            => NextMsg.id < m.id
<1>1. PICK n : n = NextMsg
  OBVIOUS
<1>2. n \in msgs /\ n \in Message /\ n \in Reachable
  BY <1>1, ScanPlace, NextReached
<1>3. /\ n.id \in Nat /\ n.file \in Nat /\ n.pos \in Nat /\ EndOf(n) \in Nat /\ n.pos < EndOf(n)
  BY <1>2, MessageFields
<1>4. PICK R, q, W, p : /\ R = rdb.cur_index /\ q = rdb.pos /\ W = wdb.cur_index /\ p = wdb.pos
                        /\ R \in Nat /\ q \in Nat /\ W \in Nat /\ p \in Nat
  BY Typed
<1>5. ReachedAt(n, R, q, W, p)
  BY <1>2, <1>4 DEF Reachable, ReachedAt
<1>6. Good(msgs, Told, R, q, W, p) /\ msgs \in SUBSET Message
  BY <1>4, Typed
<1>7. /\ n.file < W \/ (n.file = W /\ EndOf(n) <= p)
      /\ Live(n, W, p)
      /\ n.file > R \/ (n.file = R /\ n.pos >= q)
      /\ \A d \in Told : d < n.id
  BY <1>2, <1>4, <1>5, <1>6, ReachedLive
<1>8. ASSUME NEW m \in msgs, Live(m, W, p), m.file >= n.file,
             m.file > n.file \/ m.pos >= EndOf(n)
      PROVE  n.id < m.id
  <2>1. m.id \in Nat /\ m.file \in Nat /\ m.pos \in Nat /\ EndOf(m) \in Nat /\ m.pos < EndOf(m)
    BY <1>6, MessageFields
  <2>2. m.id # n.id
    <3>1. m.id = n.id => m = n
      BY <1>2 DEF TypeInv, MsgsInv
    <3> QED
      BY <1>3, <1>8, <3>1
  <2>3. ~(m.id < n.id)
    <3>1. m.id < n.id => m.file < n.file \/ (m.file = n.file /\ EndOf(m) <= n.pos)
      BY <1>2, <1>6, <1>7, <1>8 DEF Good, Ordered
    <3> QED
      BY <1>3, <1>8, <2>1, <3>1
  <2> QED
    BY <1>3, <2>1, <2>2, <2>3
<1>9. /\ R <= n.file /\ n.file <= W
      /\ n.file = R => q <= n.pos /\ q <= EndOf(n)
      /\ n.file = W => n.pos <= p /\ EndOf(n) <= p
  BY <1>3, <1>4, <1>7
<1> QED
  BY <1>1, <1>2, <1>3, <1>4, <1>7, <1>8, <1>9

\* The files a get has left are gone.
LEMMA RowMoved ==
  ASSUME NEW R \in Nat, NEW W \in Nat, NEW f \in Nat, R <= f, f <= W
  PROVE  {h \in R .. W : h >= f} = f .. W
OBVIOUS

\* The item get_next_read_file writes to the rtag file of file f.
LEMMA HopGood ==
  ASSUME TypeInv, Good(msgs, Told, rdb.cur_index, rdb.pos, wdb.cur_index, wdb.pos),
         NEW f \in Nat, rdb.cur_index <= f, f <= wdb.cur_index, f # rdb.cur_index
  PROVE  /\ f \in DOMAIN MovedRtag(f)
         /\ MovedRtag(f)[f] # EmptyFile
         /\ MovedRtag(f)[f].rpos = DbFileHeadLen /\ MovedRtag(f)[f].wpos = wdb.pos
         /\ Good({m \in msgs : m.file >= f}, Told, f, DbFileHeadLen, wdb.cur_index, wdb.pos)
<1>1. MovedRtag(f) = [g \in {f} |-> Item(ReadPos(f, DbFileHeadLen), wdb, maxque, delay, wlock)]
  BY DEF MovedRtag
<1>2. Item(ReadPos(f, DbFileHeadLen), wdb, maxque, delay, wlock) # EmptyFile
  BY CursorTypes, ItemType, Typed, Sizes, ItemNotEmpty
<1>3. /\ Item(ReadPos(f, DbFileHeadLen), wdb, maxque, delay, wlock).rpos = DbFileHeadLen
      /\ Item(ReadPos(f, DbFileHeadLen), wdb, maxque, delay, wlock).wpos = wdb.pos
  BY DEF Item, ReadPos
<1>4. PICK R, q, W, p : /\ R = rdb.cur_index /\ q = rdb.pos /\ W = wdb.cur_index /\ p = wdb.pos
                        /\ R \in Nat /\ q \in Nat /\ W \in Nat /\ p \in Nat
  BY Typed
<1>5. Good(msgs, Told, R, q, W, p) /\ msgs \in SUBSET Message /\ DbFileHeadLen \in Nat
  BY <1>4, Typed, Sizes
<1>6. R <= f /\ f <= W /\ f # R /\ R < W /\ DbFileHeadLen <= p
  BY <1>4, <1>5 DEF Good, InPlace
<1>7. Good({m \in msgs : m.file >= f}, Told, f, DbFileHeadLen, W, p)
  BY <1>4, <1>5, <1>6, GoodRead
<1> QED
  BY <1>1, <1>2, <1>3, <1>4, <1>7

\* The rtag files once a get has moved to file f, and their item if the get has
\* not written another.
LEMMA MovedGood ==
  ASSUME TypeInv, CursorsGood(msgs, Told, DOMAIN db, rtag, rdb, wdb),
         ItemsGood(msgs, Told, DOMAIN db, rtag),
         NEW f \in Nat, rdb.cur_index <= f, f <= wdb.cur_index
  PROVE  /\ f \in DOMAIN MovedRtag(f)
         /\ MovedRtag(f)[f] # EmptyFile
         /\ Good({m \in msgs : m.file >= f}, Told, f, MovedRtag(f)[f].rpos,
                 wdb.cur_index, MovedRtag(f)[f].wpos)
         /\ \/ MovedRtag(f)[f].wpos = wdb.pos
            \/ /\ f = rdb.cur_index /\ MovedRtag(f) = rtag
               /\ Fresh(msgs, rtag[rdb.cur_index], rdb, wdb)
<1>1. Good(msgs, Told, rdb.cur_index, rdb.pos, wdb.cur_index, wdb.pos)
  BY DEF CursorsGood
<1>2. CASE f = rdb.cur_index
  <2>1. MovedRtag(f) = rtag
    BY <1>2 DEF MovedRtag
  <2>2. Good(msgs, Told, rdb.cur_index, rtag[rdb.cur_index].rpos, wdb.cur_index,
             rtag[rdb.cur_index].wpos)
    BY ItemOfOpen, Typed
  <2>3. {m \in msgs : m.file >= f} \in SUBSET msgs
    OBVIOUS
  <2>4. Good({m \in msgs : m.file >= f}, Told, rdb.cur_index, rtag[rdb.cur_index].rpos,
             wdb.cur_index, rtag[rdb.cur_index].wpos)
    BY <2>2, <2>3, GoodFewer
  <2> QED
    BY <1>2, <2>1, <2>4 DEF CursorsGood
<1>3. CASE f # rdb.cur_index
  BY <1>1, <1>3, HopGood
<1> QED
  BY <1>2, <1>3


\* The cursors of a queue that is served are good, and so is its item.
OpenGood ==
  /\ CursorsGood(msgs, Told, DOMAIN db, rtag, rdb, wdb)
  /\ ItemsGood(msgs, Told, DOMAIN db, rtag)

\* A request that moves the read cursor to place x of file f and leaves the item
\* of that file to be the last.
LEMMA OpenMoved ==
  ASSUME TypeInv, OpenGood, NEW f \in Nat, rdb.cur_index <= f, f <= wdb.cur_index,
         NEW x \in Nat, f = rdb.cur_index => rdb.pos <= x, f = wdb.cur_index => x <= wdb.pos,
         MovedTo(f), wdb' = wdb, Told' = Told, rtag' = MovedRtag(f),
         rdb'.cur_index = f, rdb'.pos = x
  PROVE  OpenGood'
<1>1. CursorsGood(msgs, Told, DOMAIN db, rtag, rdb, wdb) /\ ItemsGood(msgs, Told, DOMAIN db, rtag)
  BY DEF OpenGood
<1>2. Good(msgs, Told, rdb.cur_index, rdb.pos, wdb.cur_index, wdb.pos)
  BY <1>1 DEF CursorsGood
<1>3. /\ rdb.cur_index \in Nat /\ rdb.pos \in Nat /\ wdb.cur_index \in Nat /\ wdb.pos \in Nat
      /\ msgs \in SUBSET Message
  BY Typed
<1>4. msgs' = {m \in msgs : m.file >= f} /\ DOMAIN db' = {h \in DOMAIN db : h >= f}
  BY DEF MovedTo
<1>5. DOMAIN db' = f .. wdb.cur_index
  BY <1>1, <1>3, <1>4, RowMoved DEF CursorsGood
<1>6. Good(msgs', Told, f, x, wdb.cur_index, wdb.pos)
  BY <1>2, <1>3, <1>4, GoodRead
<1>7. /\ f \in DOMAIN rtag' /\ rtag'[f] # EmptyFile
      /\ Good(msgs', Told, f, rtag'[f].rpos, wdb.cur_index, rtag'[f].wpos)
      /\ \/ rtag'[f].wpos = wdb.pos
         \/ f = rdb.cur_index /\ rtag' = rtag /\ Fresh(msgs, rtag[rdb.cur_index], rdb, wdb)
  BY <1>1, <1>4, MovedGood
<1>8. rtag'[f].wpos = wdb.pos \/ Fresh(msgs', rtag'[f], rdb', wdb)
  BY <1>4, <1>7 DEF Fresh
<1>9. CursorsGood(msgs', Told', DOMAIN db', rtag', rdb', wdb')
  BY <1>5, <1>6, <1>7, <1>8 DEF CursorsGood
<1>10. DOMAIN rtag' \subseteq Nat
  BY MovedRtagItems
<1>11. ItemsGood(msgs', Told', DOMAIN db', rtag')
  BY <1>3, <1>5, <1>7, <1>10, OneItem
<1> QED
  BY <1>9, <1>11 DEF OpenGood

\* A request whose last item has the cursors of the descriptor.
LEMMA OpenWritten ==
  ASSUME TypeInv, TypeInv', NEW R \in Nat, NEW W \in Nat, NEW q \in Nat, NEW p \in Nat,
         Good(msgs', Told', R, q, W, p), DOMAIN db' = R .. W,
         rdb'.cur_index = R, rdb'.pos = q, wdb'.cur_index = W, wdb'.pos = p,
         R \in DOMAIN rtag', rtag'[R] # EmptyFile, rtag'[R].rpos = q, rtag'[R].wpos = p
  PROVE  OpenGood'
<1>1. CursorsGood(msgs', Told', DOMAIN db', rtag', rdb', wdb')
  BY DEF CursorsGood
<1>2. DOMAIN rtag' \subseteq Nat
  BY DEF TypeInv, RecoveryTypeOK, RtagTypeOK
<1>3. R <= W
  BY DEF Good, InPlace
<1>4. ItemsGood(msgs', Told', DOMAIN db', rtag')
  BY <1>2, <1>3, OneItem
<1> QED
  BY <1>1, <1>4 DEF OpenGood

\* The db files after a put.
LEMMA RowGrown ==
  ASSUME TypeInv, NEW len \in Lens, DOMAIN db = rdb.cur_index .. wdb.cur_index,
         rdb.cur_index <= wdb.cur_index
  PROVE  /\ DOMAIN RotatedDb(len) = rdb.cur_index .. WriteFile(len).cur_index
         /\ rdb.cur_index <= WriteFile(len).cur_index
         /\ WriteFile(len).cur_index \in Nat
<1>1. PICK R, W : R = rdb.cur_index /\ W = wdb.cur_index /\ R \in Nat /\ W \in Nat
  BY Typed
<1>2. CASE Fits(len)
  BY <1>1, <1>2 DEF RotatedDb, WriteFile
<1>3. CASE ~Fits(len)
  <2>1. DOMAIN RotatedDb(len) = DOMAIN db \cup {wdb.cur_index + 1}
    BY <1>3 DEF RotatedDb
  <2>2. R .. (W + 1) = (R .. W) \cup {W + 1} /\ R <= W + 1 /\ W + 1 \in Nat
    BY <1>1
  <2>3. WriteFile(len).cur_index = W + 1
    BY <1>1, <1>3 DEF WriteFile
  <2> QED
    BY <1>1, <2>1, <2>2, <2>3
<1> QED
  BY <1>2, <1>3

\* A request that finds the queue.
LEMMA ServeGood ==
  ASSUME TypeInv, TypeInv', OpenGood, Serve
  PROVE  OpenGood'
<1>1. /\ CursorsGood(msgs, Told, DOMAIN db, rtag, rdb, wdb)
      /\ ItemsGood(msgs, Told, DOMAIN db, rtag)
      /\ Good(msgs, Told, rdb.cur_index, rdb.pos, wdb.cur_index, wdb.pos)
      /\ DOMAIN db = rdb.cur_index .. wdb.cur_index
      /\ rdb.cur_index \in DOMAIN rtag
      /\ rdb.cur_index <= wdb.cur_index
      /\ rdb.cur_index = wdb.cur_index => rdb.pos <= wdb.pos
  BY DEF OpenGood, CursorsGood, Good, InPlace
<1>2. /\ rdb.cur_index \in Nat /\ rdb.pos \in Nat /\ wdb.cur_index \in Nat /\ wdb.pos \in Nat
      /\ rdb \in DbMap /\ wdb \in DbMap /\ wlock \in Int /\ maxque \in Nat /\ delay \in Nat
  BY Typed
<1>4. CASE PutFull \/ PutWlocked \/ GetEmpty \/ Tick
  <2>1. UNCHANGED <<db, msgs, rtag, rdb, wdb, delivered>>
    BY <1>4 DEF PutFull, PutWlocked, GetEmpty, Tick, files, cursors, history
  <2> QED
    BY <1>1, <2>1 DEF OpenGood, Told
<1>10. CASE \E len \in Lens : PutNoSpace(len)
  <2>1. /\ DOMAIN db' = DOMAIN db /\ msgs' \in SUBSET msgs
        /\ UNCHANGED <<rtag, rdb, wdb, delivered>>
    BY <1>10, RefusedFiles DEF PutNoSpace, cursors, history
  <2>2. Told' = Told
    BY <2>1 DEF Told
  <2>3. Good(msgs', Told, rdb.cur_index, rdb.pos, wdb.cur_index, wdb.pos)
    BY <1>1, <2>1, GoodFewer
  <2>4. Fresh(msgs, rtag[rdb.cur_index], rdb, wdb) => Fresh(msgs', rtag[rdb.cur_index], rdb, wdb)
    BY <2>1 DEF Fresh
  <2>5. CursorsGood(msgs', Told', DOMAIN db', rtag', rdb', wdb')
    BY <1>1, <2>1, <2>2, <2>3, <2>4 DEF CursorsGood
  <2>6. ItemsGood(msgs', Told', DOMAIN db', rtag')
    BY <1>1, <2>1, <2>2, GoodFewer DEF ItemsGood
  <2> QED
    BY <2>5, <2>6 DEF OpenGood
<1>5. CASE \/ \E n \in MaxQueues : SetMaxQueue(n)
           \/ \E d \in Delays : SetDelay(d)
           \/ \E w \in Wlocks : SetWlock(w)
  <2>1. /\ rtag' = [rtag EXCEPT ![rdb.cur_index] = Item(rdb, wdb, maxque', delay', wlock')]
        /\ UNCHANGED <<db, msgs, rdb, wdb, delivered>>
    BY <1>5, SetTypes DEF Configured, cursors, history
  <2>2. maxque' \in Nat /\ delay' \in Nat /\ wlock' \in Int
    BY <1>5, SetTypes
  <2>3. rtag'[rdb.cur_index] = Item(rdb, wdb, maxque', delay', wlock') /\ DOMAIN rtag' = DOMAIN rtag
    BY <1>1, <2>1
  <2>4. rtag'[rdb.cur_index] # EmptyFile
    BY <1>2, <2>2, <2>3, ItemType, ItemNotEmpty
  <2>5. rtag'[rdb.cur_index].rpos = rdb.pos /\ rtag'[rdb.cur_index].wpos = wdb.pos
    BY <2>3 DEF Item
  <2>6. Good(msgs', Told', rdb.cur_index, rdb.pos, wdb.cur_index, wdb.pos)
    BY <1>1, <2>1 DEF Told
  <2> QED
    BY <1>1, <1>2, <2>1, <2>3, <2>4, <2>5, <2>6, OpenWritten
<1>6. ASSUME NEW len \in Lens, PutOk(len)
      PROVE  OpenGood'
  <2> DEFINE w == [cur_index |-> WriteFile(len).cur_index, pos |-> EndOf(NewMsg(len)),
                   opt_count |-> WriteFile(len).opt_count + 1]
  <2>1. /\ wdb' = w /\ db' = RotatedDb(len) /\ msgs' = Written(len)
        /\ rtag' = [rtag EXCEPT ![rdb.cur_index] = Item(rdb, wdb', maxque, delay, wlock)]
        /\ UNCHANGED <<rdb, delivered>>
    BY <1>6 DEF PutOk, NewMsg, Written
  <2>2. w \in DbMap /\ w.cur_index = WriteFile(len).cur_index /\ w.pos = EndOf(NewMsg(len))
    BY CursorTypes
  <2> HIDE DEF w
  <2>3. rtag'[rdb.cur_index] = Item(rdb, wdb', maxque, delay, wlock) /\ DOMAIN rtag' = DOMAIN rtag
    BY <1>1, <2>1
  <2>4. rtag'[rdb.cur_index] # EmptyFile
    BY <1>2, <2>1, <2>2, <2>3, ItemType, ItemNotEmpty
  <2>5. rtag'[rdb.cur_index].rpos = rdb.pos /\ rtag'[rdb.cur_index].wpos = wdb'.pos
    BY <2>3 DEF Item
  <2>6. EndOf(NewMsg(len)) \in {WriteFile(len).pos, EndOf(NewMsg(len))}
    OBVIOUS
  <2>7. Good(msgs', Told', rdb.cur_index, rdb.pos, WriteFile(len).cur_index, EndOf(NewMsg(len)))
    BY <1>1, <1>2, <2>1, <2>6, PutGood DEF Told
  <2>8. DOMAIN db' = rdb.cur_index .. WriteFile(len).cur_index /\ WriteFile(len).cur_index \in Nat
    BY <1>1, <2>1, RowGrown
  <2>9. EndOf(NewMsg(len)) \in Nat
    BY WriteAt, MessageFields
  <2> QED
    BY <1>1, <1>2, <2>1, <2>2, <2>3, <2>4, <2>5, <2>7, <2>8, <2>9, OpenWritten
<1>7. CASE GetEnd
  <2>1. /\ MovedTo(wdb.cur_index) /\ rtag' = MovedRtag(wdb.cur_index)
        /\ rdb'.cur_index = wdb.cur_index /\ rdb'.pos = wdb.pos
        /\ wdb' = wdb /\ Told' = Told
    BY <1>7 DEF GetEnd, ReadPos, history, Told
  <2>2. wdb.cur_index <= wdb.cur_index /\ wdb.pos <= wdb.pos
    BY <1>2
  <2> QED
    BY <1>1, <1>2, <2>1, <2>2, OpenMoved
<1>8. CASE GetDelayed
  <2>1. /\ MovedTo(NextMsg.file) /\ rtag' = MovedRtag(NextMsg.file) /\ Reachable # {}
        /\ rdb'.cur_index = NextMsg.file /\ rdb'.pos = NextMsg.pos
        /\ wdb' = wdb /\ Told' = Told
    BY <1>8 DEF GetDelayed, ReadPos, history, Told
  <2>2. /\ NextMsg.file \in Nat /\ NextMsg.pos \in Nat
        /\ rdb.cur_index <= NextMsg.file /\ NextMsg.file <= wdb.cur_index
        /\ NextMsg.file = rdb.cur_index => rdb.pos <= NextMsg.pos
        /\ NextMsg.file = wdb.cur_index => NextMsg.pos <= wdb.pos
    BY <1>1, <2>1, NextGood
  <2> QED
    BY <2>1, <2>2, OpenMoved
<1>9. CASE GetOk
  <2> DEFINE r == [ReadPos(NextMsg.file, EndOf(NextMsg)) EXCEPT !.opt_count = @ + 1]
  <2>1. /\ MovedTo(NextMsg.file) /\ Reachable # {} /\ rdb' = r /\ wdb' = wdb
        /\ rtag' = [MovedRtag(NextMsg.file) EXCEPT ![NextMsg.file] =
                      Item(rdb', wdb, maxque, delay, wlock)]
        /\ delivered' = Append(delivered, NextMsg.id)
    BY <1>9 DEF GetOk
  <2>2. r \in DbMap
    BY <2>1, CursorTypes
  <2>3. r.cur_index = NextMsg.file /\ r.pos = EndOf(NextMsg)
    BY DEF ReadPos
  <2> HIDE DEF r
  <2>4. PICK n, R, q, W, p :
          /\ n = NextMsg
          /\ R = rdb.cur_index /\ q = rdb.pos /\ W = wdb.cur_index /\ p = wdb.pos
          /\ R \in Nat /\ q \in Nat /\ W \in Nat /\ p \in Nat
    BY <1>2
  <2>5. /\ n.file \in Nat /\ EndOf(n) \in Nat /\ n.id \in Nat
        /\ R <= n.file /\ n.file <= W
        /\ n.file = R => q <= EndOf(n)
        /\ n.file = W => EndOf(n) <= p
        /\ \A m \in msgs : /\ Live(m, W, p)
                           /\ m.file >= n.file
                           /\ m.file > n.file \/ m.pos >= EndOf(n)
                           => n.id < m.id
    BY <1>1, <2>1, <2>4, NextGood
  <2>6. msgs' = {m \in msgs : m.file >= n.file} /\ DOMAIN db' = {h \in DOMAIN db : h >= n.file}
    BY <2>1, <2>4 DEF MovedTo
  <2>7. Good(msgs, Told, R, q, W, p) /\ msgs \in SUBSET Message
    BY <1>1, <2>4, Typed
  <2>8. Good(msgs', Told, n.file, EndOf(n), W, p)
    BY <2>4, <2>5, <2>6, <2>7, GoodRead
  <2>9. \A m \in msgs' : Live(m, W, p) /\ (m.file > n.file \/ m.pos >= EndOf(n)) => n.id < m.id
    BY <2>5, <2>6
  <2>10. Told' = Told \cup {n.id}
    BY <2>1, <2>4, <2>5, ToldMore
  <2>11. Good(msgs', Told', n.file, EndOf(n), W, p)
    BY <2>8, <2>9, <2>10, GoodTold
  <2>12. DOMAIN db' = n.file .. W
    BY <1>1, <2>4, <2>5, <2>6, RowMoved
  <2>13. n.file \in DOMAIN MovedRtag(n.file)
    BY <1>1, <2>4, <2>5, MovedGood
  <2>14. n.file \in DOMAIN rtag' /\ rtag'[n.file] = Item(rdb', wdb, maxque, delay, wlock)
    BY <2>1, <2>4, <2>13
  <2>15. rtag'[n.file] # EmptyFile
    BY <1>2, <2>1, <2>2, <2>14, ItemType, ItemNotEmpty
  <2>16. rtag'[n.file].rpos = EndOf(n) /\ rtag'[n.file].wpos = p
    BY <2>1, <2>3, <2>4, <2>14 DEF Item
  <2> QED
    BY <2>1, <2>3, <2>4, <2>5, <2>11, <2>12, <2>14, <2>15, <2>16, OpenWritten
<1> QED
  BY <1>4, <1>5, <1>6, <1>7, <1>8, <1>9, <1>10 DEF Serve, Next, Get, GetNothing


\* A request that makes the queue.
LEMMA MadeGood ==
  ASSUME TypeInv, TypeInv',
         \/ \E len \in Lens : PutNew(len)
         \/ \E n \in MaxQueues : SetNew(n, DefDelay)
         \/ \E d \in Delays : SetNew(DefMaxQueue, d % Width)
         \/ Reset
  PROVE  OpenGood'
<1>1. DOMAIN db' = 1 .. 1 /\ rdb'.cur_index = 1 /\ rdb'.pos = DbFileHeadLen
  BY MadeTypes DEF NewDb, NewMap
<1>2. DbFileHeadLen \in Nat /\ NewMap \in DbMap /\ DbFileHeadLen <= DbFileHeadLen
  BY Sizes DEF NewMap, DbMap
<1>3. Told' = Told
  <2>1. delivered' = delivered
    BY DEF PutNew, SetNew, Reset, Created
  <2> QED
    BY <2>1 DEF Told
<1>4. ASSUME NEW len \in Lens, PutNew(len)
      PROVE  OpenGood'
  <2> DEFINE m == [id |-> accepted + 1, file |-> 1, pos |-> DbFileHeadLen, len |-> len, time |-> now]
             w == [cur_index |-> 1, pos |-> EndOf(m), opt_count |-> 1]
  <2>1. m \in Message
    BY Typed, Sizes DEF Message
  <2>2. m.id = accepted + 1 /\ m.file = 1 /\ m.pos = DbFileHeadLen
    OBVIOUS
  <2>3. /\ wdb' = w /\ msgs' = {m}
        /\ rtag' = [f \in {1} |-> Item(NewMap, w, maxque', delay', 0)]
    BY <1>4 DEF PutNew, Created
  <2> HIDE DEF m
  <2>4. EndOf(m) \in Nat /\ DbFileHeadLen <= EndOf(m)
    BY <2>1, <2>2, MessageFields, Sizes
  <2>5. w \in DbMap /\ w.cur_index = 1 /\ w.pos = EndOf(m)
    BY <2>4 DEF DbMap
  <2> HIDE DEF w
  <2>6. \A d \in Told : d < m.id
    <3>1. delivered \in Seq(Nat) /\ accepted \in Nat
      BY Typed
    <3>2. \A d \in Told : d \in Nat
      BY <3>1 DEF Told
    <3>3. \A d \in Told : d <= accepted
      BY DEF TypeInv, MsgsInv
    <3> QED
      BY <2>2, <3>1, <3>2, <3>3
  <2>7. Good({m}, Told, 1, DbFileHeadLen, 1, EndOf(m))
    <3>1. InPlace({m}, 1, DbFileHeadLen, 1, EndOf(m))
      BY <2>2, <2>4 DEF InPlace
    <3>2. Ordered({m}, 1, EndOf(m))
      <4>1. ~(m.id < m.id)
        BY <2>1, MessageFields
      <4> QED
        BY <4>1 DEF Ordered
    <3>3. Ahead({m}, Told, 1, DbFileHeadLen, 1, EndOf(m))
      BY <2>6 DEF Ahead
    <3> QED
      BY <3>1, <3>2, <3>3 DEF Good
  <2>8. maxque' \in Nat /\ delay' \in Nat
    BY MadeTypes
  <2>9. 1 \in DOMAIN rtag' /\ rtag'[1] = Item(NewMap, w, maxque', delay', 0)
    BY <2>3
  <2>10. rtag'[1] # EmptyFile
    BY <1>2, <2>5, <2>8, <2>9, ItemType, ItemNotEmpty
  <2>11. rtag'[1].rpos = DbFileHeadLen /\ rtag'[1].wpos = EndOf(m)
    BY <2>5, <2>9 DEF Item, NewMap
  <2> QED
    BY <1>1, <1>2, <1>3, <2>3, <2>4, <2>5, <2>7, <2>9, <2>10, <2>11, OpenWritten
<1>5. ASSUME NEW mq \in Nat, NEW d \in Nat, SetNew(mq, d)
      PROVE  OpenGood'
  <2>1. /\ wdb' = NewMap /\ msgs' = {}
        /\ rtag' = [f \in {1} |-> Item(NewMap, NewMap, mq, d, 0)]
    BY <1>5 DEF SetNew, Created
  <2>2. Good({}, Told, 1, DbFileHeadLen, 1, DbFileHeadLen)
    BY <1>2, GoodNone
  <2>3. 1 \in DOMAIN rtag' /\ rtag'[1] = Item(NewMap, NewMap, mq, d, 0)
    BY <2>1
  <2>4. rtag'[1] # EmptyFile
    BY <1>2, <2>3, ItemType, ItemNotEmpty
  <2>5. /\ rtag'[1].rpos = DbFileHeadLen /\ rtag'[1].wpos = DbFileHeadLen
        /\ wdb'.cur_index = 1 /\ wdb'.pos = DbFileHeadLen
    BY <2>1, <2>3 DEF Item, NewMap
  <2> QED
    BY <1>1, <1>2, <1>3, <2>1, <2>2, <2>3, <2>4, <2>5, OpenWritten
<1>6. CASE Reset
  <2>1. wdb' = NewMap /\ msgs' = {} /\ rtag' = [f \in {1} |-> NewRtag[1]]
    BY <1>6 DEF Reset, Created
  <2>2. NewRtag[1] \in RtagItem
    BY ConfigAssumption DEF NewRtag, RtagItem
  <2>3. /\ NewRtag[1] # EmptyFile /\ NewRtag[1].rpos = 0 /\ NewRtag[1].wpos = 0
        /\ NewMap.cur_index = 1 /\ NewMap.pos = DbFileHeadLen
    BY <2>2, ItemNotEmpty DEF NewRtag, NewMap
  <2>4. DOMAIN rtag' = {1} /\ rtag'[1] = NewRtag[1]
    BY <2>1
  <2>5. Good({}, Told, 1, DbFileHeadLen, 1, DbFileHeadLen) /\ Good({}, Told, 1, 0, 1, 0)
    BY <1>2, GoodNone
  <2>6. CursorsGood(msgs', Told', DOMAIN db', rtag', rdb', wdb')
    BY <1>1, <1>3, <2>1, <2>3, <2>4, <2>5 DEF CursorsGood, Fresh
  <2>7. Good(msgs', Told', 1, rtag'[1].rpos, 1, rtag'[1].wpos)
    BY <1>3, <2>1, <2>3, <2>4, <2>5
  <2>8. 1 \in Nat /\ 1 <= 1 /\ DOMAIN rtag' \subseteq Nat
    BY <2>4
  <2>9. ItemsGood(msgs', Told', DOMAIN db', rtag')
    BY <1>1, <2>7, <2>8, OneItem
  <2> QED
    BY <2>6, <2>9 DEF OpenGood
<1>7. /\ \A n \in MaxQueues : n \in Nat
      /\ \A d \in Delays : d % Width \in Nat
      /\ DefMaxQueue \in Nat /\ DefDelay \in Nat
  BY ConfigAssumption, ModNat
<1> QED
  BY <1>4, <1>5, <1>6, <1>7

\* A start that opens the queue.
LEMMA RestartGood ==
  ASSUME TypeInv, NEW a \in Nat, NEW b \in Nat, DOMAIN db = a .. b,
         ItemsGood(msgs, Told, DOMAIN db, rtag),
         NEW fid \in DOMAIN rtag, HandleFile(fid), Opened(rtag[fid])
  PROVE  /\ CursorsGood(msgs, Told, DOMAIN db, rtag, rdb', wdb')
         /\ ItemAt(rtag, DOMAIN db, fid, b) /\ b = WriteFid
<1>1. /\ rtag[fid] \in RtagItem /\ fid = ReadFid /\ fid \in Nat /\ DOMAIN db # {}
      /\ rdb'.cur_index = fid /\ rdb'.pos = rtag[fid].rpos
      /\ wdb'.cur_index = WriteFid /\ wdb'.pos = rtag[fid].wpos
  BY RestartTypes
<1>2. /\ ReadFid \in a .. b /\ WriteFid \in a .. b
      /\ \A f \in a .. b : ReadFid <= f /\ f <= WriteFid
  BY <1>1, FirstAndLast
<1>3. PICK c, d : c = ReadFid /\ d = WriteFid
  OBVIOUS
<1>4. c \in a .. b /\ d \in a .. b /\ \A f \in a .. b : c <= f /\ f <= d
  BY <1>2, <1>3
<1>5. c = a /\ d = b /\ a <= b
  <2>1. a <= b /\ c \in Nat /\ d \in Nat /\ a <= c /\ d <= b
    BY <1>4
  <2>2. a \in a .. b /\ b \in a .. b
    BY <2>1
  <2>3. c <= a /\ b <= d
    BY <1>4, <2>2
  <2> QED
    BY <2>1, <2>3
<1>6. rtag[fid] # EmptyFile
  BY <1>1, ItemNotEmpty
<1>7. ItemAt(rtag, DOMAIN db, fid, b) /\ fid = a
  BY <1>1, <1>3, <1>5, <1>6 DEF ItemAt
<1>8. Good(msgs, Told, fid, rtag[fid].rpos, b, rtag[fid].wpos)
  BY <1>7 DEF ItemsGood
<1>9. CursorsGood(msgs, Told, DOMAIN db, rtag, rdb', wdb')
  BY <1>1, <1>3, <1>5, <1>6, <1>7, <1>8 DEF CursorsGood
<1> QED
  BY <1>3, <1>5, <1>7, <1>9


\* The cursors of the item a process leaves when it dies.
LEMMA DeadGood ==
  ASSUME TypeInv, TypeInv', CrashIdle \/ CrashInRequest, "partial" \notin torn',
         ItemsGood(msgs, Told, DOMAIN db, rtag),
         status = "open" => CursorsGood(msgs, Told, DOMAIN db, rtag, rdb, wdb)
  PROVE  ItemsGood(msgs', Told', DOMAIN db', rtag')
<1> DEFINE Goal == ItemsGood(msgs', Told', DOMAIN db', rtag')
<1>1. Told' = Told
  <2>1. delivered' = delivered
    BY Deaths, DieTypes
  <2> QED
    BY <2>1 DEF Told
<1>2. /\ rdb.cur_index \in Nat /\ rdb.pos \in Nat /\ wdb.cur_index \in Nat /\ wdb.pos \in Nat
      /\ rdb \in DbMap /\ wdb \in DbMap /\ wlock \in Int /\ maxque \in Nat /\ delay \in Nat
  BY Typed
<1>3. DOMAIN rtag \subseteq Nat /\ DOMAIN rtag' \subseteq Nat
  BY DEF TypeInv, RecoveryTypeOK, RtagTypeOK
<1>4. ASSUME status = "open"
      PROVE  /\ CursorsGood(msgs, Told, DOMAIN db, rtag, rdb, wdb)
             /\ Good(msgs, Told, rdb.cur_index, rdb.pos, wdb.cur_index, wdb.pos)
             /\ DOMAIN db = rdb.cur_index .. wdb.cur_index
             /\ rdb.cur_index \in DOMAIN rtag /\ rtag[rdb.cur_index] # EmptyFile
             /\ rtag[rdb.cur_index].rpos \in Nat /\ rtag[rdb.cur_index].wpos \in Nat
             /\ rdb.cur_index <= wdb.cur_index
             /\ Good(msgs, Told, rdb.cur_index, rtag[rdb.cur_index].rpos, wdb.cur_index,
                     rtag[rdb.cur_index].wpos)
             /\ \/ rtag[rdb.cur_index].wpos = wdb.pos
                \/ Fresh(msgs, rtag[rdb.cur_index], rdb, wdb)
  <2>1. CursorsGood(msgs, Told, DOMAIN db, rtag, rdb, wdb)
    BY <1>4
  <2>2. /\ Good(msgs, Told, rdb.cur_index, rdb.pos, wdb.cur_index, wdb.pos)
        /\ DOMAIN db = rdb.cur_index .. wdb.cur_index
        /\ rdb.cur_index \in DOMAIN rtag /\ rtag[rdb.cur_index] # EmptyFile
        /\ \/ rtag[rdb.cur_index].wpos = wdb.pos
           \/ Fresh(msgs, rtag[rdb.cur_index], rdb, wdb)
    BY <2>1 DEF CursorsGood
  <2>3. rdb.cur_index <= wdb.cur_index
    BY <2>2 DEF Good, InPlace
  <2>4. rtag[rdb.cur_index] \in RtagItem
    BY <2>2 DEF TypeInv, RecoveryTypeOK, RtagTypeOK
  <2>5. rtag[rdb.cur_index].rpos \in Nat /\ rtag[rdb.cur_index].wpos \in Nat
    BY <2>4 DEF RtagItem
  <2> QED
    BY <1>2, <2>1, <2>2, <2>3, <2>5, ItemOfOpen
<1>5. CASE CrashIdle
  BY <1>1, <1>5 DEF CrashIdle, files
<1>6. ASSUME NEW len \in Lens, CrashInRotation(len)
      PROVE  Goal
  <2>1. /\ status = "open" /\ ~Fits(len) /\ db' = RotatedDb(len) /\ msgs' = RotatedMsgs(len)
        /\ rtag' = rtag
    BY <1>6 DEF CrashInRotation, PutAdmitted
  <2>2. wdb.pos > DbFileHeadLen /\ WriteFile(len).cur_index = wdb.cur_index + 1
    BY <2>1, WriteAt
  <2>3. wdb.pos # DbFileHeadLen /\ wdb.pos >= DbFileHeadLen
    BY <1>2, <2>2, Sizes
  <2>4. rtag[rdb.cur_index].wpos = wdb.pos
    BY <1>4, <2>1, <2>3 DEF Fresh
  <2>5. PICK R, q, W, p : /\ R = rdb.cur_index /\ W = wdb.cur_index
                          /\ q = rtag[rdb.cur_index].rpos /\ p = rtag[rdb.cur_index].wpos
                          /\ R \in Nat /\ q \in Nat /\ W \in Nat /\ p \in Nat
    BY <1>2, <1>4, <2>1
  <2>6. Good(msgs, Told, R, q, W, p) /\ p > DbFileHeadLen /\ p >= DbFileHeadLen
    BY <1>4, <2>1, <2>2, <2>3, <2>4, <2>5
  <2>7. Good(msgs, Told, R, q, W + 1, p)
    BY <2>5, <2>6, GoodRotate, Typed
  <2>8. RotatedMsgs(len) \in SUBSET msgs
    BY DEF RotatedMsgs, Overwrite
  <2>9. Good(msgs', Told', R, rtag'[R].rpos, W + 1, rtag'[R].wpos)
    BY <1>1, <2>1, <2>5, <2>7, <2>8, GoodFewer
  <2>10. DOMAIN db' = R .. (W + 1) /\ R <= W + 1 /\ W + 1 \in Nat
    BY <1>4, <2>1, <2>2, <2>5, RowGrown
  <2> QED
    BY <1>3, <2>5, <2>9, <2>10, OneItem
<1>7. ASSUME NEW len \in Lens, NEW written \in BOOLEAN, CrashBeforeAck(len, written)
      PROVE  Goal
  <2> DEFINE w == WriteFile(len)
             x == [w EXCEPT !.pos = EndOf(NewMsg(len))]
  <2>1. /\ status = "open" /\ db' = RotatedDb(len) /\ msgs' = Written(len)
    BY <1>7 DEF CrashBeforeAck, PutAdmitted, NewMsg, Written
  <2>2. DOMAIN db' = rdb.cur_index .. w.cur_index /\ rdb.cur_index <= w.cur_index /\ w.cur_index \in Nat
    BY <1>4, <2>1, RowGrown
  <2>3. \/ rtag' = [rtag EXCEPT ![rdb.cur_index] = Item(rdb, x, maxque, delay, wlock)]
        \/ rtag' = [rtag EXCEPT ![rdb.cur_index] = Item(rdb, w, maxque, delay, wlock)]
        \/ Fits(len) /\ rtag' = [rtag EXCEPT ![rdb.cur_index] = rtag[rdb.cur_index]]
    BY <1>7 DEF CrashBeforeAck, NewMsg
  <2>4. x.pos = EndOf(NewMsg(len))
    BY WriteAt DEF DbMap
  <2>5. \/ rtag'[rdb.cur_index] = Item(rdb, x, maxque, delay, wlock)
        \/ rtag'[rdb.cur_index] = Item(rdb, w, maxque, delay, wlock)
        \/ Fits(len) /\ rtag'[rdb.cur_index] = rtag[rdb.cur_index]
    BY <1>4, <2>1, <2>3
  <2> HIDE DEF x
  <2>6. \/ /\ rtag'[rdb.cur_index].rpos = rdb.pos
           /\ rtag'[rdb.cur_index].wpos \in {WriteFile(len).pos, EndOf(NewMsg(len))}
        \/ Fits(len) /\ rtag'[rdb.cur_index] = rtag[rdb.cur_index]
    BY <2>4, <2>5 DEF Item
  <2>7. Good(msgs', Told', rdb.cur_index, rtag'[rdb.cur_index].rpos, w.cur_index,
             rtag'[rdb.cur_index].wpos)
    <3>1. CASE /\ rtag'[rdb.cur_index].rpos = rdb.pos
               /\ rtag'[rdb.cur_index].wpos \in {WriteFile(len).pos, EndOf(NewMsg(len))}
      BY <1>1, <1>2, <1>4, <2>1, <3>1, PutGood
    <3>2. CASE Fits(len) /\ rtag'[rdb.cur_index] = rtag[rdb.cur_index]
      <4>1. w = wdb
        BY <3>2, WriteAt
      <4>2. CASE rtag[rdb.cur_index].wpos = wdb.pos
        <5>1. Good(msgs, Told, rdb.cur_index, rtag[rdb.cur_index].rpos, wdb.cur_index, wdb.pos)
          BY <1>4, <2>1, <4>2
        <5>2. wdb.pos \in {WriteFile(len).pos, EndOf(NewMsg(len))}
          BY <4>1
        <5>3. rtag[rdb.cur_index].rpos \in Nat
          BY <1>4, <2>1
        <5> QED
          BY <1>1, <2>1, <3>2, <4>2, <5>1, <5>2, <5>3, PutGood
      <4>3. CASE Fresh(msgs, rtag[rdb.cur_index], rdb, wdb)
        <5>1. PICK m, R : m = NewMsg(len) /\ R = rdb.cur_index /\ R \in Nat
          BY <1>2
        <5>2. m \in Message /\ m.file = R /\ m.pos = DbFileHeadLen
          BY <3>2, <4>3, <5>1, WriteAt DEF Fresh
        <5>3. EndOf(m) \in Nat /\ EndOf(m) > 0 /\ DbFileHeadLen \in Nat /\ DbFileHeadLen > 0
              /\ m.file \in Nat
          BY <5>2, MessageFields, Sizes
        <5>4. msgs = {}
          BY <4>3 DEF Fresh
        <5>5. msgs' = {m}
          BY <2>1, <3>2, <5>1, <5>4 DEF Written, RotatedMsgs, Overwrite
        <5>6. ~Live(m, R, 0)
          BY <5>2, <5>3, <5>1 DEF Live
        <5>7. InPlace({m}, R, 0, R, 0)
          BY <5>1, <5>2, <5>3 DEF InPlace
        <5>8. Good({m}, Told, R, 0, R, 0)
          BY <5>6, <5>7 DEF Good, Ordered, Ahead
        <5>9. /\ rtag'[rdb.cur_index].rpos = 0 /\ rtag'[rdb.cur_index].wpos = 0
              /\ w.cur_index = R
          BY <3>2, <4>1, <4>3, <5>1 DEF Fresh
        <5> QED
          BY <1>1, <5>1, <5>5, <5>8, <5>9
      <4> QED
        BY <1>4, <2>1, <4>2, <4>3
    <3> QED
      BY <2>6, <3>1, <3>2
  <2> HIDE DEF w
  <2> QED
    BY <1>2, <1>3, <2>2, <2>7, OneItem
<1>8. ASSUME NEW f \in rdb.cur_index .. (ScanTarget - 1), NEW step \in 1 .. 3, CrashInHop(f, step)
      PROVE  Goal
  <2> DEFINE here == MovedRtag(f)
  <2>1. status = "open" /\ MovedTo(f)
    BY <1>8 DEF CrashInHop
  <2>2. ScanTarget \in Nat /\ ScanTarget <= wdb.cur_index
    BY <1>2, <1>4, <2>1, NextGood DEF ScanTarget
  <2>3. f \in Nat /\ rdb.cur_index <= f /\ f <= wdb.cur_index /\ f # f + 1
    BY <1>2, <1>8, <2>2
  <2>4. f \in DOMAIN rtag' => rtag'[f] = here[f]
    BY <1>8, <2>3 DEF CrashInHop
  <2>5. msgs' = {m \in msgs : m.file >= f} /\ DOMAIN db' = {h \in DOMAIN db : h >= f}
    BY <2>1 DEF MovedTo
  <2>6. DOMAIN db' = f .. wdb.cur_index
    BY <1>2, <1>4, <2>1, <2>3, <2>5, RowMoved
  <2>7. Good(msgs', Told', f, here[f].rpos, wdb.cur_index, here[f].wpos)
    BY <1>1, <1>4, <2>1, <2>3, <2>5, MovedGood
  <2> HIDE DEF here
  <2> QED
    BY <1>2, <1>3, <2>3, <2>4, <2>6, <2>7, OneItem
<1>12. CASE \/ \E len \in Lens, f \in {rdb.cur_index, wdb.cur_index} : CrashNoSpace(len, f)
            \/ \E f \in rdb.cur_index .. ScanTarget : CrashInScan(f)
  <2>1. PICK f \in Nat : ScanDeath(f)
    BY <1>12, ScanDeaths
  <2>2. /\ status = "open" /\ rtag' = MovedRtag(f)
        /\ DOMAIN db' = {h \in DOMAIN db : h >= f}
        /\ msgs' \in SUBSET {m \in msgs : m.file >= f}
        /\ f \in {rdb.cur_index, ScanTarget} \cup (rdb.cur_index .. ScanTarget)
    BY <2>1 DEF ScanDeath, FilesScan
  <2>3. rdb.cur_index <= f /\ f <= wdb.cur_index
    <3>1. ScanTarget \in Nat /\ rdb.cur_index <= ScanTarget /\ ScanTarget <= wdb.cur_index
      BY <1>2, <1>4, <2>2, NextGood DEF ScanTarget
    <3> QED
      BY <1>2, <1>4, <2>2, <3>1
  <2>4. DOMAIN db' = f .. wdb.cur_index
    BY <1>2, <1>4, <2>2, <2>3, RowMoved
  <2>5. Good({m \in msgs : m.file >= f}, Told, f, MovedRtag(f)[f].rpos,
             wdb.cur_index, MovedRtag(f)[f].wpos)
    BY <1>4, <2>2, <2>3, MovedGood
  <2>6. Good(msgs', Told', f, rtag'[f].rpos, wdb.cur_index, rtag'[f].wpos)
    BY <1>1, <2>2, <2>5, GoodFewer
  <2> QED
    BY <1>2, <1>3, <2>3, <2>4, <2>6, OneItem
<1>9. CASE CrashBeforeReply
  <2> DEFINE r == [ReadPos(NextMsg.file, EndOf(NextMsg)) EXCEPT !.opt_count = @ + 1]
  <2>1. /\ status = "open" /\ MovedTo(NextMsg.file) /\ Reachable # {}
        /\ rtag' = [MovedRtag(NextMsg.file) EXCEPT ![NextMsg.file] =
                      Item(r, wdb, maxque, delay, wlock)]
    BY <1>9 DEF CrashBeforeReply
  <2>2. r.pos = EndOf(NextMsg)
    BY DEF ReadPos
  <2> HIDE DEF r
  <2>3. PICK n, R, q, W, p :
          /\ n = NextMsg
          /\ R = rdb.cur_index /\ q = rdb.pos /\ W = wdb.cur_index /\ p = wdb.pos
          /\ R \in Nat /\ q \in Nat /\ W \in Nat /\ p \in Nat
    BY <1>2
  <2>4. /\ n.file \in Nat /\ EndOf(n) \in Nat
        /\ R <= n.file /\ n.file <= W
        /\ n.file = R => q <= EndOf(n)
        /\ n.file = W => EndOf(n) <= p
    BY <1>4, <2>1, <2>3, NextGood
  <2>5. msgs' = {m \in msgs : m.file >= n.file} /\ DOMAIN db' = {h \in DOMAIN db : h >= n.file}
    BY <2>1, <2>3 DEF MovedTo
  <2>6. Good(msgs, Told, R, q, W, p) /\ msgs \in SUBSET Message
    BY <1>4, <2>1, <2>3, Typed
  <2>7. Good(msgs', Told', n.file, EndOf(n), W, p)
    BY <1>1, <2>3, <2>4, <2>5, <2>6, GoodRead
  <2>8. DOMAIN db' = n.file .. W
    BY <1>4, <2>1, <2>3, <2>4, <2>5, RowMoved
  <2>9. n.file \in DOMAIN rtag' => rtag'[n.file] = Item(r, wdb, maxque, delay, wlock)
    BY <2>1, <2>3
  <2>10. n.file \in DOMAIN rtag' => rtag'[n.file].rpos = EndOf(n) /\ rtag'[n.file].wpos = p
    BY <2>2, <2>3, <2>9 DEF Item
  <2> QED
    BY <1>3, <2>3, <2>4, <2>7, <2>8, <2>10, OneItem
<1>10. ASSUME NEW dbs \in SUBSET DOMAIN db, NEW rtags \in SUBSET DOMAIN rtag,
              CrashInDelete(dbs, rtags)
       PROVE  Goal
  <2>1. /\ DOMAIN db' = dbs /\ msgs' \in SUBSET msgs
        /\ DOMAIN rtag' = rtags /\ \A f \in rtags : rtag'[f] = rtag[f]
    BY <1>10 DEF CrashInDelete
  <2>2. dbs = DOMAIN db \/ dbs = {}
    BY <1>10 DEF CrashInDelete, Die
  <2> SUFFICES ASSUME NEW f \in DOMAIN rtag', NEW b \in Nat, ItemAt(rtag', DOMAIN db', f, b)
               PROVE  Good(msgs', Told', f, rtag'[f].rpos, b, rtag'[f].wpos)
    BY DEF ItemsGood
  <2>3. f \in Nat /\ f \in f .. b
    BY <1>3 DEF ItemAt
  <2>4. dbs = DOMAIN db
    BY <2>1, <2>2, <2>3 DEF ItemAt
  <2>5. f \in DOMAIN rtag /\ rtag'[f] = rtag[f] /\ ItemAt(rtag, DOMAIN db, f, b)
    BY <2>1, <2>4 DEF ItemAt
  <2>6. Good(msgs, Told, f, rtag[f].rpos, b, rtag[f].wpos)
    BY <2>5 DEF ItemsGood
  <2> QED
    BY <1>1, <2>1, <2>5, <2>6, GoodFewer
<1>11. ASSUME NEW step \in 1 .. 4, CrashInCreate(step)
       PROVE  Goal
  <2>1. CASE step = 4
    <3>1. DOMAIN db' = 1 .. 1 /\ rtag' = NewRtag /\ msgs' = {}
      BY <1>11, <2>1 DEF CrashInCreate, NewDb
    <3>2. rtag'[1].rpos = 0 /\ rtag'[1].wpos = 0
      BY <3>1 DEF NewRtag
    <3>3. Good({}, Told, 1, 0, 1, 0)
      BY GoodNone
    <3>4. Good(msgs', Told', 1, rtag'[1].rpos, 1, rtag'[1].wpos) /\ 1 \in Nat /\ 1 <= 1
      BY <1>1, <3>1, <3>2, <3>3
    <3> QED
      BY <1>3, <3>1, <3>4, OneItem
  <2>2. CASE step # 4
    <3>1. rtag' = [f \in {1} |-> EmptyFile]
      BY <1>11, <2>2 DEF CrashInCreate
    <3> QED
      BY <3>1 DEF ItemsGood, ItemAt
  <2> QED
    BY <2>1, <2>2
<1> QED
  BY <1>5, <1>6, <1>7, <1>8, <1>9, <1>10, <1>11, <1>12 DEF CrashInRequest


\* How the process died is never forgotten.
LEMMA TornGrows ==
  ASSUME TypeInv, [AnyCrashNext]_recoveryVars
  PROVE  torn \subseteq torn'
<1>1. CASE CrashIdle \/ CrashInRequest
  BY <1>1, Deaths, DieTypes
<1> QED
  BY <1>1 DEF recoveryVars, AnyCrashNext, ResetNext, IdleCrashNext, Request, Serve, PutNew, SetNew,
     Reset, Created, Remove, Restart

\* The db files stay in a row.
LEMMA RowKept ==
  ASSUME TypeInv, WholeInv, [AnyCrashNext]_recoveryVars, "partial" \notin torn'
  PROVE  \E a, b \in Nat : DOMAIN db' = a .. b
<1>1. "partial" \notin torn
  BY TornGrows
<1>2. PICK a \in Nat, b \in Nat : DOMAIN db = a .. b
  BY <1>1 DEF WholeInv
<1>3. status = "open" =>
        /\ DOMAIN db = rdb.cur_index .. wdb.cur_index
        /\ rdb.cur_index <= wdb.cur_index
  BY <1>1 DEF WholeInv, CursorsGood, Good, InPlace
<1>4. CASE FilesStay
  BY <1>2, <1>4 DEF FilesStay
<1>5. ASSUME NEW len \in Lens, FilesGrow(len) \/ FilesRotate(len)
      PROVE  \E c, d \in Nat : DOMAIN db' = c .. d
  BY <1>3, <1>5, RowGrown, Typed DEF FilesGrow, FilesRotate
<1>6. ASSUME NEW f \in Nat, FilesMove(f) \/ FilesScan(f)
      PROVE  \E c, d \in Nat : DOMAIN db' = c .. d
  <2>1. DOMAIN db' = {h \in a .. b : h >= f}
    BY <1>2, <1>6 DEF FilesMove, MovedTo, FilesScan
  <2>2. CASE f <= a
    <3>1. {h \in a .. b : h >= f} = a .. b
      BY <2>2
    <3> QED
      BY <2>1, <3>1
  <2>3. CASE a <= f
    <3>1. {h \in a .. b : h >= f} = f .. b
      BY <2>3
    <3> QED
      BY <2>1, <3>1
  <2> QED
    BY <2>2, <2>3
<1>7. 1 .. 0 = {} /\ 1 .. 1 = {1} /\ 0 \in Nat /\ 1 \in Nat
  OBVIOUS
<1>8. ASSUME NEW dbs \in SUBSET DOMAIN db, FilesGo(dbs)
      PROVE  \E c, d \in Nat : DOMAIN db' = c .. d
  <2>1. DOMAIN db' = DOMAIN db \/ DOMAIN db' = {}
    BY <1>8 DEF FilesGo
  <2> QED
    BY <1>2, <1>7, <2>1
<1>9. CASE FilesNew \/ \E len \in Lens : FilesFirst(len)
  <2>1. DOMAIN db' = {1} \/ DOMAIN db' = {}
    BY <1>9 DEF FilesNew, FilesFirst, NewDb
  <2> QED
    BY <1>7, <2>1
<1> QED
  BY <1>4, <1>5, <1>6, <1>8, <1>9, FileKinds

\* A message is younger than all that were handed out before.
LEMMA OrderKept ==
  ASSUME TypeInv, WholeInv, [AnyCrashNext]_recoveryVars
  PROVE  AtMostOnceInOrder'
<1> SUFFICES ASSUME "partial" \notin torn'
             PROVE  \A i, j \in DOMAIN delivered' : i < j => delivered'[i] < delivered'[j]
  BY DEF AtMostOnceInOrder
<1>1. "partial" \notin torn
  BY TornGrows
<1>2. \A i, j \in DOMAIN delivered : i < j => delivered[i] < delivered[j]
  BY <1>1 DEF WholeInv, AtMostOnceInOrder
<1>3. CASE delivered' = delivered
  BY <1>2, <1>3
<1>4. CASE GetOk /\ status = "open"
  <2>1. Reachable # {} /\ delivered' = Append(delivered, NextMsg.id)
    BY <1>4 DEF GetOk
  <2>2. Good(msgs, Told, rdb.cur_index, rdb.pos, wdb.cur_index, wdb.pos)
    BY <1>1, <1>4 DEF WholeInv, CursorsGood
  <2>3. NextMsg.id \in Nat /\ \A d \in Told : d < NextMsg.id
    BY <2>1, <2>2, NextGood
  <2>4. PICK x \in Nat, k \in Nat : x = NextMsg.id /\ k = Len(delivered)
    BY <2>3, Typed, LenProperties
  <2>5. delivered \in Seq(Nat) /\ DOMAIN delivered = 1 .. k
    BY <2>4, Typed, LenProperties
  <2>6. /\ DOMAIN delivered' = 1 .. (k + 1)
        /\ \A i \in 1 .. k : delivered'[i] = delivered[i]
        /\ delivered'[k + 1] = x
    BY <2>1, <2>4, <2>5, AppendProperties
  <2>7. \A i \in 1 .. k : delivered[i] < x
    BY <2>3, <2>4, <2>5 DEF Told
  <2>8. ASSUME NEW i \in 1 .. (k + 1), NEW j \in 1 .. (k + 1), i < j
        PROVE  delivered'[i] < delivered'[j]
    <3>1. i \in 1 .. k /\ (j = k + 1 \/ j \in 1 .. k)
      BY <2>4, <2>8
    <3> QED
      BY <1>2, <2>5, <2>6, <2>7, <2>8, <3>1
  <2> QED
    BY <2>6, <2>8
<1> QED
  BY <1>3, <1>4, ToldKinds

\* Every step keeps files in a row and cursors good.
LEMMA WholeStep ==
  ASSUME TypeInv, TypeInv', WholeInv, [AnyCrashNext]_recoveryVars
  PROVE  WholeInv'
<1> SUFFICES ASSUME "partial" \notin torn'
             PROVE  /\ \E a, b \in Nat : DOMAIN db' = a .. b
                    /\ status' = "open" =>
                         CursorsGood(msgs', Told', DOMAIN db', rtag', rdb', wdb')
                    /\ ItemsGood(msgs', Told', DOMAIN db', rtag')
                    /\ AtMostOnceInOrder'
  BY DEF WholeInv
<1> DEFINE Goal == /\ status' = "open" =>
                        CursorsGood(msgs', Told', DOMAIN db', rtag', rdb', wdb')
                   /\ ItemsGood(msgs', Told', DOMAIN db', rtag')
<1>1. "partial" \notin torn
  BY TornGrows
<1>2. /\ status = "open" => CursorsGood(msgs, Told, DOMAIN db, rtag, rdb, wdb)
      /\ ItemsGood(msgs, Told, DOMAIN db, rtag)
  BY <1>1 DEF WholeInv
<1>3. ASSUME UNCHANGED recoveryVars
      PROVE  Goal
  <2>1. UNCHANGED <<db, msgs, rtag, rdb, wdb, delivered, status>>
    BY <1>3 DEF recoveryVars, vars, files, cursors, history
  <2> QED
    BY <1>2, <2>1 DEF Told
<1>4. ASSUME Serve
      PROVE  Goal
  <2>1. OpenGood
    BY <1>2, <1>4 DEF Serve, OpenGood
  <2>2. OpenGood'
    BY <1>4, <2>1, ServeGood
  <2> QED
    BY <2>2 DEF OpenGood
<1>5. ASSUME \/ \E len \in Lens : PutNew(len)
             \/ \E n \in MaxQueues : SetNew(n, DefDelay)
             \/ \E d \in Delays : SetNew(DefMaxQueue, d % Width)
             \/ Reset
      PROVE  Goal
  <2>1. OpenGood'
    BY <1>5, MadeGood
  <2> QED
    BY <2>1 DEF OpenGood
<1>6. ASSUME Remove
      PROVE  Goal
  <2>1. DOMAIN rtag' = {} /\ status' = "unknown"
    BY <1>6 DEF Remove
  <2> QED
    BY <2>1 DEF ItemsGood
<1>7. ASSUME CrashIdle \/ CrashInRequest
      PROVE  Goal
  <2>1. status' = "down"
    BY <1>7, Deaths, DieTypes
  <2>2. ItemsGood(msgs', Told', DOMAIN db', rtag')
    BY <1>2, <1>7, DeadGood
  <2> QED
    BY <2>1, <2>2
<1>8. ASSUME Restart
      PROVE  Goal
  <2>1. UNCHANGED <<db, msgs, rtag, delivered>> /\ Told' = Told
    BY <1>8 DEF Restart, files, history, Told
  <2>2. ASSUME status' = "open"
        PROVE  CursorsGood(msgs', Told', DOMAIN db', rtag', rdb', wdb')
    <3>1. PICK fid \in DOMAIN rtag : HandleFile(fid) /\ Opened(rtag[fid])
      BY <1>8, <2>2 DEF Restart
    <3>2. PICK a \in Nat, b \in Nat : DOMAIN db = a .. b
      BY <1>1 DEF WholeInv
    <3>3. CursorsGood(msgs, Told, DOMAIN db, rtag, rdb', wdb')
      BY <1>2, <3>1, <3>2, RestartGood
    <3> QED
      BY <2>1, <3>3
  <2> QED
    BY <1>2, <2>1, <2>2
<1>9. Goal
  BY <1>3, <1>4, <1>5, <1>6, <1>7, <1>8 DEF AnyCrashNext, ResetNext, IdleCrashNext, Request
<1> QED
  BY <1>9, RowKept, OrderKept


(***************************************************************************)
(* Expected messages                                                       *)
(***************************************************************************)

\* The expected messages of accepted, numbers handed out, base and doubtful.
ExpectedOf(n, D, b, doubt) == {i \in 1 .. n : i \notin D /\ i > b /\ i \notin doubt}

\* The messages a client may count on, before and after a step.
LEMMA ExpectedIs ==
  /\ Expected = ExpectedOf(accepted, Told, base, doubtful)
  /\ Expected' = ExpectedOf(accepted', Told', base', doubtful')
BY DEF Expected, Pending, ExpectedOf, Told

\* More numbers handed out or in doubt.
LEMMA ExpectedLess ==
  ASSUME NEW n \in Nat, NEW D, NEW C, D \subseteq C, NEW b, NEW doubt, NEW more, doubt \subseteq more
  PROVE  ExpectedOf(n, C, b, more) \subseteq ExpectedOf(n, D, b, doubt) \ ((C \ D) \cup (more \ doubt))
BY DEF ExpectedOf

\* One more number.
LEMMA ExpectedMore ==
  ASSUME NEW n \in Nat, NEW D, NEW b, NEW doubt
  PROVE  /\ ExpectedOf(n + 1, D, b, doubt) \subseteq ExpectedOf(n, D, b, doubt) \cup {n + 1}
         /\ ExpectedOf(n + 1, D, b, doubt \cup {n + 1}) \subseteq ExpectedOf(n, D, b, doubt)
<1>1. 1 .. (n + 1) = (1 .. n) \cup {n + 1}
  OBVIOUS
<1> QED
  BY <1>1 DEF ExpectedOf

\* All was given up.
LEMMA ExpectedNone ==
  ASSUME NEW n \in Nat, NEW D, NEW b, NEW doubt
  PROVE  ExpectedOf(n, D, n, doubt) = {} /\ ExpectedOf(n, D, b, 1 .. n) = {}
BY DEF ExpectedOf

\* Fewer numbers.
LEMMA KeptFewer ==
  ASSUME NEW S, NEW E, NEW F, F \subseteq E, NEW R, NEW q, NEW W, NEW p, Kept(S, E, R, q, W, p)
  PROVE  Kept(S, F, R, q, W, p)
BY DEF Kept

\* A put loses nothing.
LEMMA PutKept ==
  ASSUME TypeInv, NEW len \in Lens, NEW q \in Nat, NEW E,
         Good(msgs, Told, rdb.cur_index, q, wdb.cur_index, wdb.pos),
         Kept(msgs, E, rdb.cur_index, q, wdb.cur_index, wdb.pos),
         \A m \in msgs : DbFileHeadLen <= m.pos,
         DbFileHeadLen <= wdb.pos,
         NEW x \in {WriteFile(len).pos, EndOf(NewMsg(len))}
  PROVE  /\ Kept(Written(len), E, rdb.cur_index, q, WriteFile(len).cur_index, x)
         /\ x = EndOf(NewMsg(len)) =>
              Kept(Written(len), E \cup {accepted + 1}, rdb.cur_index, q,
                   WriteFile(len).cur_index, x)
         /\ \A m \in Written(len) : DbFileHeadLen <= m.pos
         /\ DbFileHeadLen <= WriteFile(len).pos /\ DbFileHeadLen <= EndOf(NewMsg(len))
<1>1. PICK m, R, W, p, V, y :
        /\ m = NewMsg(len) /\ R = rdb.cur_index /\ W = wdb.cur_index /\ p = wdb.pos
        /\ V = WriteFile(len).cur_index /\ y = WriteFile(len).pos
  OBVIOUS
<1>2. /\ m \in Message /\ m.file = V /\ m.pos = y /\ m.id = accepted + 1
      /\ R \in Nat /\ W \in Nat /\ V \in Nat /\ y \in Nat /\ p \in Nat
  BY <1>1, WriteAt, Typed DEF DbMap
<1>3. Good(msgs, Told, R, q, W, p) /\ Kept(msgs, E, R, q, W, p) /\ msgs \in SUBSET Message
  BY <1>1, Typed
<1>4. RotatedMsgs(len) = msgs
  <2>1. \A n \in msgs : n.file # W + 1
    <3>1. \A n \in msgs : n.file \in Nat /\ n.file <= W
      BY <1>3, MessageFields DEF Good, InPlace
    <3> QED
      BY <1>2, <3>1
  <2> QED
    BY <1>1, <2>1 DEF RotatedMsgs, Overwrite
<1>5. Good(msgs, Told, R, q, V, y) /\ Kept(msgs, E, R, q, V, y)
  <2>1. CASE Fits(len)
    <3>1. V = W /\ y = p
      BY <1>1, <2>1, WriteAt
    <3> QED
      BY <1>3, <3>1
  <2>2. CASE ~Fits(len)
    <3>1. V = W + 1 /\ y = DbFileHeadLen /\ p > DbFileHeadLen /\ y >= DbFileHeadLen
      BY <1>1, <2>2, WriteAt, Sizes
    <3> QED
      BY <1>2, <1>3, <3>1, GoodRotate, KeptRotate
  <2> QED
    BY <2>1, <2>2
<1>6. Written(len) = Overwrite(msgs, V, y, EndOf(m)) \cup {m}
  BY <1>1, <1>2, <1>4 DEF Written
<1>7. x \in {y, EndOf(m)}
  BY <1>1
<1>8. /\ Kept(Written(len), E, R, q, V, x)
      /\ x = EndOf(m) => Kept(Written(len), E \cup {m.id}, R, q, V, x)
  BY <1>2, <1>3, <1>5, <1>6, <1>7, KeptWrite
<1>9. DbFileHeadLen <= y
  <2>1. CASE Fits(len)
    BY <1>1, <2>1, WriteAt
  <2>2. CASE ~Fits(len)
    BY <1>1, <2>2, WriteAt, Sizes
  <2> QED
    BY <2>1, <2>2
<1>10. EndOf(m) \in Nat /\ y < EndOf(m)
  BY <1>2, MessageFields
<1>11. DbFileHeadLen <= EndOf(m)
  BY <1>2, <1>9, <1>10, Sizes
<1>12. \A n \in Written(len) : DbFileHeadLen <= n.pos
  BY <1>2, <1>6, <1>9 DEF Overwrite
<1> QED
  BY <1>1, <1>2, <1>8, <1>9, <1>11, <1>12

\* A get that comes to a message has passed none of the others.
LEMMA NextKept ==
  ASSUME TypeInv, Reachable # {}, NEW E,
         Good(msgs, Told, rdb.cur_index, rdb.pos, wdb.cur_index, wdb.pos),
         Kept(msgs, E, rdb.cur_index, rdb.pos, wdb.cur_index, wdb.pos),
         \A m \in msgs : DbFileHeadLen <= m.pos
  PROVE  /\ Kept({m \in msgs : m.file >= NextMsg.file}, E, NextMsg.file, NextMsg.pos,
                 wdb.cur_index, wdb.pos)
         /\ Kept({m \in msgs : m.file >= NextMsg.file}, E, NextMsg.file, DbFileHeadLen,
                 wdb.cur_index, wdb.pos)
         /\ Kept({m \in msgs : m.file >= NextMsg.file}, E \ {NextMsg.id}, NextMsg.file,
                 EndOf(NextMsg), wdb.cur_index, wdb.pos)
         /\ DbFileHeadLen <= NextMsg.pos /\ DbFileHeadLen <= EndOf(NextMsg)
<1>1. PICK n, R, q, W, p :
        /\ n = NextMsg /\ R = rdb.cur_index /\ q = rdb.pos /\ W = wdb.cur_index /\ p = wdb.pos
        /\ R \in Nat /\ q \in Nat /\ W \in Nat /\ p \in Nat
  BY Typed
<1>2. /\ n \in Reachable /\ n \in msgs
      /\ \A m \in Reachable : m = n \/ Before(n, m)
  BY <1>1, NextReached DEF Reachable
<1>3. Good(msgs, Told, R, q, W, p) /\ Kept(msgs, E, R, q, W, p) /\ msgs \in SUBSET Message
  BY <1>1, Typed
<1>4. \A m \in msgs : ReachedAt(m, R, q, W, p) <=> m \in Reachable
  BY <1>1 DEF ReachedAt, Reachable
<1>5. /\ n.id \in Nat /\ n.file \in Nat /\ n.pos \in Nat /\ EndOf(n) \in Nat /\ n.pos < EndOf(n)
  BY <1>2, <1>3, MessageFields
<1>6. ASSUME NEW m \in msgs, ReachedAt(m, R, q, W, p)
      PROVE  /\ m.file \in Nat /\ m.pos \in Nat
             /\ m.file > n.file \/ (m.file = n.file /\ m.pos >= n.pos)
             /\ m # n => m.file > n.file \/ (m.file = n.file /\ m.pos >= EndOf(n))
             /\ m.file <= W /\ (m.file = W => m.pos + MsgHeadLen < p)
             /\ DbFileHeadLen <= m.pos
  <2>1. m.id \in Nat /\ m.file \in Nat /\ m.pos \in Nat /\ EndOf(m) \in Nat /\ m.pos < EndOf(m)
    BY <1>3, MessageFields
  <2>2. m = n \/ Before(n, m)
    BY <1>2, <1>4, <1>6
  <2>3. m.file > n.file \/ (m.file = n.file /\ m.pos >= n.pos)
    BY <1>5, <2>1, <2>2 DEF Before
  <2>4. m # n => m.file > n.file \/ (m.file = n.file /\ m.pos >= EndOf(n))
    <3>1. Live(m, W, p) /\ Live(n, W, p)
      BY <1>1, <1>2, <1>3, <1>4, <1>6, ReachedLive
    <3>2. m.id = n.id => m = n
      BY <1>2 DEF TypeInv, MsgsInv
    <3>3. m.id < n.id => m.file < n.file \/ (m.file = n.file /\ EndOf(m) <= n.pos)
      BY <1>2, <1>3, <3>1 DEF Good, Ordered
    <3>4. n.id < m.id => n.file < m.file \/ (n.file = m.file /\ EndOf(n) <= m.pos)
      BY <1>2, <1>3, <3>1 DEF Good, Ordered
    <3> QED
      BY <1>5, <2>1, <2>3, <3>2, <3>3, <3>4
  <2>5. m.file <= W
    BY <1>3 DEF Good, InPlace
  <2>6. m.file = W => m.pos + MsgHeadLen < p
    BY <1>6 DEF ReachedAt
  <2> QED
    BY <2>1, <2>3, <2>4, <2>5, <2>6
<1> DEFINE T == {m \in msgs : m.file >= n.file}
<1>7. ASSUME NEW m \in msgs, ReachedAt(m, R, q, W, p)
      PROVE  m \in T /\ ReachedAt(m, n.file, n.pos, W, p) /\ ReachedAt(m, n.file, DbFileHeadLen, W, p)
  <2>1. m.file = n.file \/ m.file \in (n.file + 1) .. W
    BY <1>1, <1>5, <1>6, <1>7
  <2>2. m.file >= n.file
    BY <1>5, <1>6, <1>7
  <2>3. m.file = n.file => m.pos >= n.pos
    BY <1>5, <1>6, <1>7
  <2> QED
    BY <1>6, <1>7, <2>1, <2>2, <2>3, Sizes DEF ReachedAt
<1>8. ASSUME NEW m \in msgs, ReachedAt(m, R, q, W, p), m # n
      PROVE  m \in T /\ ReachedAt(m, n.file, EndOf(n), W, p)
  <2>1. m.file = n.file \/ m.file \in (n.file + 1) .. W
    BY <1>1, <1>5, <1>6, <1>8
  <2>2. m.file >= n.file
    BY <1>5, <1>6, <1>8
  <2>3. m.file = n.file => m.pos >= EndOf(n)
    BY <1>5, <1>6, <1>8
  <2> QED
    BY <1>6, <1>8, <2>1, <2>2, <2>3, Sizes DEF ReachedAt
<1>9. DbFileHeadLen <= n.pos /\ DbFileHeadLen <= EndOf(n)
  BY <1>2, <1>5, Sizes
<1>10. Kept(T, E, n.file, n.pos, W, p) /\ Kept(T, E, n.file, DbFileHeadLen, W, p)
  BY <1>3, <1>7 DEF Kept
<1>11. Kept(T, E \ {n.id}, n.file, EndOf(n), W, p)
  BY <1>3, <1>8 DEF Kept
<1> QED
  BY <1>1, <1>9, <1>10, <1>11

\* Nor has one that is still on the way.
LEMMA ScanKept ==
  ASSUME TypeInv, NEW E,
         Good(msgs, Told, rdb.cur_index, rdb.pos, wdb.cur_index, wdb.pos),
         Kept(msgs, E, rdb.cur_index, rdb.pos, wdb.cur_index, wdb.pos),
         \A m \in msgs : DbFileHeadLen <= m.pos,
         NEW f \in Nat, f <= ScanTarget
  PROVE  Kept({m \in msgs : m.file >= f}, E, f, DbFileHeadLen, wdb.cur_index, wdb.pos)
<1>1. PICK R, q, W, p :
        /\ R = rdb.cur_index /\ q = rdb.pos /\ W = wdb.cur_index /\ p = wdb.pos
        /\ R \in Nat /\ q \in Nat /\ W \in Nat /\ p \in Nat
  BY Typed
<1>2. Good(msgs, Told, R, q, W, p) /\ Kept(msgs, E, R, q, W, p) /\ msgs \in SUBSET Message
  BY <1>1, Typed
<1>3. \A m \in msgs : ReachedAt(m, R, q, W, p) <=> m \in Reachable
  BY <1>1 DEF ReachedAt, Reachable
<1>4. ASSUME NEW m \in msgs, ReachedAt(m, R, q, W, p)
      PROVE  m.file >= f /\ ReachedAt(m, f, DbFileHeadLen, W, p)
  <2>1. m.file \in Nat /\ m.pos \in Nat /\ m.file <= W
    BY <1>2, MessageFields DEF Good, InPlace
  <2>2. m \in Reachable
    BY <1>3, <1>4
  <2>3. NextMsg.file \in Nat /\ (m = NextMsg \/ Before(NextMsg, m)) /\ ScanTarget = NextMsg.file
    BY <2>2, NextReached, ScanPlace DEF ScanTarget
  <2>4. NextMsg.file <= m.file
    BY <2>1, <2>3 DEF Before
  <2>5. m.file >= f /\ (m.file = f \/ m.file \in (f + 1) .. W)
    BY <1>1, <2>1, <2>3, <2>4
  <2>6. DbFileHeadLen <= m.pos /\ (m.file = W => m.pos + MsgHeadLen < p)
    BY <1>4 DEF ReachedAt
  <2> QED
    BY <2>1, <2>5, <2>6, Sizes DEF ReachedAt
<1>5. Kept({m \in msgs : m.file >= f}, E, f, DbFileHeadLen, W, p)
  BY <1>2, <1>4 DEF Kept
<1> QED
  BY <1>1, <1>5

\* A get that meets no message: none was expected.
LEMMA NoneKept ==
  ASSUME Reachable = {}, NEW E,
         Kept(msgs, E, rdb.cur_index, rdb.pos, wdb.cur_index, wdb.pos)
  PROVE  E = {}
BY DEF Kept, ReachedAt, Reachable

\* Of no messages.
LEMMA KeptNone ==
  ASSUME NEW S, NEW R, NEW q, NEW W, NEW p
  PROVE  Kept(S, {}, R, q, W, p)
BY DEF Kept

\* The first and the last of a row of files.
LEMMA RowEnds ==
  ASSUME NEW R \in Nat, NEW W \in Nat, R <= W
  PROVE  Min(R .. W) = R /\ Max(R .. W) = W
<1>1. R \in R .. W /\ W \in R .. W
  OBVIOUS
<1>2. (\A f \in R .. W : R <= f) /\ (\A f \in R .. W : W >= f)
  OBVIOUS
<1>3. Min(R .. W) \in R .. W /\ \A f \in R .. W : Min(R .. W) <= f
  BY <1>1, <1>2 DEF Min
<1>4. Max(R .. W) \in R .. W /\ \A f \in R .. W : Max(R .. W) >= f
  BY <1>1, <1>2 DEF Max
<1>5. PICK c, d : c = Min(R .. W) /\ d = Max(R .. W)
  OBVIOUS
<1>6. c \in R .. W /\ d \in R .. W /\ c <= R /\ d >= W
  BY <1>1, <1>3, <1>4, <1>5
<1>7. c = R /\ d = W
  BY <1>6
<1> QED
  BY <1>5, <1>7


\* What SafeInv says of a queue that is served.
OpenSafe ==
  /\ \A m \in msgs : DbFileHeadLen <= m.pos
  /\ \A f, g \in DOMAIN rtag : f = g
  /\ config = asked
  /\ CursorsSafe(msgs, Expected, rdb, wdb)
  /\ ItemsSafe(msgs, Expected, DOMAIN db, rtag, asked)

\* Only the rtag file of the first db file can be one a start would use.
LEMMA OneSafe ==
  ASSUME NEW S, NEW E, NEW R \in Nat, NEW W \in Nat, R <= W, NEW X, X = R .. W,
         NEW r, DOMAIN r \subseteq Nat, NEW a,
         R \in DOMAIN r =>
           \/ r[R] = EmptyFile
           \/ /\ <<r[R].maxque, r[R].delay, ToInt(r[R].wlock)>> = a
              /\ ~Blank(r[R]) => /\ DbFileHeadLen <= r[R].rpos
                                 /\ Kept(S, E, R, r[R].rpos, W, r[R].wpos)
  PROVE  ItemsSafe(S, E, X, r, a)
<1> SUFFICES ASSUME NEW f \in DOMAIN r, NEW b \in Nat, ItemAt(r, X, f, b)
             PROVE  /\ <<r[f].maxque, r[f].delay, ToInt(r[f].wlock)>> = a
                    /\ ~Blank(r[f]) => /\ DbFileHeadLen <= r[f].rpos
                                       /\ Kept(S, E, f, r[f].rpos, b, r[f].wpos)
  BY DEF ItemsSafe
<1>1. f \in Nat /\ R .. W = f .. b
  BY DEF ItemAt
<1>2. f = R /\ b = W
  BY <1>1, SameRow
<1> QED
  BY <1>2 DEF ItemAt

\* A request whose last item has the cursors and the settings of the descriptor.
LEMMA SafeWritten ==
  ASSUME TypeInv, TypeInv', status' = "open", asked' = config',
         \A m \in msgs' : DbFileHeadLen <= m.pos,
         \A f, g \in DOMAIN rtag' : f = g,
         NEW R \in Nat, NEW W \in Nat, R <= W, DOMAIN db' = R .. W,
         rdb'.cur_index = R, wdb'.cur_index = W,
         DbFileHeadLen <= rdb'.pos, DbFileHeadLen <= wdb'.pos,
         Kept(msgs', Expected', R, rdb'.pos, W, wdb'.pos),
         R \in DOMAIN rtag', rtag'[R] = Item(rdb', wdb', maxque', delay', wlock')
  PROVE  OpenSafe'
<1>1. CursorsSafe(msgs', Expected', rdb', wdb')
  BY DEF CursorsSafe
<1>2. DOMAIN rtag' \subseteq Nat
  BY DEF TypeInv, RecoveryTypeOK, RtagTypeOK
<1>3. ToInt(wlock' % Width) = wlock'
  BY DEF TypeInv, FilesInv
<1>4. /\ rtag'[R].maxque = maxque' /\ rtag'[R].delay = delay' /\ rtag'[R].wlock = wlock' % Width
      /\ rtag'[R].rpos = rdb'.pos /\ rtag'[R].wpos = wdb'.pos
  BY DEF Item
<1>5. <<rtag'[R].maxque, rtag'[R].delay, ToInt(rtag'[R].wlock)>> = asked'
  BY <1>3, <1>4 DEF config
<1>6. ItemsSafe(msgs', Expected', DOMAIN db', rtag', asked')
  BY <1>2, <1>4, <1>5, OneSafe
<1>7. config' = asked'
  OBVIOUS
<1> QED
  BY <1>1, <1>6, <1>7 DEF OpenSafe

\* A request that moves the read cursor and leaves the item of file f the last.
LEMMA SafeMoved ==
  ASSUME TypeInv, TypeInv', OpenGood, OpenGood', OpenSafe, status' = "open", asked' = config',
         config' = config, NEW f \in Nat, rdb.cur_index <= f, f <= wdb.cur_index,
         MovedTo(f), wdb' = wdb, rtag' = MovedRtag(f), rdb'.cur_index = f,
         DbFileHeadLen <= rdb'.pos,
         Expected' \subseteq Expected,
         Kept(msgs', Expected', f, rdb'.pos, wdb.cur_index, wdb.pos),
         Kept(msgs', Expected', f, DbFileHeadLen, wdb.cur_index, wdb.pos)
  PROVE  OpenSafe'
<1>1. /\ \A m \in msgs : DbFileHeadLen <= m.pos
      /\ \A g, h \in DOMAIN rtag : g = h
      /\ config = asked
      /\ DbFileHeadLen <= wdb.pos
      /\ ItemsSafe(msgs, Expected, DOMAIN db, rtag, asked)
  BY DEF OpenSafe, CursorsSafe
<1>2. msgs' = {m \in msgs : m.file >= f} /\ DOMAIN db' = {h \in DOMAIN db : h >= f}
  BY DEF MovedTo
<1>3. \A m \in msgs' : DbFileHeadLen <= m.pos
  BY <1>1, <1>2
<1>4. CursorsSafe(msgs', Expected', rdb', wdb')
  BY <1>1 DEF CursorsSafe
<1>5. asked' = asked /\ config' = asked'
  BY <1>1
<1>6. CASE f = rdb.cur_index
  <2>1. rtag' = rtag
    BY <1>6 DEF MovedRtag
  <2>2. Good(msgs, Told, rdb.cur_index, rdb.pos, wdb.cur_index, wdb.pos)
        /\ DOMAIN db = rdb.cur_index .. wdb.cur_index
    BY DEF OpenGood, CursorsGood
  <2>3. \A m \in msgs : m.file \in Nat /\ rdb.cur_index <= m.file
    BY <2>2, Typed, MessageFields DEF Good, InPlace
  <2>4. msgs' = msgs
    BY <1>2, <1>6, <2>3
  <2>5. DOMAIN db' = DOMAIN db
    BY <1>2, <1>6, <2>2, RowMoved, Typed
  <2>6. ItemsSafe(msgs', Expected', DOMAIN db', rtag', asked')
    BY <1>1, <1>5, <2>1, <2>4, <2>5, KeptFewer DEF ItemsSafe
  <2> QED
    BY <1>1, <1>3, <1>4, <1>5, <2>1, <2>6 DEF OpenSafe
<1>7. CASE f # rdb.cur_index
  <2>1. rtag' = [g \in {f} |-> Item(ReadPos(f, DbFileHeadLen), wdb, maxque, delay, wlock)]
    BY <1>7 DEF MovedRtag
  <2>2. \A g, h \in DOMAIN rtag' : g = h
    BY <2>1
  <2>3. f \in DOMAIN rtag' /\ DOMAIN rtag' \subseteq Nat
    BY <2>1
  <2>4. rtag'[f] = Item(ReadPos(f, DbFileHeadLen), wdb, maxque, delay, wlock)
    BY <2>1
  <2>5. /\ rtag'[f].maxque = maxque /\ rtag'[f].delay = delay /\ rtag'[f].wlock = wlock % Width
        /\ rtag'[f].rpos = DbFileHeadLen /\ rtag'[f].wpos = wdb.pos
    BY <2>4 DEF Item, ReadPos
  <2>6. ToInt(wlock % Width) = wlock
    BY DEF TypeInv, FilesInv, config
  <2>7. <<rtag'[f].maxque, rtag'[f].delay, ToInt(rtag'[f].wlock)>> = asked'
    BY <1>1, <1>5, <2>5, <2>6 DEF config
  <2>8. DOMAIN db' = f .. wdb.cur_index
    BY DEF OpenGood, CursorsGood
  <2>9. DbFileHeadLen <= DbFileHeadLen
    BY Sizes
  <2>10. ItemsSafe(msgs', Expected', DOMAIN db', rtag', asked')
    BY <2>3, <2>5, <2>7, <2>8, <2>9, OneSafe, Typed
  <2> QED
    BY <1>3, <1>4, <1>5, <2>2, <2>10 DEF OpenSafe
<1> QED
  BY <1>6, <1>7


\* A request that finds the queue.
LEMMA ServeSafe ==
  ASSUME TypeInv, TypeInv', OpenGood, OpenGood', OpenSafe, Serve
  PROVE  OpenSafe'
<1>1. /\ Good(msgs, Told, rdb.cur_index, rdb.pos, wdb.cur_index, wdb.pos)
      /\ DOMAIN db = rdb.cur_index .. wdb.cur_index
      /\ rdb.cur_index \in DOMAIN rtag
      /\ rdb.cur_index <= wdb.cur_index
  BY DEF OpenGood, CursorsGood, Good, InPlace
<1>2. /\ rdb.cur_index \in Nat /\ rdb.pos \in Nat /\ wdb.cur_index \in Nat /\ wdb.pos \in Nat
      /\ rdb \in DbMap /\ wdb \in DbMap /\ accepted \in Nat
  BY Typed
<1>3. /\ \A m \in msgs : DbFileHeadLen <= m.pos
      /\ \A f, g \in DOMAIN rtag : f = g
      /\ config = asked
      /\ DbFileHeadLen <= rdb.pos /\ DbFileHeadLen <= wdb.pos
      /\ Kept(msgs, Expected, rdb.cur_index, rdb.pos, wdb.cur_index, wdb.pos)
      /\ ItemsSafe(msgs, Expected, DOMAIN db, rtag, asked)
  BY DEF OpenSafe, CursorsSafe
<1>4. asked' = config' /\ status' = "open" /\ base' = base /\ doubtful' = doubtful
  BY DEF Serve
<1>5. ASSUME accepted' = accepted, delivered' = delivered
      PROVE  Expected' = Expected /\ Expected' \subseteq Expected
  BY <1>4, <1>5 DEF Expected, Pending
<1>6. CASE PutFull \/ PutWlocked \/ GetEmpty \/ Tick
  <2>1. UNCHANGED <<db, msgs, rtag, rdb, wdb, maxque, delay, wlock, accepted, delivered>>
    BY <1>6 DEF PutFull, PutWlocked, GetEmpty, Tick, files, cursors, config, history
  <2>2. config' = config /\ asked' = asked
    BY <1>3, <1>4, <2>1 DEF config
  <2> QED
    BY <1>3, <1>5, <2>1, <2>2 DEF OpenSafe, CursorsSafe
<1>12. CASE \E len \in Lens : PutNoSpace(len)
  <2>1. /\ DOMAIN db' = DOMAIN db /\ msgs' = msgs
        /\ UNCHANGED <<rtag, rdb, wdb, maxque, delay, wlock, accepted, delivered>>
    BY <1>3, <1>12, RefusedFiles DEF PutNoSpace, cursors, config, history
  <2>2. config' = config /\ asked' = asked
    BY <1>3, <1>4, <2>1 DEF config
  <2> QED
    BY <1>3, <1>5, <2>1, <2>2 DEF OpenSafe, CursorsSafe
<1>7. CASE \/ \E n \in MaxQueues : SetMaxQueue(n)
           \/ \E d \in Delays : SetDelay(d)
           \/ \E w \in Wlocks : SetWlock(w)
  <2>1. /\ rtag' = [rtag EXCEPT ![rdb.cur_index] = Item(rdb, wdb, maxque', delay', wlock')]
        /\ UNCHANGED <<db, msgs, rdb, wdb, accepted, delivered>>
    BY <1>7, SetTypes DEF Configured, cursors, history
  <2>2. rtag'[rdb.cur_index] = Item(rdb', wdb', maxque', delay', wlock') /\ DOMAIN rtag' = DOMAIN rtag
    BY <1>1, <2>1
  <2> QED
    BY <1>1, <1>2, <1>3, <1>4, <1>5, <2>1, <2>2, SafeWritten
<1>8. ASSUME NEW len \in Lens, PutOk(len)
      PROVE  OpenSafe'
  <2> DEFINE w == [cur_index |-> WriteFile(len).cur_index, pos |-> EndOf(NewMsg(len)),
                   opt_count |-> WriteFile(len).opt_count + 1]
  <2>1. /\ wdb' = w /\ db' = RotatedDb(len) /\ msgs' = Written(len)
        /\ rtag' = [rtag EXCEPT ![rdb.cur_index] = Item(rdb, wdb', maxque, delay, wlock)]
        /\ UNCHANGED <<rdb, maxque, delay, wlock, delivered>> /\ accepted' = accepted + 1
    BY <1>8 DEF PutOk, NewMsg, Written, config
  <2>2. w.cur_index = WriteFile(len).cur_index /\ w.pos = EndOf(NewMsg(len))
    OBVIOUS
  <2> HIDE DEF w
  <2>3. rtag'[rdb.cur_index] = Item(rdb', wdb', maxque', delay', wlock') /\ DOMAIN rtag' = DOMAIN rtag
    BY <1>1, <2>1
  <2>4. EndOf(NewMsg(len)) \in {WriteFile(len).pos, EndOf(NewMsg(len))}
    OBVIOUS
  <2>5. /\ Kept(msgs', Expected \cup {accepted + 1}, rdb.cur_index, rdb.pos,
                WriteFile(len).cur_index, EndOf(NewMsg(len)))
        /\ \A m \in msgs' : DbFileHeadLen <= m.pos
        /\ DbFileHeadLen <= EndOf(NewMsg(len))
    BY <1>1, <1>2, <1>3, <2>1, <2>4, PutKept
  <2>6. Expected' \subseteq Expected \cup {accepted + 1}
    <3>1. Told' = Told
      BY <2>1 DEF Told
    <3> QED
      BY <1>2, <1>4, <2>1, <3>1, ExpectedIs, ExpectedMore
  <2>7. Kept(msgs', Expected', rdb.cur_index, rdb.pos, WriteFile(len).cur_index, EndOf(NewMsg(len)))
    BY <2>5, <2>6, KeptFewer
  <2>8. /\ DOMAIN db' = rdb.cur_index .. WriteFile(len).cur_index
        /\ rdb.cur_index <= WriteFile(len).cur_index
        /\ WriteFile(len).cur_index \in Nat
    BY <1>1, <2>1, RowGrown
  <2> QED
    BY <1>1, <1>2, <1>3, <1>4, <2>1, <2>2, <2>3, <2>5, <2>7, <2>8, SafeWritten
<1>9. CASE GetEnd
  <2>1. /\ MovedTo(wdb.cur_index) /\ rtag' = MovedRtag(wdb.cur_index) /\ Reachable = {}
        /\ rdb'.cur_index = wdb.cur_index /\ rdb'.pos = wdb.pos
        /\ wdb' = wdb /\ config' = config /\ UNCHANGED <<accepted, delivered>>
    BY <1>9 DEF GetEnd, ReadPos, history
  <2>2. Expected' = Expected /\ Expected = {}
    BY <1>3, <1>5, <2>1, NoneKept
  <2>3. /\ Kept(msgs', Expected', wdb.cur_index, wdb.pos, wdb.cur_index, wdb.pos)
        /\ Kept(msgs', Expected', wdb.cur_index, DbFileHeadLen, wdb.cur_index, wdb.pos)
    BY <2>2, KeptNone
  <2>4. wdb.cur_index <= wdb.cur_index /\ Expected' \subseteq Expected
    BY <1>2, <2>2
  <2> QED
    BY <1>1, <1>2, <1>3, <1>4, <2>1, <2>3, <2>4, SafeMoved
<1>10. CASE GetDelayed
  <2>1. /\ MovedTo(NextMsg.file) /\ rtag' = MovedRtag(NextMsg.file) /\ Reachable # {}
        /\ rdb'.cur_index = NextMsg.file /\ rdb'.pos = NextMsg.pos
        /\ wdb' = wdb /\ config' = config /\ UNCHANGED <<accepted, delivered>>
    BY <1>10 DEF GetDelayed, ReadPos, history
  <2>2. NextMsg.file \in Nat /\ rdb.cur_index <= NextMsg.file /\ NextMsg.file <= wdb.cur_index
    BY <1>1, <2>1, NextGood
  <2>3. Expected' = Expected /\ Expected' \subseteq Expected
    BY <1>5, <2>1
  <2>4. msgs' = {m \in msgs : m.file >= NextMsg.file}
    BY <2>1 DEF MovedTo
  <2>5. /\ Kept(msgs', Expected', NextMsg.file, NextMsg.pos, wdb.cur_index, wdb.pos)
        /\ Kept(msgs', Expected', NextMsg.file, DbFileHeadLen, wdb.cur_index, wdb.pos)
        /\ DbFileHeadLen <= NextMsg.pos
    BY <1>1, <1>3, <2>1, <2>3, <2>4, NextKept
  <2> QED
    BY <1>4, <2>1, <2>2, <2>3, <2>5, SafeMoved
<1>11. CASE GetOk
  <2> DEFINE r == [ReadPos(NextMsg.file, EndOf(NextMsg)) EXCEPT !.opt_count = @ + 1]
  <2>1. /\ MovedTo(NextMsg.file) /\ Reachable # {} /\ rdb' = r /\ wdb' = wdb
        /\ rtag' = [MovedRtag(NextMsg.file) EXCEPT ![NextMsg.file] =
                      Item(rdb', wdb, maxque, delay, wlock)]
        /\ delivered' = Append(delivered, NextMsg.id)
        /\ UNCHANGED <<maxque, delay, wlock, accepted>>
    BY <1>11 DEF GetOk, config
  <2>2. r.cur_index = NextMsg.file /\ r.pos = EndOf(NextMsg)
    BY DEF ReadPos
  <2> HIDE DEF r
  <2>3. PICK n : n = NextMsg
    OBVIOUS
  <2>4. n.file \in Nat /\ n.id \in Nat /\ rdb.cur_index <= n.file /\ n.file <= wdb.cur_index
    BY <1>1, <2>1, <2>3, NextGood
  <2>5. msgs' = {m \in msgs : m.file >= n.file}
    BY <2>1, <2>3 DEF MovedTo
  <2>6. Told' = Told \cup {n.id}
    BY <2>1, <2>3, <2>4, ToldMore
  <2>7. Expected' \subseteq Expected \ {n.id}
    BY <1>4, <2>1, <2>6, ExpectedIs DEF ExpectedOf
  <2>8. /\ Kept(msgs', Expected \ {n.id}, n.file, EndOf(n), wdb.cur_index, wdb.pos)
        /\ DbFileHeadLen <= EndOf(n)
    BY <1>1, <1>3, <2>1, <2>3, <2>5, NextKept
  <2>9. Kept(msgs', Expected', n.file, EndOf(n), wdb.cur_index, wdb.pos)
    BY <2>7, <2>8, KeptFewer
  <2>10. DOMAIN db' = n.file .. wdb.cur_index /\ n.file \in DOMAIN rtag'
    BY <2>1, <2>2, <2>3 DEF OpenGood, CursorsGood
  <2>11. rtag'[n.file] = Item(rdb', wdb', maxque', delay', wlock')
    BY <2>1, <2>3, <2>10
  <2>12. \A f, g \in DOMAIN rtag' : f = g
    BY <1>3, <2>1 DEF MovedRtag
  <2>13. \A m \in msgs' : DbFileHeadLen <= m.pos
    BY <1>3, <2>5
  <2> QED
    BY <1>2, <1>3, <1>4, <2>1, <2>2, <2>3, <2>4, <2>8, <2>9, <2>10, <2>11, <2>12, <2>13, SafeWritten
<1> QED
  BY <1>6, <1>7, <1>8, <1>9, <1>10, <1>11, <1>12 DEF Serve, Next, Get, GetNothing

\* A request that makes the queue.
LEMMA MadeSafe ==
  ASSUME TypeInv, TypeInv', status = "unknown" => Expected = {},
         \/ \E len \in Lens : PutNew(len)
         \/ \E n \in MaxQueues : SetNew(n, DefDelay)
         \/ \E d \in Delays : SetNew(DefMaxQueue, d % Width)
         \/ Reset
  PROVE  OpenSafe'
<1>1. /\ DOMAIN db' = 1 .. 1 /\ rdb'.cur_index = 1 /\ rdb'.pos = DbFileHeadLen
      /\ status' = "open" /\ asked' = config' /\ rdb' = NewMap /\ wlock' = 0
      /\ wdb'.cur_index = 1
  BY MadeTypes DEF NewDb, NewMap
<1>2. DbFileHeadLen \in Nat /\ DbFileHeadLen <= DbFileHeadLen /\ 1 \in Nat /\ 1 <= 1
  BY Sizes
<1>3. Told' = Told /\ doubtful' = doubtful
  <2>1. delivered' = delivered /\ doubtful' = doubtful
    BY DEF PutNew, SetNew, Reset, Created
  <2> QED
    BY <2>1 DEF Told
<1>4. ASSUME NEW len \in Lens, PutNew(len)
      PROVE  OpenSafe'
  <2> DEFINE m == [id |-> accepted + 1, file |-> 1, pos |-> DbFileHeadLen, len |-> len, time |-> now]
             w == [cur_index |-> 1, pos |-> EndOf(m), opt_count |-> 1]
  <2>1. m \in Message
    BY Typed, Sizes DEF Message
  <2>2. m.id = accepted + 1 /\ m.file = 1 /\ m.pos = DbFileHeadLen
    OBVIOUS
  <2>3. /\ wdb' = w /\ msgs' = {m} /\ accepted' = accepted + 1 /\ base' = base
        /\ rtag' = [f \in {1} |-> Item(NewMap, w, maxque', delay', 0)]
        /\ status = "unknown"
    BY <1>4 DEF PutNew, Created
  <2> HIDE DEF m
  <2>4. /\ EndOf(m) \in Nat /\ m.pos + MsgHeadLen < EndOf(m) /\ m.pos < EndOf(m)
    BY <2>1, MessageFields
  <2>5. DbFileHeadLen <= EndOf(m)
    BY <1>2, <2>2, <2>4
  <2>6. w.cur_index = 1 /\ w.pos = EndOf(m)
    OBVIOUS
  <2> HIDE DEF w
  <2>7. Expected' \subseteq {m.id}
    BY <1>3, <2>2, <2>3, ExpectedIs, ExpectedMore, Typed
  <2>8. Kept({m}, {m.id}, 1, DbFileHeadLen, 1, EndOf(m))
    BY <1>2, <2>2, <2>4 DEF Kept, ReachedAt
  <2>9. Kept(msgs', Expected', 1, rdb'.pos, 1, wdb'.pos)
    BY <1>1, <2>3, <2>6, <2>7, <2>8, KeptFewer
  <2>10. /\ 1 \in DOMAIN rtag' /\ rtag'[1] = Item(rdb', wdb', maxque', delay', wlock')
         /\ \A f, g \in DOMAIN rtag' : f = g
    BY <1>1, <2>3
  <2>11. \A n \in msgs' : DbFileHeadLen <= n.pos
    BY <1>2, <2>2, <2>3
  <2> QED
    BY <1>1, <1>2, <2>3, <2>5, <2>6, <2>9, <2>10, <2>11, SafeWritten
<1>5. ASSUME NEW mq, NEW d, SetNew(mq, d)
      PROVE  OpenSafe'
  <2>1. /\ wdb' = NewMap /\ msgs' = {} /\ maxque' = mq /\ delay' = d /\ status = "unknown"
        /\ rtag' = [f \in {1} |-> Item(NewMap, NewMap, mq, d, 0)]
        /\ accepted' = accepted /\ base' = base
    BY <1>5 DEF SetNew, Created
  <2>2. Expected' = {}
    BY <1>3, <2>1, ExpectedIs
  <2>3. /\ 1 \in DOMAIN rtag' /\ rtag'[1] = Item(rdb', wdb', maxque', delay', wlock')
        /\ \A f, g \in DOMAIN rtag' : f = g
    BY <1>1, <2>1
  <2>4. wdb'.pos = DbFileHeadLen
    BY <2>1 DEF NewMap
  <2>5. Kept(msgs', Expected', 1, rdb'.pos, 1, wdb'.pos)
    BY <2>2, KeptNone
  <2> QED
    BY <1>1, <1>2, <2>1, <2>3, <2>4, <2>5, SafeWritten
<1>6. CASE Reset
  <2>1. /\ wdb' = NewMap /\ msgs' = {} /\ rtag' = [f \in {1} |-> NewRtag[1]]
        /\ maxque' = DefMaxQueue /\ delay' = DefDelay /\ accepted' = accepted /\ base' = accepted
    BY <1>6 DEF Reset, Created
  <2>2. Expected' = {}
    BY <2>1, ExpectedIs, ExpectedNone, Typed
  <2>3. /\ NewRtag[1].rpos = 0 /\ NewRtag[1].wpos = 0 /\ NewRtag[1].wlock = 0
        /\ NewRtag[1].maxque = DefMaxQueue /\ NewRtag[1].delay = DefDelay
        /\ NewMap.pos = DbFileHeadLen
    BY DEF NewRtag, NewMap
  <2>4. ToInt(0) = 0
    <3>1. Width \in Nat /\ Width > 1 /\ 0 % Width = 0 /\ ToInt(0 % Width) = 0
      BY ConfigAssumption, SpecialComesBack, ModSmall
    <3> QED
      BY <3>1
  <2>5. /\ DOMAIN rtag' = {1} /\ rtag'[1] = NewRtag[1] /\ DOMAIN rtag' \subseteq Nat
        /\ \A f, g \in DOMAIN rtag' : f = g
    BY <2>1
  <2>6. <<rtag'[1].maxque, rtag'[1].delay, ToInt(rtag'[1].wlock)>> = asked'
    BY <1>1, <2>1, <2>3, <2>4, <2>5 DEF config
  <2>7. Blank(NewRtag[1])
    <3>1. NewRtag[1] \in RtagItem
      BY ConfigAssumption DEF NewRtag, RtagItem
    <3> QED
      BY <2>3, <3>1, ItemNotEmpty, Sizes DEF Blank
  <2>8. ItemsSafe(msgs', Expected', DOMAIN db', rtag', asked')
    BY <1>1, <1>2, <2>5, <2>6, <2>7, OneSafe
  <2>9. CursorsSafe(msgs', Expected', rdb', wdb')
    BY <1>1, <1>2, <2>1, <2>2, <2>3, KeptNone DEF CursorsSafe
  <2>10. config' = asked'
    BY <1>1
  <2> QED
    BY <2>1, <2>5, <2>8, <2>9, <2>10 DEF OpenSafe
<1> QED
  BY <1>4, <1>5, <1>6


\* A start finds the queue if its last item has the number of the first db file.
LEMMA Handled ==
  ASSUME NEW R \in Nat, NEW W \in Nat, R <= W, DOMAIN db' = R .. W,
         R \in DOMAIN rtag', rtag'[R] # EmptyFile, short' = {}
  PROVE  HandleFile(R)'
<1>1. Min(DOMAIN db') = R
  BY RowEnds
<1>2. DOMAIN db' # {}
  <2>1. R \in R .. W
    OBVIOUS
  <2> QED
    BY <2>1
<1> QED
  BY <1>1, <1>2 DEF HandleFile, ReadFid, WriteFid

\* What SafeInv says of a queue that no process knows of.
DeadSafe ==
  /\ \A m \in msgs : DbFileHeadLen <= m.pos
  /\ \A f, g \in DOMAIN rtag : f = g
  /\ Expected # {} => \E f \in DOMAIN rtag : HandleFile(f)
  /\ ItemsSafe(msgs, Expected, DOMAIN db, rtag, asked)

\* A process that dies where start-up recovers from it.
LEMMA DeathSafe ==
  ASSUME TypeInv, TypeInv', WholeInv, CrashIdle \/ CrashInRequest, torn' = {},
         \A m \in msgs : DbFileHeadLen <= m.pos,
         \A f, g \in DOMAIN rtag : f = g,
         status = "open" => OpenSafe,
         status = "unknown" => Expected = {},
         ItemsSafe(msgs, Expected, DOMAIN db, rtag, asked)
  PROVE  DeadSafe'
<1>1. torn = {} /\ asked' = asked /\ delivered' = delivered /\ Told' = Told
  BY Deaths, DieTypes DEF Told
<1>2. \A f \in DOMAIN rtag' : ~Blank(rtag'[f])
  BY Deaths DEF Die
<1>3. /\ rdb.cur_index \in Nat /\ rdb.pos \in Nat /\ wdb.cur_index \in Nat /\ wdb.pos \in Nat
      /\ accepted \in Nat
  BY Typed
<1>4. DOMAIN rtag' \subseteq Nat
  BY DEF TypeInv, RecoveryTypeOK, RtagTypeOK
<1>5. ASSUME status = "open"
      PROVE  /\ OpenSafe /\ config = asked
             /\ DbFileHeadLen <= rdb.pos /\ DbFileHeadLen <= wdb.pos
             /\ Kept(msgs, Expected, rdb.cur_index, rdb.pos, wdb.cur_index, wdb.pos)
             /\ CursorsGood(msgs, Told, DOMAIN db, rtag, rdb, wdb)
             /\ ItemsGood(msgs, Told, DOMAIN db, rtag)
             /\ Good(msgs, Told, rdb.cur_index, rdb.pos, wdb.cur_index, wdb.pos)
             /\ DOMAIN db = rdb.cur_index .. wdb.cur_index
             /\ rdb.cur_index <= wdb.cur_index
             /\ rdb.cur_index \in DOMAIN rtag /\ rtag[rdb.cur_index] # EmptyFile
             /\ rtag[rdb.cur_index] \in RtagItem
             /\ \/ rtag[rdb.cur_index].wpos = wdb.pos
                \/ Fresh(msgs, rtag[rdb.cur_index], rdb, wdb)
             /\ short = {} /\ ToInt(wlock % Width) = wlock
  <2>1. /\ OpenSafe /\ config = asked
        /\ DbFileHeadLen <= rdb.pos /\ DbFileHeadLen <= wdb.pos
        /\ Kept(msgs, Expected, rdb.cur_index, rdb.pos, wdb.cur_index, wdb.pos)
    BY <1>5 DEF OpenSafe, CursorsSafe
  <2>2. /\ CursorsGood(msgs, Told, DOMAIN db, rtag, rdb, wdb)
        /\ ItemsGood(msgs, Told, DOMAIN db, rtag)
    BY <1>1, <1>5 DEF WholeInv
  <2>3. /\ Good(msgs, Told, rdb.cur_index, rdb.pos, wdb.cur_index, wdb.pos)
        /\ DOMAIN db = rdb.cur_index .. wdb.cur_index
        /\ rdb.cur_index <= wdb.cur_index
        /\ rdb.cur_index \in DOMAIN rtag /\ rtag[rdb.cur_index] # EmptyFile
        /\ \/ rtag[rdb.cur_index].wpos = wdb.pos
           \/ Fresh(msgs, rtag[rdb.cur_index], rdb, wdb)
    BY <2>2 DEF CursorsGood, Good, InPlace
  <2>4. rtag[rdb.cur_index] \in RtagItem
    BY <2>3 DEF TypeInv, RecoveryTypeOK, RtagTypeOK
  <2>5. short = {} /\ ToInt(wlock % Width) = wlock
    BY <1>5 DEF TypeInv, FilesInv
  <2> QED
    BY <2>1, <2>2, <2>3, <2>4, <2>5
<1>6. CASE CrashIdle
  <2>1. /\ UNCHANGED <<db, msgs, rtag, short, accepted, doubtful, base>> /\ status # "down"
    BY <1>6 DEF CrashIdle, files
  <2>2. Expected' = Expected
    BY <1>1, <2>1 DEF Expected, Pending
  <2>3. ASSUME Expected' # {}
        PROVE  \E f \in DOMAIN rtag' : HandleFile(f)'
    <3>1. status = "open"
      BY <2>1, <2>2, <2>3 DEF TypeInv, RecoveryTypeOK
    <3>2. PICK R, W : R = rdb.cur_index /\ W = wdb.cur_index
      OBVIOUS
    <3>3. R \in Nat /\ W \in Nat /\ R <= W /\ DOMAIN db' = R .. W /\ R \in DOMAIN rtag'
          /\ rtag'[R] # EmptyFile /\ short' = {}
      BY <1>3, <1>5, <2>1, <3>1, <3>2
    <3>4. HandleFile(R)'
      BY <3>3, Handled
    <3> QED
      BY <3>3, <3>4
  <2> QED
    BY <1>1, <2>1, <2>2, <2>3 DEF DeadSafe
<1>7. ASSUME NEW len \in Lens, NEW written \in BOOLEAN, CrashBeforeAck(len, written)
      PROVE  DeadSafe'
  <2>1. /\ status = "open" /\ db' = RotatedDb(len) /\ msgs' = Written(len)
        /\ accepted' = accepted + 1 /\ doubtful' = doubtful \cup {accepted + 1}
        /\ base' = base /\ short' = short
    BY <1>7 DEF CrashBeforeAck, PutAdmitted, NewMsg, Written
  <2>2. PICK R, V : R = rdb.cur_index /\ V = WriteFile(len).cur_index
    OBVIOUS
  <2>3. DOMAIN db' = R .. V /\ R <= V /\ V \in Nat /\ R \in Nat
    BY <1>3, <1>5, <2>1, <2>2, RowGrown
  <2> DEFINE w == WriteFile(len)
             x == [w EXCEPT !.pos = EndOf(NewMsg(len))]
  <2>4. \/ rtag' = [rtag EXCEPT ![rdb.cur_index] = Item(rdb, x, maxque, delay, wlock)]
        \/ rtag' = [rtag EXCEPT ![rdb.cur_index] = Item(rdb, w, maxque, delay, wlock)]
        \/ Fits(len) /\ rtag' = [rtag EXCEPT ![rdb.cur_index] = rtag[rdb.cur_index]]
    BY <1>7 DEF CrashBeforeAck, NewMsg
  <2>5. x.pos = EndOf(NewMsg(len))
    BY WriteAt DEF DbMap
  <2>6. /\ DOMAIN rtag' = DOMAIN rtag /\ R \in DOMAIN rtag
        /\ \/ rtag'[R] = Item(rdb, x, maxque, delay, wlock)
           \/ rtag'[R] = Item(rdb, w, maxque, delay, wlock)
           \/ Fits(len) /\ rtag'[R] = rtag[R]
    BY <1>5, <2>1, <2>2, <2>4
  <2>7. Expected' \subseteq Expected
    BY <1>1, <1>3, <2>1, ExpectedIs, ExpectedMore
  <2>8. PICK e : e = rtag'[R]
    OBVIOUS
  <2> HIDE DEF x
  <2>9. \/ /\ e.rpos = rdb.pos /\ e.wpos \in {WriteFile(len).pos, EndOf(NewMsg(len))}
           /\ e.maxque = maxque /\ e.delay = delay /\ e.wlock = wlock % Width
        \/ Fits(len) /\ e = rtag[R]
    BY <2>5, <2>6, <2>8 DEF Item
  <2>10. /\ <<e.maxque, e.delay, ToInt(e.wlock)>> = asked'
         /\ DbFileHeadLen <= e.rpos
         /\ Kept(msgs', Expected', R, e.rpos, V, e.wpos)
         /\ \A m \in msgs' : DbFileHeadLen <= m.pos
    <3>1. CASE /\ e.rpos = rdb.pos /\ e.wpos \in {WriteFile(len).pos, EndOf(NewMsg(len))}
               /\ e.maxque = maxque /\ e.delay = delay /\ e.wlock = wlock % Width
      <4>1. /\ Kept(Written(len), Expected, R, e.rpos, V, e.wpos)
            /\ \A m \in Written(len) : DbFileHeadLen <= m.pos
        BY <1>3, <1>5, <2>1, <2>2, <3>1, PutKept
      <4>2. Kept(msgs', Expected', R, e.rpos, V, e.wpos)
        BY <2>1, <2>7, <4>1, KeptFewer
      <4> QED
        BY <1>1, <1>5, <2>1, <3>1, <4>1, <4>2 DEF config
    <3>2. CASE Fits(len) /\ e = rtag[R]
      <4>1. ~Blank(rtag[R])
        BY <1>2, <2>6, <2>8, <3>2
      <4>2. rtag[R] # EmptyFile /\ rtag[R].wpos \in Nat /\ rtag[R].rpos \in Nat
        BY <1>5, <2>1, <2>2 DEF RtagItem
      <4>3. rtag[R].wpos # 0
        BY <4>1, <4>2, Sizes DEF Blank
      <4>4. rtag[R].wpos = wdb.pos
        BY <1>5, <2>1, <2>2, <4>3 DEF Fresh
      <4>5. ItemAt(rtag, DOMAIN db, R, wdb.cur_index)
        BY <1>5, <2>1, <2>2 DEF ItemAt
      <4>6. /\ <<rtag[R].maxque, rtag[R].delay, ToInt(rtag[R].wlock)>> = asked
            /\ DbFileHeadLen <= rtag[R].rpos
            /\ Kept(msgs, Expected, R, rtag[R].rpos, wdb.cur_index, rtag[R].wpos)
        BY <1>3, <2>6, <4>1, <4>5 DEF ItemsSafe
      <4>7. Good(msgs, Told, R, rtag[R].rpos, wdb.cur_index, rtag[R].wpos)
        BY <1>3, <2>6, <4>5, <1>5, <2>1 DEF ItemsGood
      <4>8. WriteFile(len) = wdb
        BY <3>2, WriteAt
      <4>9. wdb.pos \in {WriteFile(len).pos, EndOf(NewMsg(len))}
        BY <4>8
      <4>10. /\ Kept(Written(len), Expected, R, rtag[R].rpos, V, wdb.pos)
             /\ \A m \in Written(len) : DbFileHeadLen <= m.pos
        <5>1. /\ Good(msgs, Told, rdb.cur_index, rtag[R].rpos, wdb.cur_index, wdb.pos)
              /\ Kept(msgs, Expected, rdb.cur_index, rtag[R].rpos, wdb.cur_index, wdb.pos)
          BY <2>2, <4>4, <4>6, <4>7
        <5>2. DbFileHeadLen <= wdb.pos
          BY <1>5, <2>1
        <5> QED
          BY <2>2, <4>2, <4>9, <5>1, <5>2, PutKept
      <4>11. Kept(msgs', Expected', R, rtag[R].rpos, V, rtag[R].wpos)
        BY <2>1, <2>7, <4>4, <4>10, KeptFewer
      <4> QED
        BY <1>1, <2>1, <3>2, <4>6, <4>10, <4>11
    <3> QED
      BY <2>9, <3>1, <3>2
  <2>11. ItemsSafe(msgs', Expected', DOMAIN db', rtag', asked')
    BY <1>4, <2>3, <2>8, <2>10, OneSafe
  <2>12. rtag'[R] # EmptyFile
    <3>1. Item(rdb, x, maxque, delay, wlock) # EmptyFile /\ Item(rdb, w, maxque, delay, wlock) # EmptyFile
      <4>1. x \in DbMap /\ w \in DbMap
        BY CursorTypes, WriteAt DEF x
      <4> HIDE DEF w
      <4> QED
        BY <4>1, ItemType, ItemNotEmpty, Typed
    <3> QED
      BY <1>5, <2>1, <2>2, <2>6, <3>1
  <2>13. HandleFile(R)'
    BY <1>5, <2>1, <2>3, <2>6, <2>12, Handled
  <2>14. \E f \in DOMAIN rtag' : HandleFile(f)'
    BY <2>6, <2>13
  <2>15. \A f, g \in DOMAIN rtag' : f = g
    BY <2>6
  <2> QED
    BY <2>10, <2>11, <2>14, <2>15 DEF DeadSafe
<1>8. CASE CrashBeforeReply
  <2> DEFINE r == [ReadPos(NextMsg.file, EndOf(NextMsg)) EXCEPT !.opt_count = @ + 1]
  <2>1. /\ status = "open" /\ MovedTo(NextMsg.file) /\ Reachable # {}
        /\ rtag' = [MovedRtag(NextMsg.file) EXCEPT ![NextMsg.file] =
                      Item(r, wdb, maxque, delay, wlock)]
        /\ doubtful' = doubtful \cup {NextMsg.id} /\ UNCHANGED <<short, accepted, base>>
    BY <1>8 DEF CrashBeforeReply
  <2>2. r.pos = EndOf(NextMsg) /\ r \in DbMap
    BY <2>1, CursorTypes DEF ReadPos
  <2> HIDE DEF r
  <2>3. PICK n : n = NextMsg
    OBVIOUS
  <2>4. n.file \in Nat /\ n.id \in Nat /\ rdb.cur_index <= n.file /\ n.file <= wdb.cur_index
    BY <1>5, <2>1, <2>3, NextGood
  <2>5. msgs' = {m \in msgs : m.file >= n.file} /\ DOMAIN db' = {h \in DOMAIN db : h >= n.file}
    BY <2>1, <2>3 DEF MovedTo
  <2>6. Expected' \subseteq Expected \ {n.id}
    BY <1>1, <2>1, <2>3, ExpectedIs DEF ExpectedOf
  <2>7. /\ Kept(msgs', Expected \ {n.id}, n.file, EndOf(n), wdb.cur_index, wdb.pos)
        /\ DbFileHeadLen <= EndOf(n)
    BY <1>5, <2>1, <2>3, <2>5, NextKept
  <2>8. Kept(msgs', Expected', n.file, EndOf(n), wdb.cur_index, wdb.pos)
    BY <2>6, <2>7, KeptFewer
  <2>9. DOMAIN db' = n.file .. wdb.cur_index
    BY <1>3, <1>5, <2>1, <2>4, <2>5, RowMoved
  <2>10. n.file \in DOMAIN MovedRtag(n.file)
    BY <1>5, <2>1, <2>4, MovedGood
  <2>11. /\ n.file \in DOMAIN rtag' /\ rtag'[n.file] = Item(r, wdb, maxque, delay, wlock)
    BY <2>1, <2>3, <2>10
  <2>12. \A f, g \in DOMAIN rtag' : f = g
    BY <2>1 DEF MovedRtag
  <2>13. /\ rtag'[n.file].maxque = maxque /\ rtag'[n.file].delay = delay
         /\ rtag'[n.file].wlock = wlock % Width
         /\ rtag'[n.file].rpos = EndOf(n) /\ rtag'[n.file].wpos = wdb.pos
    BY <2>2, <2>3, <2>11 DEF Item
  <2>14. <<rtag'[n.file].maxque, rtag'[n.file].delay, ToInt(rtag'[n.file].wlock)>> = asked'
    BY <1>1, <1>5, <2>1, <2>13 DEF config
  <2>15. ItemsSafe(msgs', Expected', DOMAIN db', rtag', asked')
    BY <1>3, <1>4, <2>4, <2>7, <2>8, <2>9, <2>13, <2>14, OneSafe
  <2>16. rtag'[n.file] # EmptyFile
    BY <2>2, <2>11, ItemType, ItemNotEmpty, Typed
  <2>17. short' = {}
    BY <1>5, <2>1
  <2>18. HandleFile(n.file)'
    BY <1>3, <2>4, <2>9, <2>11, <2>16, <2>17, Handled
  <2>19. \A m \in msgs' : DbFileHeadLen <= m.pos
    BY <2>5
  <2> QED
    BY <2>11, <2>12, <2>15, <2>18, <2>19 DEF DeadSafe
<1>14. CASE \/ \E len \in Lens, f \in {rdb.cur_index, wdb.cur_index} : CrashNoSpace(len, f)
            \/ \E f \in rdb.cur_index .. ScanTarget : CrashInScan(f)
  <2>1. PICK f \in Nat : ScanDeath(f)
    BY <1>14, ScanDeaths
  <2>2. /\ status = "open" /\ rtag' = MovedRtag(f)
        /\ DOMAIN db' = {h \in DOMAIN db : h >= f}
        /\ \A m \in msgs' : m \in msgs /\ m.file >= f
        /\ \A m \in msgs : m.file >= f /\ DbFileHeadLen <= m.pos => m \in msgs'
        /\ f \in {rdb.cur_index, ScanTarget} \cup (rdb.cur_index .. ScanTarget)
        /\ UNCHANGED <<short, accepted, doubtful, base>>
    BY <2>1 DEF ScanDeath, FilesScan
  <2>3. /\ rdb.cur_index <= f /\ f <= wdb.cur_index
        /\ ScanTarget \in Nat /\ f <= ScanTarget
    <3>1. ScanTarget \in Nat /\ rdb.cur_index <= ScanTarget /\ ScanTarget <= wdb.cur_index
      BY <1>3, <1>5, <2>2, NextGood DEF ScanTarget
    <3> QED
      BY <1>3, <1>5, <2>2, <3>1
  <2>4. DOMAIN db' = f .. wdb.cur_index
    BY <1>3, <1>5, <2>2, <2>3, RowMoved
  <2>5. msgs' = {m \in msgs : m.file >= f}
    BY <2>2
  <2>6. Expected' = Expected
    BY <1>1, <2>2 DEF Expected, Pending
  <2>7. f \in DOMAIN rtag' /\ rtag'[f] # EmptyFile
    BY <1>5, <2>2, <2>3, MovedGood
  <2>8. HandleFile(f)'
    BY <1>3, <1>5, <2>2, <2>3, <2>4, <2>7, Handled
  <2>9. \A m \in msgs' : DbFileHeadLen <= m.pos
    BY <2>2
  <2>10. \A g, h \in DOMAIN rtag' : g = h
    BY <2>2 DEF MovedRtag
  <2>11. ItemsSafe(msgs', Expected', DOMAIN db', rtag', asked')
    <3>1. CASE f = rdb.cur_index
      <4>1. rtag' = rtag
        BY <2>2, <3>1 DEF MovedRtag
      <4>2. \A m \in msgs : m.file \in Nat /\ rdb.cur_index <= m.file
        BY <1>5, <2>2, Typed, MessageFields DEF Good, InPlace
      <4>3. msgs' = msgs
        BY <2>5, <3>1, <4>2
      <4>4. DOMAIN db' = DOMAIN db
        BY <1>5, <2>2, <2>4, <3>1
      <4> QED
        BY <1>1, <2>6, <4>1, <4>3, <4>4
    <3>2. CASE f # rdb.cur_index
      <4>1. rtag'[f] = Item(ReadPos(f, DbFileHeadLen), wdb, maxque, delay, wlock)
        BY <2>2, <3>2 DEF MovedRtag
      <4>2. /\ rtag'[f].maxque = maxque /\ rtag'[f].delay = delay /\ rtag'[f].wlock = wlock % Width
            /\ rtag'[f].rpos = DbFileHeadLen /\ rtag'[f].wpos = wdb.pos
        BY <4>1 DEF Item, ReadPos
      <4>3. <<rtag'[f].maxque, rtag'[f].delay, ToInt(rtag'[f].wlock)>> = asked'
        BY <1>1, <1>5, <2>2, <4>2 DEF config
      <4>4. Kept({m \in msgs : m.file >= f}, Expected, f, DbFileHeadLen, wdb.cur_index, wdb.pos)
        BY <1>5, <2>2, <2>3, ScanKept
      <4>5. Kept(msgs', Expected', f, rtag'[f].rpos, wdb.cur_index, rtag'[f].wpos)
        BY <2>5, <2>6, <4>2, <4>4
      <4>6. DbFileHeadLen <= rtag'[f].rpos
        BY <4>2, Sizes
      <4> QED
        BY <1>3, <1>4, <2>3, <2>4, <4>3, <4>5, <4>6, OneSafe
    <3> QED
      BY <3>1, <3>2
  <2> QED
    BY <2>7, <2>8, <2>9, <2>10, <2>11 DEF DeadSafe
<1>9. ASSUME GivenUp, accepted' = accepted, status # "down"
      PROVE  Expected' = {}
  <2>1. CASE status = "open"
    BY <1>1, <1>3, <1>9, <2>1, ExpectedIs, ExpectedNone DEF GivenUp
  <2>2. CASE status = "unknown"
    BY <1>1, <1>9, <2>2 DEF GivenUp, Expected, Pending
  <2> QED
    BY <1>9, <2>1, <2>2 DEF TypeInv, RecoveryTypeOK
<1>10. ASSUME NEW dbs \in SUBSET DOMAIN db, NEW rtags \in SUBSET DOMAIN rtag,
              CrashInDelete(dbs, rtags)
       PROVE  DeadSafe'
  <2>1. /\ DOMAIN db' = dbs /\ msgs' \subseteq msgs
        /\ DOMAIN rtag' = rtags /\ \A f \in rtags : rtag'[f] = rtag[f]
        /\ GivenUp /\ accepted' = accepted /\ status # "down"
    BY <1>10 DEF CrashInDelete
  <2>2. dbs = DOMAIN db \/ dbs = {}
    BY <1>10 DEF CrashInDelete, Die
  <2>3. Expected' = {}
    BY <1>9, <2>1
  <2>4. ASSUME NEW f \in DOMAIN rtag', NEW b \in Nat, ItemAt(rtag', DOMAIN db', f, b)
        PROVE  /\ <<rtag'[f].maxque, rtag'[f].delay, ToInt(rtag'[f].wlock)>> = asked'
               /\ ~Blank(rtag'[f]) => /\ DbFileHeadLen <= rtag'[f].rpos
                                      /\ Kept(msgs', Expected', f, rtag'[f].rpos, b, rtag'[f].wpos)
    <3>1. f \in Nat /\ f \in f .. b
      BY <1>4, <2>4 DEF ItemAt
    <3>2. dbs = DOMAIN db
      BY <2>1, <2>2, <2>4, <3>1 DEF ItemAt
    <3>3. f \in DOMAIN rtag /\ rtag'[f] = rtag[f] /\ ItemAt(rtag, DOMAIN db, f, b)
      BY <2>1, <2>4, <3>2 DEF ItemAt
    <3> QED
      BY <1>1, <2>3, <3>3, KeptNone DEF ItemsSafe
  <2>5. ItemsSafe(msgs', Expected', DOMAIN db', rtag', asked')
    BY <2>4 DEF ItemsSafe
  <2> QED
    BY <2>1, <2>3, <2>5 DEF DeadSafe
<1>11. ASSUME NEW step \in 1 .. 4, CrashInCreate(step)
       PROVE  DeadSafe'
  <2>1. Expected' = {} /\ msgs' = {}
    BY <1>9, <1>11 DEF CrashInCreate
  <2>2. rtag' = NewRtag \/ rtag' = [f \in {1} |-> EmptyFile]
    BY <1>11 DEF CrashInCreate
  <2>3. rtag' # NewRtag
    <3>1. NewRtag[1] \in RtagItem /\ NewRtag[1].wpos = 0 /\ DOMAIN NewRtag = {1}
      BY ConfigAssumption DEF NewRtag, RtagItem
    <3>2. Blank(NewRtag[1])
      BY <3>1, ItemNotEmpty, Sizes DEF Blank
    <3> QED
      BY <1>2, <3>1, <3>2
  <2>4. rtag' = [f \in {1} |-> EmptyFile]
    BY <2>2, <2>3
  <2>5. ItemsSafe(msgs', Expected', DOMAIN db', rtag', asked')
    BY <2>4 DEF ItemsSafe, ItemAt
  <2> QED
    BY <2>1, <2>4, <2>5 DEF DeadSafe
<1>12. ASSUME NEW len, CrashInRotation(len)
       PROVE  DeadSafe'
  BY <1>12 DEF CrashInRotation, Die
<1>13. ASSUME NEW f, NEW step, CrashInHop(f, step)
       PROVE  DeadSafe'
  BY <1>13 DEF CrashInHop, Die
<1> QED
  BY <1>6, <1>7, <1>8, <1>10, <1>11, <1>12, <1>13, <1>14 DEF CrashInRequest


\* A start.
LEMMA RestartSafe ==
  ASSUME TypeInv, TypeInv', WholeInv, SafeInv, Restart, torn = {}
  PROVE  /\ status' = "open" => OpenSafe'
         /\ status' = "unknown" => Expected' = {}
         /\ DeadSafe'
<1>1. UNCHANGED <<db, msgs, rtag, short, accepted, delivered, base, doubtful, asked>>
  BY DEF Restart, files, history
<1>2. Expected' = Expected /\ Told' = Told
  BY <1>1 DEF Expected, Pending, Told
<1>3. /\ \A m \in msgs : DbFileHeadLen <= m.pos
      /\ \A f, g \in DOMAIN rtag : f = g
      /\ Expected # {} => \E f \in DOMAIN rtag : HandleFile(f)
      /\ \A f \in DOMAIN rtag : ~Blank(rtag[f])
      /\ ItemsSafe(msgs, Expected, DOMAIN db, rtag, asked)
  BY DEF SafeInv, Restart
<1>4. ASSUME NEW fid \in DOMAIN rtag, HandleFile(fid), Opened(rtag[fid])
      PROVE  OpenSafe'
  <2>1. PICK a \in Nat, b \in Nat : DOMAIN db = a .. b
    BY DEF WholeInv
  <2>2. ItemsGood(msgs, Told, DOMAIN db, rtag)
    BY DEF WholeInv
  <2>3. ItemAt(rtag, DOMAIN db, fid, b) /\ b = WriteFid
    BY <1>4, <2>1, <2>2, RestartGood
  <2>4. /\ rtag[fid] \in RtagItem
        /\ rdb'.cur_index = fid /\ rdb'.pos = rtag[fid].rpos
        /\ wdb'.cur_index = WriteFid /\ wdb'.pos = rtag[fid].wpos
        /\ maxque' = rtag[fid].maxque /\ delay' = rtag[fid].delay
        /\ wlock' = ToInt(rtag[fid].wlock)
    BY <1>4, RestartTypes
  <2>5. /\ <<rtag[fid].maxque, rtag[fid].delay, ToInt(rtag[fid].wlock)>> = asked
        /\ DbFileHeadLen <= rtag[fid].rpos
        /\ Kept(msgs, Expected, fid, rtag[fid].rpos, b, rtag[fid].wpos)
    BY <1>3, <2>3 DEF ItemsSafe
  <2>6. DbFileHeadLen <= rtag[fid].wpos
    <3>1. rtag[fid].wpos \in Nat /\ ~(rtag[fid].wpos < DbFileHeadLen)
      BY <1>3, <2>4, ItemNotEmpty DEF Blank, RtagItem
    <3> QED
      BY <3>1, Sizes
  <2>7. CursorsSafe(msgs', Expected', rdb', wdb')
    BY <1>1, <1>2, <2>3, <2>4, <2>5, <2>6 DEF CursorsSafe
  <2>8. config' = asked'
    BY <1>1, <2>4, <2>5 DEF config
  <2> QED
    BY <1>1, <1>2, <1>3, <2>7, <2>8 DEF OpenSafe
<1>5. ASSUME rtag = << >> \/ \E fid \in DOMAIN rtag : ~HandleFile(fid)
      PROVE  Expected = {}
  <2> SUFFICES ASSUME Expected # {}
               PROVE  FALSE
    OBVIOUS
  <2>1. PICK f \in DOMAIN rtag : HandleFile(f)
    BY <1>3
  <2>2. \A g \in DOMAIN rtag : g = f
    BY <1>3
  <2> QED
    BY <1>5, <2>1, <2>2
<1>6. (\A f : HandleFile(f) => HandleFile(f)')
  BY <1>1 DEF HandleFile, ReadFid, WriteFid
<1>7. DeadSafe'
  BY <1>1, <1>2, <1>3, <1>6 DEF DeadSafe
<1>8. CASE \E fid \in DOMAIN rtag : HandleFile(fid) /\ Opened(rtag[fid])
  <2>1. OpenSafe' /\ status' = "open"
    BY <1>4, <1>8 DEF Opened
  <2> QED
    BY <1>7, <2>1
<1>9. CASE /\ rtag = << >> \/ \E fid \in DOMAIN rtag : ~HandleFile(fid)
           /\ status' = "unknown"
  <2>1. Expected' = {}
    BY <1>2, <1>5, <1>9
  <2> QED
    BY <1>7, <1>9, <2>1
<1> QED
  BY <1>8, <1>9 DEF Restart

\* Every step keeps what is expected within reach.
LEMMA SafeStep ==
  ASSUME TypeInv, TypeInv', WholeInv, WholeInv', SafeInv, [AnyCrashNext]_recoveryVars
  PROVE  SafeInv'
<1> SUFFICES ASSUME torn' = {}
             PROVE  SafeInv'
  BY DEF SafeInv
<1>1. torn = {}
  BY TornGrows
<1>2. /\ \A m \in msgs : DbFileHeadLen <= m.pos
      /\ \A f, g \in DOMAIN rtag : f = g
      /\ status = "open" => config = asked /\ CursorsSafe(msgs, Expected, rdb, wdb)
      /\ status = "unknown" => Expected = {}
      /\ ItemsSafe(msgs, Expected, DOMAIN db, rtag, asked)
  BY <1>1 DEF SafeInv
<1>3. status = "open" => OpenSafe
  BY <1>2 DEF OpenSafe
<1>4. ASSUME OpenSafe', status' = "open"
      PROVE  SafeInv'
  BY <1>4 DEF OpenSafe, SafeInv
<1>5. CASE UNCHANGED recoveryVars
  <2>1. UNCHANGED <<db, msgs, rtag, rdb, wdb, maxque, delay, wlock, accepted, delivered, status, short,
                    base, doubtful, asked, torn>>
    BY <1>5 DEF recoveryVars, vars, files, cursors, config, history
  <2>2. Expected' = Expected /\ config' = config
    BY <2>1 DEF Expected, Pending, config
  <2>3. \A f : HandleFile(f) => HandleFile(f)'
    BY <2>1 DEF HandleFile, ReadFid, WriteFid
  <2> QED
    BY <2>1, <2>2, <2>3 DEF SafeInv
<1>6. CASE Serve
  <2>1. OpenGood /\ OpenSafe /\ status' = "open"
    BY <1>1, <1>3, <1>6 DEF Serve, WholeInv, OpenGood
  <2>2. OpenGood'
    BY <1>6, <2>1, ServeGood
  <2>3. OpenSafe'
    BY <1>6, <2>1, <2>2, ServeSafe
  <2> QED
    BY <1>4, <2>1, <2>3
<1>7. CASE \/ \E len \in Lens : PutNew(len)
           \/ \E n \in MaxQueues : SetNew(n, DefDelay)
           \/ \E d \in Delays : SetNew(DefMaxQueue, d % Width)
           \/ Reset
  <2>1. OpenSafe' /\ status' = "open"
    BY <1>2, <1>7, MadeSafe, MadeTypes
  <2> QED
    BY <1>4, <2>1
<1>8. CASE Remove
  <2>1. /\ status' = "unknown" /\ msgs' = {} /\ DOMAIN rtag' = {}
        /\ base' = accepted /\ accepted' = accepted
    BY <1>8 DEF Remove, history
  <2>2. Expected' = {}
    BY <2>1, ExpectedIs, ExpectedNone, Typed
  <2> QED
    BY <2>1, <2>2 DEF SafeInv, ItemsSafe
<1>9. CASE CrashIdle \/ CrashInRequest
  <2>1. DeadSafe'
    BY <1>2, <1>3, <1>9, DeathSafe
  <2>2. status' = "down" /\ \A f \in DOMAIN rtag' : ~Blank(rtag'[f])
    BY <1>9, Deaths DEF Die
  <2> QED
    BY <2>1, <2>2 DEF SafeInv, DeadSafe
<1>10. CASE Restart
  <2>1. /\ status' = "open" => OpenSafe'
        /\ status' = "unknown" => Expected' = {}
        /\ DeadSafe'
    BY <1>1, <1>10, RestartSafe
  <2>2. status' = "open" \/ status' = "unknown"
    BY <1>10 DEF Restart, Opened
  <2>3. CASE status' = "unknown"
    BY <2>1, <2>3 DEF SafeInv, DeadSafe
  <2> QED
    BY <1>4, <2>1, <2>2, <2>3
<1> QED
  BY <1>5, <1>6, <1>7, <1>8, <1>9, <1>10 DEF AnyCrashNext, ResetNext, IdleCrashNext, Request

\* A server that never heard of the queue.
LEMMA InitRecovery == RecoveryInit => RecoveryInv
<1> SUFFICES ASSUME RecoveryInit
             PROVE  RecoveryInv
  OBVIOUS
<1>1. TypeInv
  BY InitTypes
<1>2. /\ DOMAIN db = {} /\ DOMAIN rtag = {} /\ DOMAIN delivered = {} /\ msgs = {}
      /\ status = "unknown" /\ accepted = 0
  BY DEF RecoveryInit
<1>3. 1 .. 0 = {} /\ 1 \in Nat /\ 0 \in Nat
  OBVIOUS
<1>4. WholeInv
  BY <1>2, <1>3 DEF WholeInv, ItemsGood, AtMostOnceInOrder
<1>5. Expected = {}
  BY <1>2, <1>3 DEF Expected, Pending
<1>6. SafeInv
  BY <1>2, <1>5 DEF SafeInv, ItemsSafe
<1> QED
  BY <1>1, <1>4, <1>6 DEF RecoveryInv

(***************************************************************************)
(* The theorems                                                            *)
(***************************************************************************)

\* The invariant holds wherever the process dies, however often: files,
\* messages, cursors and items fit together between any two requests, deaths
\* and starts.
THEOREM RecoveryInvHolds == AnyCrashSpec => []RecoveryInv
<1>1. RecoveryInit => RecoveryInv
  BY InitRecovery
<1>2. RecoveryInv /\ [AnyCrashNext]_recoveryVars => RecoveryInv'
  BY TypeStep, WholeStep, SafeStep DEF RecoveryInv
<1> QED
  BY <1>1, <1>2, PTL DEF AnyCrashSpec

\* Wherever the process dies, but in the middle of deleting a queue, get hands a
\* message out at most once and never after a younger one: the read position a
\* start takes from the rtag item is never in front of a message that was handed
\* out.
THEOREM OnceInOrder == AnyCrashSpec => []AtMostOnceInOrder
<1>1. RecoveryInv => AtMostOnceInOrder
  BY DEF RecoveryInv, WholeInv, AtMostOnceInOrder
<1> QED
  BY <1>1, RecoveryInvHolds, PTL

\* Unless the process died where start-up does not recover from it, the settings
\* of a queue come back from its rtag item as the last request left them.
THEOREM SettingsKept == AnyCrashSpec => []SettingsSurvive
<1>1. RecoveryInv => SettingsSurvive
  BY DEF RecoveryInv, SafeInv, SettingsSurvive
<1> QED
  BY <1>1, RecoveryInvHolds, PTL

\* What the invariant says of the messages a get can reach.
LEMMA SurvivesNow == RecoveryInv => SurvivesRestart
<1> SUFFICES ASSUME RecoveryInv, torn = {}, status # "down"
             PROVE  LET found == {m.id : m \in IF status = "open" THEN Reachable ELSE {}}
                    IN  Expected \subseteq found /\ found \subseteq Expected \cup doubtful
  BY DEF SurvivesRestart
<1>1. TypeInv /\ WholeInv /\ SafeInv
  BY DEF RecoveryInv
<1>2. CASE status = "open"
  <2>1. Kept(msgs, Expected, rdb.cur_index, rdb.pos, wdb.cur_index, wdb.pos)
    BY <1>1, <1>2 DEF SafeInv, CursorsSafe
  <2>2. \A m \in msgs : ReachedAt(m, rdb.cur_index, rdb.pos, wdb.cur_index, wdb.pos) <=> m \in Reachable
    BY DEF ReachedAt, Reachable
  <2>3. Expected \subseteq {m.id : m \in Reachable}
    BY <2>1, <2>2 DEF Kept
  <2>4. Good(msgs, Told, rdb.cur_index, rdb.pos, wdb.cur_index, wdb.pos)
    BY <1>1, <1>2 DEF WholeInv, CursorsGood
  <2>5. ASSUME NEW m \in Reachable
        PROVE  m.id \in Expected \cup doubtful
    <3>1. m \in msgs /\ m \in Message
      BY <1>1, Typed DEF Reachable
    <3>2. \A d \in Told : d < m.id
      BY <1>1, <2>2, <2>4, <3>1, ReachedLive, Typed
    <3>3. m.id \in Nat
      BY <3>1, MessageFields
    <3>4. m.id \notin Told
      BY <3>2, <3>3
    <3>5. m.id \in 1 .. accepted /\ (m.id > base \/ m.id \in doubtful)
      BY <1>1, <3>1, <3>3, Typed DEF TypeInv, MsgsInv
    <3> QED
      BY <3>4, <3>5, ExpectedIs DEF ExpectedOf
  <2> QED
    BY <1>2, <2>3, <2>5
<1>3. CASE status # "open"
  <2>1. status = "unknown"
    BY <1>1, <1>3 DEF TypeInv, RecoveryTypeOK
  <2>2. Expected = {}
    BY <1>1, <2>1 DEF SafeInv
  <2> QED
    BY <1>3, <2>2
<1> QED
  BY <1>2, <1>3

\* Unless the process died where start-up does not recover from it, every
\* acknowledged message that was neither handed out nor removed is reached by a
\* get after any number of starts, and nothing else is but messages whose
\* request was never answered.
THEOREM MessagesSurvive == AnyCrashSpec => []SurvivesRestart
BY SurvivesNow, RecoveryInvHolds, PTL

==============================================================================
