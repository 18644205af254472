-------------------------- MODULE PhpClient_proofs --------------------------
(***************************************************************************)
(* Proofs about PhpClient: for any servers, any length of the table and    *)
(* any number of calls, the table holds exactly the open sockets, a reply  *)
(* on a connection that was never answered twice is the call's own, and    *)
(* what a put returns is what became of the message.                       *)
(***************************************************************************)
EXTENDS PhpClient, SequenceTheorems, FiniteSetTheorems, WellFoundedInduction, TLAPS

(***************************************************************************)
(* The inductive invariant                                                 *)
(***************************************************************************)

\* PhpTypeOK leaves open what a call that is under way has in opt and call.
TypeInv == PhpTypeOK /\ (pc # "idle" => opt \in Opts /\ call > 0)

\* The call has written to the socket f and waits.
Own(f) == pc \in {"head", "body"} /\ fd = f

\* Some server has stored the message of the current or last call.
StoredNow == \E s \in stored : s[1] = call

\* The requests of a call that was never given up are on the socket it waits for.
RequestsOK ==
  /\ \A r \in requests : r.fd \in DOMAIN peer \cup {-1} /\ r.call <= call
  /\ \A r \in requests : r.call = call /\ call \notin late /\ pc # "idle" => Own(r.fd)
  /\ \A s \in stored : s[1] <= call

\* The code tells what became of the message of a put.
Told(code) ==
  opt = "put" => /\ code = 200 => StoredNow
                 /\ StoredNow /\ call \notin late => code = 200

\* Nothing is on a connection to which the call has not written; on the other one
\* there is the request or the reply, or what is left of it.
Silent(f) == stream[f] = << >> /\ \A r \in requests : r.fd # f
Pending(f) ==
  \A r \in requests : r.fd = f =>
    pc = "head" /\ stream[f] = << >> /\ r = Request(f, Head(rest))
NoReply(f) == stream[f] = << >> /\ (opt = "put" /\ StoredNow => call \in late)
WholeReply(f) ==
  /\ Len(stream[f]) = 2 /\ stream[f][1].call = call /\ stream[f][2].call = call
  /\ Told(stream[f][1].code)
RestOfReply(f) == Len(stream[f]) = 1 /\ stream[f][1].call = call /\ Told(ret.code)

CleanConn(f) ==
  /\ ~Own(f) => Silent(f)
  /\ Own(f) => Pending(f)
  /\ Own(f) /\ pc = "head" => NoReply(f) \/ WholeReply(f)
  /\ Own(f) /\ pc = "body" => RestOfReply(f)

ConnInv == \A f \in DOMAIN peer \ tainted : CleanConn(f)

\* Server x has or may get the message of call c.
PutAt(c, x) ==
  \/ <<c, x>> \in stored
  \/ \E r \in requests : r.call = c /\ r.opt = "put" /\ r.srv = x

\* A call that was never given up has written its message to one server at most,
\* and to none as long as it looks for one.
PutInv ==
  /\ \A c \in 1 .. call : c \notin late =>
       \A s, t \in Dests : PutAt(c, s) /\ PutAt(c, t) => s = t
  /\ pc = "op" /\ call \notin late => \A s \in Dests : ~PutAt(call, s)
  /\ pc \in {"head", "body"} /\ call \notin late =>
       \A s \in Dests : PutAt(call, s) => s = Head(rest)
  /\ opt # "put" => \A s \in Dests : ~PutAt(call, s)

\* What the code says so far, and says at the end.
RetInv ==
  /\ opt = "put" /\ ret.clean /\ ret.code = 200 => StoredNow
  /\ pc = "idle" /\ opt = "put" /\ ret.clean /\ call \notin late =>
       /\ StoredNow => ret.code = 200
       /\ \A r \in requests : r.call # call

OwnInv == AnswerIsOwn /\ (pc # "idle" => ~ret.ok)

PhpInv ==
  TypeInv /\ PoolIsExact /\ RequestsOK /\ ConnInv /\ PutInv /\ RetInv /\ OwnInv

(***************************************************************************)
(* The table                                                               *)
(***************************************************************************)

SlotType == [fd: Fds \cup {-1}, dest: Dests \cup {NoDest}, last_use: 0 .. MaxTime]

\* Min picks a member, and the least.
LEMMA MinOf ==
  ASSUME NEW S \in SUBSET Nat, S # {}
  PROVE  Min(S) \in S /\ \A y \in S : Min(S) <= y
<1> DEFINE R == {p \in Nat \X Nat : p[1] < p[2]}
<1>1. IsWellFoundedOn(R, Nat)
  BY NatLessThanWellFounded, Zenon DEF OpToRel
<1>2. PICK x \in S : \A y \in S : ~(<<y, x>> \in R)
  <2> HIDE DEF R
  <2> QED
    BY <1>1, WFMin
<1>3. \A y \in S : x <= y
  <2> TAKE y \in S
  <2>1. x \in Nat /\ y \in Nat
    OBVIOUS
  <2>2. y < x => <<y, x>> \in R
    BY <2>1
  <2> QED
    BY <1>2, <2>1, <2>2
<1> QED
  BY <1>3 DEF Min

\* A new connection gets a free slot if there is one.
LEMMA SlotForType ==
  ASSUME NEW list \in [1 .. Slots -> SlotType]
  PROVE  /\ SlotFor(list) \in 1 .. Slots
         /\ (\E i \in 1 .. Slots : list[i].fd = -1) => list[SlotFor(list)].fd = -1
<1> DEFINE free == {i \in 1 .. Slots : list[i].fd = -1}
           uses == {list[i].last_use : i \in 1 .. Slots}
           oldest == Min(uses)
           late_ones == {i \in 1 .. Slots : list[i].last_use = oldest}
<1>1. SlotFor(list) = IF free # {} THEN Min(free) ELSE Min(late_ones)
  BY Zenon DEF SlotFor
<1>2. CASE free # {}
  <2>1. free \subseteq Nat
    OBVIOUS
  <2>2. Min(free) \in free
    <3> HIDE DEF free
    <3> QED
      BY <1>2, <2>1, MinOf
  <2> QED
    BY <1>1, <1>2, <2>2, Zenon
<1>3. CASE free = {}
  <2>1. uses \subseteq Nat
    BY PhpAssumption DEF SlotType
  <2>2. 1 \in 1 .. Slots
    BY PhpAssumption
  <2>3. uses # {}
    BY <2>2
  <2>4. oldest \in uses
    <3> HIDE DEF uses
    <3> QED
      BY <2>1, <2>3, MinOf
  <2> HIDE DEF oldest
  <2>5. late_ones \subseteq Nat /\ late_ones # {}
    BY <2>4
  <2>6. Min(late_ones) \in late_ones
    <3> HIDE DEF late_ones
    <3> QED
      BY <2>5, MinOf
  <2>7. SlotFor(list) \in 1 .. Slots
    <3>1. SlotFor(list) = Min(late_ones)
      BY <1>1, <1>3, Zenon
    <3> QED
      BY <2>6, <3>1, Zenon
  <2>8. ~\E i \in 1 .. Slots : list[i].fd = -1
    BY <1>3, Zenon
  <2> QED
    BY <2>7, <2>8, Zenon
<1> QED
  BY <1>2, <1>3

\* PoolIsExact of a table and the sockets behind it.
Exact(list, open) ==
  /\ \A f \in DOMAIN open : \E i \in 1 .. Slots : list[i].fd = f
  /\ \A i \in 1 .. Slots : list[i].fd # -1 =>
       list[i].fd \in DOMAIN open /\ open[list[i].fd] = list[i].dest
  /\ \A i, j \in 1 .. Slots : i # j /\ list[i].fd # -1 /\ list[j].fd # -1 =>
       list[i].fd # list[j].fd /\ list[i].dest # list[j].dest

\* The property as a predicate of table and sockets,
LEMMA PoolIsExactHere == PoolIsExact <=> Exact(mq_list, peer)
BY Zenon DEF PoolIsExact, Exact

\* and the same after a step.
LEMMA PoolIsExactNext == PoolIsExact' <=> Exact(mq_list', peer')
BY Zenon DEF PoolIsExact, Exact

\* The sockets S are closed and their slots, and no others, are free.
LEMMA ExactFreed ==
  ASSUME NEW list, NEW list2, NEW open, NEW S,
         Exact(list, open), -1 \notin DOMAIN open,
         \A i \in 1 .. Slots :
           \/ list2[i].fd = list[i].fd /\ list2[i].dest = list[i].dest /\ list[i].fd \notin S
           \/ list2[i].fd = -1 /\ list[i].fd \in S \cup {-1}
  PROVE  Exact(list2, Without(open, S))
<1>1. DOMAIN Without(open, S) = DOMAIN open \ S
  BY DEF Without
<1>2. \A f \in DOMAIN open \ S : Without(open, S)[f] = open[f]
  BY DEF Without
<1>3. \A f \in DOMAIN open \ S : \E i \in 1 .. Slots : list2[i].fd = f
  <2> TAKE f \in DOMAIN open \ S
  <2>1. PICK i \in 1 .. Slots : list[i].fd = f
    BY DEF Exact
  <2>2. list[i].fd # -1 /\ list[i].fd \notin S
    BY <2>1
  <2> QED
    BY <2>1, <2>2
<1>4. \A i \in 1 .. Slots : list2[i].fd # -1 =>
        list2[i].fd \in DOMAIN open \ S /\ open[list2[i].fd] = list2[i].dest
  <2> TAKE i \in 1 .. Slots
  <2> HAVE list2[i].fd # -1
  <2>1. list2[i].fd = list[i].fd /\ list2[i].dest = list[i].dest /\ list[i].fd \notin S
    OBVIOUS
  <2>2. list[i].fd \in DOMAIN open /\ open[list[i].fd] = list[i].dest
    BY <2>1 DEF Exact
  <2> QED
    BY <2>1, <2>2
<1>5. \A i, j \in 1 .. Slots : i # j /\ list2[i].fd # -1 /\ list2[j].fd # -1 =>
        list2[i].fd # list2[j].fd /\ list2[i].dest # list2[j].dest
  <2> TAKE i, j \in 1 .. Slots
  <2> HAVE i # j /\ list2[i].fd # -1 /\ list2[j].fd # -1
  <2>1. /\ list2[i].fd = list[i].fd /\ list2[i].dest = list[i].dest
        /\ list2[j].fd = list[j].fd /\ list2[j].dest = list[j].dest
    OBVIOUS
  <2> QED
    BY <2>1 DEF Exact
<1> QED
  BY <1>1, <1>2, <1>3, <1>4, <1>5, Zenon DEF Exact

\* A socket f to a server d that had none goes into a free slot.
LEMMA ExactOpened ==
  ASSUME NEW list, NEW list2, NEW open, NEW k \in 1 .. Slots, NEW f, NEW d,
         Exact(list, open), list[k].fd = -1,
         f \notin DOMAIN open, f # -1, -1 \notin DOMAIN open,
         \A i \in 1 .. Slots : list[i].fd # -1 => list[i].dest # d,
         list2[k].fd = f, list2[k].dest = d,
         \A i \in 1 .. Slots : i # k => list2[i].fd = list[i].fd /\ list2[i].dest = list[i].dest
  PROVE  Exact(list2, With(open, f, d))
<1> DEFINE new == With(open, f, d)
<1>1. DOMAIN new = DOMAIN open \cup {f} /\ new[f] = d
  BY DEF With
<1>2. \A g \in DOMAIN open : new[g] = open[g]
  BY DEF With
<1> HIDE DEF new
<1>3. \A g \in DOMAIN new : \E i \in 1 .. Slots : list2[i].fd = g
  <2> TAKE g \in DOMAIN new
  <2>1. CASE g = f
    BY <2>1
  <2>2. CASE g # f
    <3>1. g \in DOMAIN open
      BY <1>1, <2>2
    <3>2. PICK i \in 1 .. Slots : list[i].fd = g
      BY <3>1 DEF Exact
    <3>3. CASE i = k
      <4>1. CASE g = -1
        BY <3>2, <3>3, <4>1, <3>1, <1>1
      <4> QED
        BY <3>2, <3>3, <4>1
    <3> QED
      BY <3>2, <3>3
  <2> QED
    BY <2>1, <2>2
<1>4. \A i \in 1 .. Slots : list2[i].fd # -1 =>
        list2[i].fd \in DOMAIN new /\ new[list2[i].fd] = list2[i].dest
  <2> TAKE i \in 1 .. Slots
  <2> HAVE list2[i].fd # -1
  <2>1. CASE i = k
    BY <1>1, <2>1
  <2>2. CASE i # k
    <3>1. list[i].fd \in DOMAIN open /\ open[list[i].fd] = list[i].dest
      BY <2>2 DEF Exact
    <3> QED
      BY <1>1, <1>2, <2>2, <3>1
  <2> QED
    BY <2>1, <2>2
<1>5. \A i, j \in 1 .. Slots : i # j /\ list2[i].fd # -1 /\ list2[j].fd # -1 =>
        list2[i].fd # list2[j].fd /\ list2[i].dest # list2[j].dest
  <2> TAKE i, j \in 1 .. Slots
  <2> HAVE i # j /\ list2[i].fd # -1 /\ list2[j].fd # -1
  <2>1. \A h \in 1 .. Slots : h # k /\ list2[h].fd # -1 =>
          list2[h].fd # f /\ list2[h].dest # d
    BY DEF Exact
  <2> QED
    BY <2>1 DEF Exact
<1> QED
  BY <1>3, <1>4, <1>5, Zenon DEF Exact, new

\* What TypeInv says of table and sockets.
LEMMA PoolTypes ==
  ASSUME TypeInv
  PROVE  /\ mq_list \in [1 .. Slots -> SlotType]
         /\ DOMAIN peer \subseteq Fds /\ -1 \notin DOMAIN peer /\ -1 \notin Fds
         /\ Slots \in Nat
<1>1. -1 \notin Fds
  BY PhpAssumption DEF Fds
<1> QED
  BY <1>1, PhpAssumption DEF TypeInv, PhpTypeOK, SlotType

\* The kept connection that a call picks is open and leads to the server it asked for.
LEMMA UsableIs ==
  ASSUME TypeInv, PoolIsExact, NEW d, Usable(d) # {}
  PROVE  /\ Min(Usable(d)) \in 1 .. Slots
         /\ mq_list[Min(Usable(d))].fd \in DOMAIN peer
         /\ mq_list[Min(Usable(d))].fd # -1
         /\ peer[mq_list[Min(Usable(d))].fd] = d
         /\ d \in Dests
<1>1. Usable(d) \subseteq Nat
  BY DEF Usable, Matching
<1>2. PICK i : i = Min(Usable(d))
  OBVIOUS
<1>3. i \in Usable(d)
  BY <1>1, <1>2, MinOf
<1>4. i \in 1 .. Slots /\ mq_list[i].fd # -1 /\ mq_list[i].dest = d
  BY <1>3 DEF Usable, Matching
<1>5. mq_list[i].fd \in DOMAIN peer /\ peer[mq_list[i].fd] = d
  BY <1>4 DEF PoolIsExact
<1>6. d \in Dests
  BY <1>5 DEF TypeInv, PhpTypeOK
<1> QED
  BY <1>2, <1>4, <1>5, <1>6

\* Expired and closed connections of the server leave the table and no others.
LEMMA WithoutDead ==
  ASSUME TypeInv, PoolIsExact, NEW d
  PROVE  /\ ListWithoutDead(d) \in [1 .. Slots -> SlotType]
         /\ Dead(d) \subseteq DOMAIN peer
         /\ \A i \in 1 .. Slots :
              \/ ListWithoutDead(d)[i] = mq_list[i] /\ mq_list[i].fd \notin Dead(d)
              \/ ListWithoutDead(d)[i].fd = -1 /\ mq_list[i].fd \in Dead(d)
         /\ Usable(d) = {} => \A i \in 1 .. Slots : ListWithoutDead(d)[i].fd # -1 =>
              ListWithoutDead(d)[i].dest # d
<1> DEFINE list == ListWithoutDead(d)
           D == Matching(d) \ Usable(d)
<1>1. /\ mq_list \in [1 .. Slots -> SlotType] /\ -1 \notin DOMAIN peer
  BY PoolTypes
<1>2. D \subseteq 1 .. Slots /\ \A i \in D : mq_list[i].fd # -1
  BY DEF Matching
<1>3. Dead(d) \subseteq DOMAIN peer
  BY <1>2 DEF Dead, PoolIsExact
<1>4. \A i \in 1 .. Slots :
        list[i] = IF i \in D THEN [mq_list[i] EXCEPT !.fd = -1] ELSE mq_list[i]
  BY DEF ListWithoutDead
<1>5. \A i \in 1 .. Slots :
        /\ mq_list[i] \in SlotType
        /\ [mq_list[i] EXCEPT !.fd = -1] \in SlotType /\ [mq_list[i] EXCEPT !.fd = -1].fd = -1
  BY <1>1 DEF SlotType
<1>6. list \in [1 .. Slots -> SlotType]
  <2>1. list = [i \in 1 .. Slots |->
                  IF i \in D THEN [mq_list[i] EXCEPT !.fd = -1] ELSE mq_list[i]]
    BY DEF ListWithoutDead
  <2> HIDE DEF list, D
  <2> QED
    BY <1>5, <2>1
<1>7. \A i \in D : list[i].fd = -1 /\ mq_list[i].fd \in Dead(d)
  BY <1>2, <1>4, <1>5 DEF Dead
<1>8. \A i \in (1 .. Slots) \ D : list[i] = mq_list[i] /\ mq_list[i].fd \notin Dead(d)
  <2> TAKE i \in (1 .. Slots) \ D
  <2>1. list[i] = mq_list[i]
    BY <1>4
  <2>2. ASSUME mq_list[i].fd \in Dead(d) PROVE FALSE
    <3>1. PICK j \in D : mq_list[j].fd = mq_list[i].fd
      BY <2>2 DEF Dead
    <3>2. i # j /\ j \in 1 .. Slots /\ mq_list[j].fd # -1
      BY <1>2, <3>1
    <3> QED
      BY <3>1, <3>2 DEF PoolIsExact
  <2> QED
    BY <2>1, <2>2
<1>9. ASSUME Usable(d) = {}, NEW i \in 1 .. Slots, list[i].fd # -1
      PROVE  list[i].dest # d
  <2>1. i \notin D
    BY <1>7, <1>9
  <2>2. list[i] = mq_list[i]
    BY <1>8, <2>1
  <2>3. i \notin Matching(d)
    BY <1>9, <2>1
  <2> QED
    BY <1>9, <2>2, <2>3 DEF Matching
<1>10. D \cup ((1 .. Slots) \ D) = 1 .. Slots
  BY <1>2
<1>11. \A i \in 1 .. Slots :
         \/ list[i] = mq_list[i] /\ mq_list[i].fd \notin Dead(d)
         \/ list[i].fd = -1 /\ mq_list[i].fd \in Dead(d)
  <2> HIDE DEF D, list
  <2> QED
    BY <1>7, <1>8, <1>10
<1> QED
  BY <1>3, <1>6, <1>9, <1>11

\* The slot that add_to_list takes: what was in it is closed.
LEMMA RoomMade ==
  ASSUME TypeInv, PoolIsExact, NEW d, NEW list, NEW k,
         list = ListWithoutDead(d), k = SlotFor(list)
  PROVE  /\ k \in 1 .. Slots
         /\ Evicted(list) \subseteq DOMAIN peer \ Dead(d)
         /\ mq_list[k].fd \in Dead(d) \cup Evicted(list) \cup {-1}
         /\ \A i \in 1 .. Slots : i # k =>
              \/ list[i] = mq_list[i] /\ mq_list[i].fd \notin Dead(d) \cup Evicted(list)
              \/ list[i].fd = -1 /\ mq_list[i].fd \in Dead(d)
<1>1. list \in [1 .. Slots -> SlotType] /\ Dead(d) \subseteq DOMAIN peer
  BY WithoutDead
<1>2. \A i \in 1 .. Slots :
        \/ list[i] = mq_list[i] /\ mq_list[i].fd \notin Dead(d)
        \/ list[i].fd = -1 /\ mq_list[i].fd \in Dead(d)
  BY WithoutDead
<1>3. k \in 1 .. Slots
  BY <1>1, SlotForType
<1>4. Evicted(list) = {list[k].fd} \ {-1}
  BY DEF Evicted
<1>5. -1 \notin DOMAIN peer
  BY PoolTypes
<1>6. Evicted(list) \subseteq DOMAIN peer \ Dead(d)
  <2>1. CASE list[k].fd = -1
    BY <1>4, <2>1
  <2>2. CASE list[k].fd # -1
    <3>1. list[k] = mq_list[k] /\ mq_list[k].fd \notin Dead(d)
      BY <1>2, <1>3, <2>2
    <3>2. mq_list[k].fd \in DOMAIN peer
      BY <1>3, <2>2, <3>1 DEF PoolIsExact
    <3> QED
      BY <1>4, <3>1, <3>2
  <2> QED
    BY <2>1, <2>2
<1>7. mq_list[k].fd \in Dead(d) \cup Evicted(list) \cup {-1}
  <2>1. list[k] = mq_list[k] \/ mq_list[k].fd \in Dead(d)
    BY <1>2, <1>3
  <2> QED
    BY <1>4, <2>1
<1>8. ASSUME NEW i \in 1 .. Slots, i # k, list[i] = mq_list[i], mq_list[i].fd \in Evicted(list)
      PROVE  FALSE
  <2>1. list[k].fd = mq_list[i].fd /\ list[k].fd # -1
    BY <1>4, <1>8
  <2>2. list[k] = mq_list[k]
    BY <1>2, <1>3, <2>1
  <2>3. mq_list[k].fd = mq_list[i].fd /\ mq_list[k].fd # -1
    BY <2>1, <2>2
  <2> QED
    BY <1>3, <1>8, <2>3 DEF PoolIsExact
<1>9. \A i \in 1 .. Slots : i # k =>
        \/ list[i] = mq_list[i] /\ mq_list[i].fd \notin Dead(d) \cup Evicted(list)
        \/ list[i].fd = -1 /\ mq_list[i].fd \in Dead(d)
  BY <1>2, <1>8
<1> QED
  BY <1>3, <1>6, <1>7, <1>9

\* There are fewer sockets than numbers.
LEMMA FreeFd ==
  ASSUME TypeInv, PoolIsExact, NEW S
  PROVE  /\ Min(Fds \ (DOMAIN peer \ S)) \in Fds
         /\ Min(Fds \ (DOMAIN peer \ S)) \notin DOMAIN peer \ S
<1> DEFINE I == {mq_list[i].fd : i \in 1 .. Slots}
<1>1. DOMAIN peer \subseteq Fds /\ Slots \in Nat
  BY PoolTypes
<1>2. IsFiniteSet(1 .. Slots) /\ Cardinality(1 .. Slots) = Slots
  BY <1>1, FS_Interval
<1>3. IsFiniteSet(I) /\ Cardinality(I) <= Slots
  <2> DEFINE g == [i \in 1 .. Slots |-> mq_list[i].fd]
  <2>1. g \in Surjection(1 .. Slots, I)
    BY DEF Surjection
  <2> HIDE DEF g, I
  <2>2. IsFiniteSet(I) /\ Cardinality(I) <= Cardinality(1 .. Slots)
    BY <1>2, <2>1, FS_Surjection
  <2> QED
    BY <1>2, <2>2
<1>4. IsFiniteSet(Fds) /\ Cardinality(Fds) = Slots + 1
  BY <1>1, FS_Interval DEF Fds
<1>5. Fds \ DOMAIN peer # {}
  <2>1. DOMAIN peer \subseteq I
    BY DEF PoolIsExact
  <2>2. ASSUME Fds \ DOMAIN peer = {} PROVE FALSE
    <3>1. Fds \subseteq I
      BY <2>1, <2>2
    <3>2. Cardinality(Fds) <= Cardinality(I)
      <4> HIDE DEF I
      <4> QED
        BY <1>3, <3>1, FS_Subset
    <3>3. Cardinality(I) \in Nat
      BY <1>3, FS_CardinalityType
    <3> HIDE DEF I
    <3> QED
      BY <1>1, <1>3, <1>4, <3>2, <3>3
  <2> QED
    BY <2>2
<1>6. PICK F : F = Fds \ (DOMAIN peer \ S)
  OBVIOUS
<1>7. F \subseteq Nat /\ F # {}
  BY <1>5, <1>6 DEF Fds
<1>8. Min(F) \in F
  BY <1>7, MinOf
<1> QED
  BY <1>6, <1>8

(***************************************************************************)
(* What the actions do to the table and to the sockets                     *)
(***************************************************************************)

GivesUp == ConnectFails \/ SendFails \/ FirstSendFails \/ RecvTooMuch \/ RecvFails
ShutsDown == RequestShutdown \/ ModuleShutdown

\* The sockets S are closed and their slots, and no others, freed.
Frees(S) ==
  /\ Close(S)
  /\ mq_list' \in [1 .. Slots -> SlotType]
  /\ \A i \in 1 .. Slots :
       \/ /\ mq_list'[i].fd = mq_list[i].fd /\ mq_list'[i].dest = mq_list[i].dest
          /\ mq_list[i].fd \notin S
       \/ mq_list'[i].fd = -1 /\ mq_list[i].fd \in S \cup {-1}

\* Dropping one connection frees its slot and closes its socket.
LEMMA SlotFreed ==
  ASSUME TypeInv, NEW f, DelFromList(f), Close({f})
  PROVE  Frees({f})
<1>1. mq_list \in [1 .. Slots -> SlotType]
  BY PoolTypes
<1>2. \A i \in 1 .. Slots :
        /\ mq_list[i] \in SlotType
        /\ [mq_list[i] EXCEPT !.fd = -1] \in SlotType /\ [mq_list[i] EXCEPT !.fd = -1].fd = -1
  BY <1>1 DEF SlotType
<1>3. mq_list' \in [1 .. Slots -> SlotType]
  BY <1>2 DEF DelFromList
<1>4. \A i \in 1 .. Slots :
        \/ mq_list'[i] = mq_list[i] /\ mq_list[i].fd \notin {f}
        \/ mq_list'[i].fd = -1 /\ mq_list[i].fd \in {f}
  BY <1>2 DEF DelFromList
<1> QED
  BY <1>3, <1>4 DEF Frees

\* Giving a server up, and shutting down, free slots and close their sockets together.
LEMMA FreesSlots ==
  ASSUME TypeInv, PoolIsExact, GivesUp \/ ShutsDown
  PROVE  \E S : Frees(S) /\ \A f : Own(f) => f \in S
<1> PICK d : d = Head(rest)
  OBVIOUS
<1>1. mq_list \in [1 .. Slots -> SlotType]
  BY PoolTypes
<1>2. \A i \in 1 .. Slots :
        /\ mq_list[i] \in SlotType
        /\ [mq_list[i] EXCEPT !.fd = -1] \in SlotType /\ [mq_list[i] EXCEPT !.fd = -1].fd = -1
        /\ [mq_list[i] EXCEPT !.fd = -1, !.dest = NoDest] \in SlotType
        /\ [mq_list[i] EXCEPT !.fd = -1, !.dest = NoDest].fd = -1
  BY <1>1 DEF SlotType
<1>3. CASE ConnectFails
  <2>1. mq_list' = ListWithoutDead(d) /\ Close(Dead(d)) /\ pc = "op"
    BY <1>3, Zenon DEF ConnectFails
  <2>2. Frees(Dead(d))
    BY <2>1, WithoutDead DEF Frees
  <2>3. \A f : ~Own(f)
    BY <2>1 DEF Own
  <2> QED
    BY <2>2, <2>3, Zenon
<1>4. CASE SendFails
  <2>1. PICK f : DelFromList(f) /\ Close({f}) /\ pc = "op"
    BY <1>4, Zenon DEF SendFails
  <2>2. Frees({f})
    BY <2>1, SlotFreed
  <2>3. \A g : ~Own(g)
    BY <2>1 DEF Own
  <2> QED
    BY <2>2, <2>3, Zenon
<1>5. CASE FirstSendFails
  <2> PICK list : list = ListWithoutDead(d)
    OBVIOUS
  <2> PICK k : k = SlotFor(list)
    OBVIOUS
  <2>1. /\ pc = "op" /\ d # BadDest
        /\ mq_list' = [list EXCEPT ![k] = [fd |-> -1, dest |-> d, last_use |-> now]]
        /\ Close(Dead(d) \cup Evicted(list))
    BY <1>5, Zenon DEF FirstSendFails
  <2>2. PICK S : S = Dead(d) \cup Evicted(list)
    OBVIOUS
  <2>3. /\ k \in 1 .. Slots /\ mq_list[k].fd \in S \cup {-1}
        /\ \A i \in 1 .. Slots : i # k =>
             \/ list[i] = mq_list[i] /\ mq_list[i].fd \notin S
             \/ list[i].fd = -1 /\ mq_list[i].fd \in S
    BY <2>2, RoomMade
  <2>4. list \in [1 .. Slots -> SlotType]
    BY WithoutDead
  <2>5. now \in 0 .. MaxTime /\ d \in Dests
    <3>1. rest \in Seq(Dests \cup {BadDest}) /\ rest # << >> /\ now \in 0 .. MaxTime
      BY <2>1 DEF TypeInv, PhpTypeOK
    <3>2. Head(rest) \in Dests \cup {BadDest}
      BY <3>1, HeadTailProperties
    <3> QED
      BY <2>1, <3>1, <3>2
  <2>6. [fd |-> -1, dest |-> d, last_use |-> now] \in SlotType
    BY <2>5 DEF SlotType
  <2>7. mq_list' \in [1 .. Slots -> SlotType]
    BY <2>1, <2>4, <2>6
  <2>8. mq_list'[k].fd = -1 /\ \A i \in 1 .. Slots : i # k => mq_list'[i] = list[i]
    BY <2>1, <2>3, <2>4
  <2>9. Frees(S)
    BY <2>1, <2>2, <2>3, <2>7, <2>8 DEF Frees
  <2>10. \A f : ~Own(f)
    BY <2>1 DEF Own
  <2> QED
    BY <2>9, <2>10, Zenon
<1>6. CASE RecvTooMuch \/ RecvFails
  <2>1. DelFromList(fd) /\ Close({fd})
    BY <1>6, Zenon DEF RecvTooMuch, RecvFails
  <2>2. PICK f : f = fd
    OBVIOUS
  <2>3. Frees({f})
    <3>1. DelFromList(f) /\ Close({f})
      BY <2>1, <2>2, Zenon
    <3> QED
      BY <3>1, SlotFreed
  <2>4. \A g : Own(g) => g \in {f}
    BY <2>2 DEF Own
  <2> QED
    BY <2>3, <2>4, Zenon
<1>7. CASE RequestShutdown
  <2> DEFINE S == {mq_list[i].fd : i \in Expired}
  <2>1. /\ pc = "idle" /\ Close(S)
        /\ mq_list' = [i \in 1 .. Slots |->
             IF i \in Expired THEN [mq_list[i] EXCEPT !.fd = -1, !.dest = NoDest]
             ELSE mq_list[i]]
    BY <1>7, Zenon DEF RequestShutdown
  <2>2. mq_list' \in [1 .. Slots -> SlotType]
    BY <1>2, <2>1
  <2>3. Expired \subseteq 1 .. Slots /\ \A i \in Expired : mq_list[i].fd # -1
    BY DEF Expired
  <2>4. \A i \in Expired : mq_list'[i].fd = -1 /\ mq_list[i].fd \in S
    BY <1>2, <2>1, <2>3
  <2>5. \A i \in (1 .. Slots) \ Expired : mq_list'[i] = mq_list[i] /\ mq_list[i].fd \notin S
    <3> TAKE i \in (1 .. Slots) \ Expired
    <3>1. mq_list'[i] = mq_list[i]
      BY <2>1
    <3>2. ASSUME mq_list[i].fd \in S PROVE FALSE
      <4>1. PICK j \in Expired : mq_list[j].fd = mq_list[i].fd
        BY <3>2
      <4>2. i # j /\ j \in 1 .. Slots /\ mq_list[j].fd # -1
        BY <2>3, <4>1
      <4> QED
        BY <4>1, <4>2 DEF PoolIsExact
    <3> QED
      BY <3>1, <3>2
  <2>6. PICK T : T = S
    OBVIOUS
  <2> HIDE DEF S
  <2>7. \A i \in 1 .. Slots :
          \/ /\ mq_list'[i].fd = mq_list[i].fd /\ mq_list'[i].dest = mq_list[i].dest
             /\ mq_list[i].fd \notin T
          \/ mq_list'[i].fd = -1 /\ mq_list[i].fd \in T \cup {-1}
    BY <2>4, <2>5, <2>6
  <2>8. Frees(T)
    BY <2>1, <2>2, <2>6, <2>7 DEF Frees
  <2>9. \A f : ~Own(f)
    BY <2>1 DEF Own
  <2> QED
    BY <2>8, <2>9, Zenon
<1>8. CASE ModuleShutdown
  <2> DEFINE S == {mq_list[i].fd : i \in 1 .. Slots}
  <2>1. /\ pc = "idle" /\ Close(S)
        /\ mq_list' = [i \in 1 .. Slots |-> FreeSlot]
    BY <1>8, Zenon DEF ModuleShutdown
  <2>2. FreeSlot \in SlotType /\ FreeSlot.fd = -1
    BY PhpAssumption DEF FreeSlot, SlotType
  <2>3. mq_list' \in [1 .. Slots -> SlotType]
    BY <2>1, <2>2
  <2>4. \A i \in 1 .. Slots : mq_list'[i].fd = -1 /\ mq_list[i].fd \in S
    BY <2>1, <2>2
  <2>5. PICK T : T = S
    OBVIOUS
  <2> HIDE DEF S
  <2>6. Frees(T)
    BY <2>1, <2>3, <2>4, <2>5 DEF Frees
  <2>7. \A f : ~Own(f)
    BY <2>1 DEF Own
  <2> QED
    BY <2>6, <2>7, Zenon
<1> QED
  BY <1>3, <1>4, <1>5, <1>6, <1>7, <1>8 DEF GivesUp, ShutsDown

\* g without S and with v under f.
Opened(g, S, f, v) == With(Without(g, S), f, v)

\* The sockets S are closed and f, a new one to d, goes into slot k.
Opens(S, f, d, k) ==
  /\ S \subseteq DOMAIN peer
  /\ f \in Fds /\ f \notin DOMAIN peer \ S
  /\ d = Head(rest) /\ d \in Dests
  /\ peer' = Opened(peer, S, f, d)
  /\ stream' = Opened(stream, S, f, << >>)
  /\ arrived' = Opened(arrived, S, f, 0)
  /\ closing' = closing \ (S \cup {f})
  /\ tainted' = tainted \ (S \cup {f})
  /\ requests' = Orphaned(S) \cup {Request(f, d)}
  /\ fd' = f
  /\ mq_list' \in [1 .. Slots -> SlotType]
  /\ k \in 1 .. Slots /\ mq_list'[k].fd = f /\ mq_list'[k].dest = d
  /\ mq_list[k].fd \in S \cup {-1}
  /\ \A i \in 1 .. Slots : i # k =>
       /\ \/ /\ mq_list'[i].fd = mq_list[i].fd /\ mq_list'[i].dest = mq_list[i].dest
             /\ mq_list[i].fd \notin S
          \/ mq_list'[i].fd = -1 /\ mq_list[i].fd \in S \cup {-1}
       /\ mq_list'[i].fd # -1 => mq_list'[i].dest # d

\* A descriptor that is closed and handed out again is as one that is replaced.
LEMMA WithAgain ==
  ASSUME NEW g, NEW S, NEW f, NEW v
  PROVE  With(Without(g, S \ {f}), f, v) = With(Without(g, S), f, v)
<1> DEFINE a == Without(g, S \ {f})
           b == Without(g, S)
<1>1. DOMAIN a \cup {f} = DOMAIN b \cup {f}
  BY DEF Without
<1>2. \A y \in (DOMAIN a \cup {f}) \ {f} : a[y] = b[y]
  BY DEF Without
<1> HIDE DEF a, b
<1>3. [y \in DOMAIN a \cup {f} |-> IF y = f THEN v ELSE a[y]]
        = [y \in DOMAIN b \cup {f} |-> IF y = f THEN v ELSE b[y]]
  BY <1>1, <1>2
<1> QED
  BY <1>3, Zenon DEF With, a, b

\* Connecting closes some sockets with their slots, then fills one free slot.
LEMMA OpensSlot ==
  ASSUME TypeInv, PoolIsExact, Connect
  PROVE  \E S, f, d, k : Opens(S, f, d, k)
<1> PICK d : d = Head(rest)
  OBVIOUS
<1> PICK list : list = ListWithoutDead(d)
  OBVIOUS
<1> PICK k : k = SlotFor(list)
  OBVIOUS
<1> PICK f : f = Min(Fds \ (DOMAIN peer \ Dead(d)))
  OBVIOUS
<1> PICK S : S = Dead(d) \cup Evicted(list)
  OBVIOUS
<1>1. /\ pc = "op" /\ d # BadDest /\ Usable(d) = {}
      /\ CloseAndOpen(S \ {f}, f, d)
      /\ mq_list' = [list EXCEPT ![k] = [fd |-> f, dest |-> d, last_use |-> now]]
      /\ fd' = f
      /\ requests' = Orphaned(Dead(d) \cup (S \ {f})) \cup {Request(f, d)}
  BY Zenon DEF Connect
<1>2. /\ k \in 1 .. Slots /\ Evicted(list) \subseteq DOMAIN peer \ Dead(d)
      /\ mq_list[k].fd \in S \cup {-1}
      /\ \A i \in 1 .. Slots : i # k =>
           \/ list[i] = mq_list[i] /\ mq_list[i].fd \notin S
           \/ list[i].fd = -1 /\ mq_list[i].fd \in S
  BY RoomMade
<1>3. /\ list \in [1 .. Slots -> SlotType] /\ Dead(d) \subseteq DOMAIN peer
      /\ \A i \in 1 .. Slots : list[i].fd # -1 => list[i].dest # d
  BY <1>1, WithoutDead
<1>4. f \in Fds /\ f \notin DOMAIN peer \ Dead(d)
  BY FreeFd
<1>5. S \subseteq DOMAIN peer /\ f \notin DOMAIN peer \ S
  BY <1>2, <1>3, <1>4
<1>6. Dead(d) \cup (S \ {f}) = S
  <2>1. f \in S => f \in Dead(d)
    BY <1>2, <1>4
  <2> QED
    BY <2>1
<1>7. now \in 0 .. MaxTime /\ d \in Dests
  <2>1. rest \in Seq(Dests \cup {BadDest}) /\ rest # << >> /\ now \in 0 .. MaxTime
    BY <1>1 DEF TypeInv, PhpTypeOK
  <2>2. Head(rest) \in Dests \cup {BadDest}
    BY <2>1, HeadTailProperties
  <2> QED
    BY <1>1, <2>1, <2>2
<1>8. [fd |-> f, dest |-> d, last_use |-> now] \in SlotType
  BY <1>4, <1>7 DEF SlotType
<1>9. mq_list' \in [1 .. Slots -> SlotType]
  BY <1>1, <1>3, <1>8
<1>10. /\ mq_list'[k].fd = f /\ mq_list'[k].dest = d
       /\ \A i \in 1 .. Slots : i # k => mq_list'[i] = list[i]
  BY <1>1, <1>2, <1>3
<1>11. /\ peer' = Opened(peer, S, f, d)
       /\ stream' = Opened(stream, S, f, << >>)
       /\ arrived' = Opened(arrived, S, f, 0)
  <2>1. \A g, v : With(Without(g, S \ {f}), f, v) = With(Without(g, S), f, v)
    BY WithAgain
  <2>2. /\ peer' = With(Without(peer, S \ {f}), f, d)
        /\ stream' = With(Without(stream, S \ {f}), f, << >>)
        /\ arrived' = With(Without(arrived, S \ {f}), f, 0)
    BY <1>1, Zenon DEF CloseAndOpen
  <2> QED
    BY <2>1, <2>2, Zenon DEF Opened
<1>12. closing' = closing \ (S \cup {f}) /\ tainted' = tainted \ (S \cup {f})
  BY <1>1 DEF CloseAndOpen
<1>13. requests' = Orphaned(S) \cup {Request(f, d)}
  BY <1>1, <1>6, Zenon
<1>14. \A i \in 1 .. Slots : i # k =>
         /\ \/ /\ mq_list'[i].fd = mq_list[i].fd /\ mq_list'[i].dest = mq_list[i].dest
               /\ mq_list[i].fd \notin S
            \/ mq_list'[i].fd = -1 /\ mq_list[i].fd \in S \cup {-1}
         /\ mq_list'[i].fd # -1 => mq_list'[i].dest # d
  BY <1>2, <1>3, <1>10
<1>15. Opens(S, f, d, k)
  BY <1>1, <1>2, <1>4, <1>5, <1>7, <1>9, <1>10, <1>11, <1>12, <1>13, <1>14, Zenon DEF Opens
<1> QED
  BY <1>15, Zenon

\* Values of a function restricted to what stays.
LEMMA WithoutIs ==
  ASSUME NEW g, NEW S
  PROVE  /\ DOMAIN Without(g, S) = DOMAIN g \ S
         /\ \A x \in DOMAIN g \ S : Without(g, S)[x] = g[x]
BY DEF Without

\* Values of a function with some sockets closed and one opened.
LEMMA OpenedIs ==
  ASSUME NEW g, NEW S, NEW f, NEW v
  PROVE  /\ Opened(g, S, f, v)[f] = v
         /\ \A x \in DOMAIN g \ S : x # f => Opened(g, S, f, v)[x] = g[x]
<1> DEFINE h == Without(g, S)
<1>1. DOMAIN h = DOMAIN g \ S /\ \A x \in DOMAIN g \ S : h[x] = g[x]
  BY WithoutIs
<1> HIDE DEF h
<1>2. /\ With(h, f, v)[f] = v
      /\ \A x \in DOMAIN h : x # f => With(h, f, v)[x] = h[x]
  BY DEF With
<1> QED
  BY <1>1, <1>2 DEF h, Opened

\* A call that finds a usable connection changes only its time of use.
LEMMA Reused ==
  ASSUME TypeInv, PoolIsExact, Reuse
  PROVE  \E i \in 1 .. Slots :
           /\ mq_list' = [mq_list EXCEPT ![i].last_use = now]
           /\ fd' = mq_list[i].fd /\ fd' \in DOMAIN peer /\ peer[fd'] = Head(rest)
           /\ Head(rest) \in Dests
           /\ requests' = IF fd' \in closing THEN requests
                          ELSE requests \cup {Request(fd', Head(rest))}
<1> PICK d : d = Head(rest)
  OBVIOUS
<1> PICK i : i = Min(Usable(d))
  OBVIOUS
<1> PICK f : f = mq_list[i].fd
  OBVIOUS
<1>1. /\ pc = "op" /\ Usable(d) # {}
      /\ mq_list' = [mq_list EXCEPT ![i].last_use = now]
      /\ fd' = f
      /\ requests' = IF f \in closing THEN requests ELSE requests \cup {Request(f, d)}
  BY Zenon DEF Reuse
<1>2. i \in 1 .. Slots /\ f \in DOMAIN peer /\ peer[f] = d /\ d \in Dests
  BY <1>1, UsableIs
<1> QED
  BY <1>1, <1>2, Zenon

\* The other steps: of the call, of the servers and of the network.
Starts == \E o \in Opts, list \in Lists : Start(o, list)
Executes == \E r \in requests, code \in {200, 400}, twice \in BOOLEAN : Execute(r, code, twice)
Arrives == \E f \in DOMAIN peer : Arrive(f)
ServerClosing == \E f \in DOMAIN peer : ServerCloses(f)

\* The steps of the specification in groups that touch the pool in the same way.
LEMMA Steps ==
  ASSUME [Next]_vars
  PROVE  \/ GivesUp \/ ShutsDown \/ Connect \/ Reuse
         \/ Starts \/ SkipBad \/ RecvAll \/ RecvHead \/ RecvBody \/ Tick
         \/ Executes \/ Arrives \/ ServerClosing \/ UNCHANGED vars
BY Zenon DEF Next, mq_op, Receive, GivesUp, ShutsDown, Starts, Executes, Arrives, ServerClosing

\* The steps that change the table or the set of sockets.
LEMMA TableSteps ==
  ASSUME [Next]_vars
  PROVE  GivesUp \/ ShutsDown \/ Connect \/ Reuse \/ (mq_list' = mq_list /\ peer' = peer)
<1>1. Starts => mq_list' = mq_list /\ peer' = peer
  BY Zenon DEF Starts, Start, socks
<1>2. SkipBad \/ Tick \/ UNCHANGED vars => mq_list' = mq_list /\ peer' = peer
  BY Zenon DEF SkipBad, Tick, socks, vars
<1>3. RecvAll \/ RecvHead \/ RecvBody => mq_list' = mq_list /\ peer' = peer
  BY Zenon DEF RecvAll, RecvHead, RecvBody, Consume
<1>4. Executes => mq_list' = mq_list /\ peer' = peer
  BY ZenonT(60) DEF Executes, Execute
<1>5. Arrives \/ ServerClosing => mq_list' = mq_list /\ peer' = peer
  BY Zenon DEF Arrives, ServerClosing, Arrive, ServerCloses
<1> QED
  BY <1>1, <1>2, <1>3, <1>4, <1>5, Steps, Zenon

\* The table keeps its type,
LEMMA TableType ==
  ASSUME TypeInv, PoolIsExact, [Next]_vars
  PROVE  mq_list' \in [1 .. Slots -> SlotType]
<1>1. mq_list \in [1 .. Slots -> SlotType]
  BY PoolTypes
<1>2. CASE GivesUp \/ ShutsDown
  BY <1>2, FreesSlots, Zenon DEF Frees
<1>3. CASE Connect
  <2>1. PICK S, f, d, k : Opens(S, f, d, k)
    BY <1>3, OpensSlot
  <2> QED
    BY <2>1, Zenon DEF Opens
<1>4. CASE Reuse
  <2>1. PICK i \in 1 .. Slots : mq_list' = [mq_list EXCEPT ![i].last_use = now]
    BY <1>4, Reused
  <2>2. now \in 0 .. MaxTime
    BY DEF TypeInv, PhpTypeOK
  <2> QED
    BY <1>1, <2>1, <2>2 DEF SlotType
<1>5. CASE mq_list' = mq_list /\ peer' = peer
  BY <1>1, <1>5
<1> QED
  BY <1>2, <1>3, <1>4, <1>5, TableSteps, Zenon

\* and slots and sockets keep matching.
LEMMA PoolKept ==
  ASSUME TypeInv, PoolIsExact, [Next]_vars
  PROVE  PoolIsExact'
<1>1. Exact(mq_list, peer)
  BY PoolIsExactHere
<1>2. DOMAIN peer \subseteq Fds /\ -1 \notin DOMAIN peer /\ -1 \notin Fds
      /\ mq_list \in [1 .. Slots -> SlotType]
  BY PoolTypes
<1>3. CASE GivesUp \/ ShutsDown
  <2>1. PICK S : Frees(S)
    BY <1>3, FreesSlots
  <2>2. peer' = Without(peer, S)
    BY <2>1 DEF Frees, Close
  <2>3. \A i \in 1 .. Slots :
          \/ /\ mq_list'[i].fd = mq_list[i].fd /\ mq_list'[i].dest = mq_list[i].dest
             /\ mq_list[i].fd \notin S
          \/ mq_list'[i].fd = -1 /\ mq_list[i].fd \in S \cup {-1}
    BY <2>1 DEF Frees
  <2>4. PICK list2 : list2 = mq_list'
    OBVIOUS
  <2>5. Exact(list2, Without(peer, S))
    BY <1>1, <1>2, <2>3, <2>4, ExactFreed
  <2> QED
    BY <2>2, <2>4, <2>5, PoolIsExactNext, Zenon
<1>4. CASE Connect
  <2>1. PICK S, f, d, k : Opens(S, f, d, k)
    BY <1>4, OpensSlot
  <2> DEFINE free == [fd |-> -1, dest |-> d, last_use |-> 0]
             list == [i \in 1 .. Slots |-> IF i = k THEN free ELSE mq_list'[i]]
             open == Without(peer, S)
  <2>2. k \in 1 .. Slots /\ mq_list[k].fd \in S \cup {-1}
    BY <2>1, Zenon DEF Opens
  <2>3. \A i \in 1 .. Slots : i # k =>
          /\ \/ /\ mq_list'[i].fd = mq_list[i].fd /\ mq_list'[i].dest = mq_list[i].dest
                /\ mq_list[i].fd \notin S
             \/ mq_list'[i].fd = -1 /\ mq_list[i].fd \in S \cup {-1}
          /\ mq_list'[i].fd # -1 => mq_list'[i].dest # d
    BY <2>1, Zenon DEF Opens
  <2>4. list[k].fd = -1 /\ \A i \in 1 .. Slots : i # k => list[i] = mq_list'[i]
    BY <2>2
  <2> HIDE DEF list
  <2>5. \A i \in 1 .. Slots :
          \/ list[i].fd = mq_list[i].fd /\ list[i].dest = mq_list[i].dest /\ mq_list[i].fd \notin S
          \/ list[i].fd = -1 /\ mq_list[i].fd \in S \cup {-1}
    BY <2>2, <2>3, <2>4
  <2>6. Exact(list, open)
    BY <1>1, <1>2, <2>5, ExactFreed
  <2>7. f \in Fds /\ f \notin DOMAIN peer \ S /\ mq_list'[k].fd = f /\ mq_list'[k].dest = d
    BY <2>1, Zenon DEF Opens
  <2>8. DOMAIN open = DOMAIN peer \ S
    BY WithoutIs
  <2> HIDE DEF open
  <2>9. \A i \in 1 .. Slots : list[i].fd # -1 => list[i].dest # d
    BY <2>3, <2>4
  <2>10. PICK list2 : list2 = mq_list'
    OBVIOUS
  <2>11. \A i \in 1 .. Slots : i # k => list2[i].fd = list[i].fd /\ list2[i].dest = list[i].dest
    BY <2>4, <2>10
  <2>12. f # -1 /\ f \notin DOMAIN open /\ -1 \notin DOMAIN open
    BY <1>2, <2>7, <2>8
  <2>13. list2[k].fd = f /\ list2[k].dest = d /\ list[k].fd = -1
    BY <2>4, <2>7, <2>10
  <2>14. Exact(list2, With(open, f, d))
    BY <2>2, <2>6, <2>9, <2>11, <2>12, <2>13, ExactOpened
  <2>15. peer' = With(open, f, d)
    BY <2>1, Zenon DEF Opens, Opened, open
  <2> QED
    BY <2>10, <2>14, <2>15, PoolIsExactNext, Zenon
<1>5. CASE Reuse
  <2>1. PICK i \in 1 .. Slots : mq_list' = [mq_list EXCEPT ![i].last_use = now]
    BY <1>5, Reused
  <2>2. \A j \in 1 .. Slots : mq_list'[j].fd = mq_list[j].fd /\ mq_list'[j].dest = mq_list[j].dest
    BY <1>2, <2>1 DEF SlotType
  <2>3. peer' = peer
    BY <1>5, Zenon DEF Reuse
  <2> QED
    BY <2>2, <2>3 DEF PoolIsExact
<1>6. CASE mq_list' = mq_list /\ peer' = peer
  BY <1>6 DEF PoolIsExact
<1> QED
  BY <1>3, <1>4, <1>5, <1>6, TableSteps, Zenon

(***************************************************************************)
(* Types                                                                   *)
(***************************************************************************)

ConnType ==
  /\ DOMAIN peer \subseteq Fds /\ \A f \in DOMAIN peer : peer[f] \in Dests
  /\ DOMAIN stream = DOMAIN peer /\ DOMAIN arrived = DOMAIN peer
  /\ \A f \in DOMAIN peer : stream[f] \in Seq(Part) /\ arrived[f] \in 0 .. Len(stream[f])
  /\ closing \subseteq DOMAIN peer /\ tainted \subseteq DOMAIN peer

\* What is left when the first n parts are read.
LEMMA CutType ==
  ASSUME NEW q \in Seq(Part), NEW n \in 0 .. Len(q)
  PROVE  /\ SubSeq(q, n + 1, Len(q)) \in Seq(Part)
         /\ Len(SubSeq(q, n + 1, Len(q))) = Len(q) - n
         /\ \A i \in 1 .. (Len(q) - n) : SubSeq(q, n + 1, Len(q))[i] = q[i + n]
<1>1. Len(q) \in Nat /\ \A i \in 1 .. Len(q) : q[i] \in Part
  BY ElementOfSeq, LenProperties
<1>2. \A i \in (n + 1) .. Len(q) : q[i] \in Part
  BY <1>1
<1>3. /\ SubSeq(q, n + 1, Len(q)) \in Seq(Part)
      /\ Len(SubSeq(q, n + 1, Len(q))) = IF n + 1 <= Len(q) THEN Len(q) - (n + 1) + 1 ELSE 0
      /\ \A i \in 1 .. (Len(q) - (n + 1) + 1) : SubSeq(q, n + 1, Len(q))[i] = q[(n + 1) + i - 1]
  BY <1>1, <1>2, SubSeqProperties
<1> QED
  BY <1>1, <1>3

\* What a server writes in answer to one request.
LEMMA ReplyType ==
  ASSUME NEW c \in 1 .. MaxCalls, NEW code \in {200, 400}, NEW reply,
         reply = <<[kind |-> "head", call |-> c, code |-> code],
                   [kind |-> "body", call |-> c, code |-> code]>>
  PROVE  /\ reply \in Seq(Part) /\ Len(reply) = 2
         /\ reply[1].call = c /\ reply[2].call = c /\ reply[1].code = code
<1>1. /\ [kind |-> "head", call |-> c, code |-> code] \in Part
      /\ [kind |-> "body", call |-> c, code |-> code] \in Part
  BY DEF Part, Code
<1> QED
  BY <1>1

\* Reading n parts takes them from the front of the own connection.
LEMMA Consumed ==
  ASSUME ConnType, fd \in DOMAIN peer, NEW n \in {1, 2}, n <= arrived[fd], Consume(n)
  PROVE  /\ peer' = peer /\ closing' = closing /\ requests' = requests /\ tainted' = tainted
         /\ DOMAIN stream' = DOMAIN peer /\ DOMAIN arrived' = DOMAIN peer
         /\ stream'[fd] \in Seq(Part) /\ Len(stream'[fd]) = Len(stream[fd]) - n
         /\ \A i \in 1 .. (Len(stream[fd]) - n) : stream'[fd][i] = stream[fd][i + n]
         /\ arrived'[fd] \in 0 .. Len(stream'[fd])
         /\ \A f \in DOMAIN peer \ {fd} : stream'[f] = stream[f] /\ arrived'[f] = arrived[f]
<1> PICK q : q = stream[fd]
  OBVIOUS
<1>1. q \in Seq(Part) /\ arrived[fd] \in 0 .. Len(q) /\ Len(q) \in Nat
      /\ DOMAIN stream = DOMAIN peer /\ DOMAIN arrived = DOMAIN peer
  BY LenProperties DEF ConnType
<1>2. n \in 0 .. Len(q)
  BY <1>1
<1>3. /\ SubSeq(q, n + 1, Len(q)) \in Seq(Part)
      /\ Len(SubSeq(q, n + 1, Len(q))) = Len(q) - n
      /\ \A i \in 1 .. (Len(q) - n) : SubSeq(q, n + 1, Len(q))[i] = q[i + n]
  BY <1>1, <1>2, CutType
<1> PICK cut : cut = SubSeq(q, n + 1, Len(q))
  OBVIOUS
<1>4. /\ stream' = [stream EXCEPT ![fd] = cut]
      /\ arrived' = [arrived EXCEPT ![fd] = arrived[fd] - n]
      /\ peer' = peer /\ closing' = closing /\ requests' = requests /\ tainted' = tainted
  BY DEF Consume
<1>5. arrived[fd] - n \in 0 .. (Len(q) - n)
  BY <1>1
<1>6. stream'[fd] = cut /\ arrived'[fd] = arrived[fd] - n
  BY <1>1, <1>4
<1>7. \A f \in DOMAIN peer \ {fd} : stream'[f] = stream[f] /\ arrived'[f] = arrived[f]
  BY <1>1, <1>4
<1>8. DOMAIN stream' = DOMAIN peer /\ DOMAIN arrived' = DOMAIN peer
  BY <1>1, <1>4
<1>9. /\ cut \in Seq(Part) /\ Len(cut) = Len(q) - n
      /\ \A i \in 1 .. (Len(q) - n) : cut[i] = q[i + n]
  BY <1>3, Zenon
<1>10. arrived[fd] - n \in 0 .. Len(cut)
  BY <1>5, <1>9, Zenon
<1> QED
  BY <1>4, <1>6, <1>7, <1>8, <1>9, <1>10, Zenon

\* A call that waits has a socket, and takes what has arrived on it.
LEMMA Receives ==
  ASSUME TypeInv, RecvAll \/ RecvHead \/ RecvBody
  PROVE  /\ fd \in DOMAIN peer
         /\ \E n \in {1, 2} : /\ n <= arrived[fd] /\ Consume(n)
                              /\ (n = 2 <=> RecvAll)
<1>1. fd \in DOMAIN peer
  <2>1. pc \in {"head", "body"}
    BY DEF RecvAll, RecvHead, RecvBody
  <2> QED
    BY <2>1 DEF TypeInv, PhpTypeOK
<1>2. arrived[fd] \in Nat
  <2>1. arrived[fd] \in 0 .. Len(stream[fd])
    BY <1>1 DEF TypeInv, PhpTypeOK
  <2> QED
    BY <2>1
<1>3. CASE RecvAll
  <2>1. 2 <= arrived[fd] /\ Consume(2)
    BY <1>2, <1>3 DEF RecvAll
  <2> QED
    BY <1>1, <1>3, <2>1
<1>4. CASE RecvHead \/ RecvBody
  <2>1. 1 <= arrived[fd] /\ Consume(1)
    BY <1>2, <1>4 DEF RecvHead, RecvBody
  <2>2. ~RecvAll
    <3>1. CASE RecvHead
      BY <3>1 DEF RecvHead, RecvAll
    <3>2. CASE RecvBody
      BY <3>2 DEF RecvBody, RecvAll
    <3> QED
      BY <1>4, <3>1, <3>2
  <2>3. 1 # 2
    OBVIOUS
  <2> QED
    BY <1>1, <2>1, <2>2, <2>3, Zenon
<1> QED
  BY <1>3, <1>4

\* A server's answer to r, on the connection the request came over.
LEMMA Executed ==
  ASSUME TypeInv, RequestsOK,
         NEW r \in requests, NEW code \in {200, 400}, NEW twice \in BOOLEAN,
         Execute(r, code, twice)
  PROVE  /\ peer' = peer /\ closing' = closing /\ arrived' = arrived
         /\ r.call \in 1 .. MaxCalls /\ r.srv \in Dests /\ r.opt \in Opts
         /\ r.fd \in DOMAIN peer \cup {-1}
         /\ DOMAIN stream' = DOMAIN peer
         /\ \A f \in DOMAIN peer : f # r.fd => stream'[f] = stream[f]
         /\ r.fd # -1 =>
              /\ stream'[r.fd] \in Seq(Part)
              /\ Len(stream[r.fd]) \in Nat /\ Len(stream'[r.fd]) >= Len(stream[r.fd])
              /\ ~twice /\ stream[r.fd] = << >> =>
                   /\ Len(stream'[r.fd]) = 2
                   /\ stream'[r.fd][1].call = r.call /\ stream'[r.fd][2].call = r.call
                   /\ stream'[r.fd][1].code = code
<1>1. /\ r.call \in 1 .. MaxCalls /\ r.srv \in Dests /\ r.opt \in Opts
      /\ DOMAIN stream = DOMAIN peer /\ -1 \notin DOMAIN peer
  BY PoolTypes DEF TypeInv, PhpTypeOK
<1>2. r.call \in 1 .. MaxCalls
  BY <1>1
<1>3. r.fd \in DOMAIN peer \cup {-1}
  BY DEF RequestsOK
<1> DEFINE reply == <<[kind |-> "head", call |-> r.call, code |-> code],
                      [kind |-> "body", call |-> r.call, code |-> code]>>
<1>4. /\ peer' = peer /\ closing' = closing /\ arrived' = arrived
      /\ stream' = IF r.fd = -1 THEN stream
                   ELSE [stream EXCEPT ![r.fd] =
                           stream[r.fd] \o IF twice THEN reply \o reply ELSE reply]
  BY Zenon DEF Execute
<1>5. /\ reply \in Seq(Part) /\ Len(reply) = 2
      /\ reply[1].call = r.call /\ reply[2].call = r.call /\ reply[1].code = code
  <2> PICK c : c = r.call
    OBVIOUS
  <2> PICK w : w = reply
    OBVIOUS
  <2>1. /\ c \in 1 .. MaxCalls
        /\ w = <<[kind |-> "head", call |-> c, code |-> code],
                 [kind |-> "body", call |-> c, code |-> code]>>
    BY <1>2, Zenon
  <2>2. /\ w \in Seq(Part) /\ Len(w) = 2
        /\ w[1].call = c /\ w[2].call = c /\ w[1].code = code
    BY <2>1, ReplyType
  <2> HIDE DEF reply
  <2> QED
    BY <2>2, Zenon
<1> HIDE DEF reply
<1>6. CASE r.fd = -1
  <2>1. stream' = stream
    BY <1>4, <1>6, Zenon
  <2> QED
    BY <1>1, <1>3, <1>4, <1>6, <2>1, Zenon
<1>7. CASE r.fd # -1
  <2>1. r.fd \in DOMAIN peer
    BY <1>3, <1>7
  <2> PICK f : f = r.fd
    OBVIOUS
  <2> PICK q : q = stream[f]
    OBVIOUS
  <2> PICK out : out = IF twice THEN reply \o reply ELSE reply
    OBVIOUS
  <2>2. q \in Seq(Part) /\ Len(q) \in Nat
    BY <2>1, LenProperties DEF TypeInv, PhpTypeOK
  <2>3. out \in Seq(Part) /\ Len(out) \in Nat
    BY <1>5, ConcatProperties, LenProperties
  <2>4. /\ q \o out \in Seq(Part) /\ Len(q \o out) = Len(q) + Len(out)
    BY <2>2, <2>3, ConcatProperties
  <2>5. stream' = [stream EXCEPT ![f] = q \o out]
    BY <1>4, <1>7, Zenon
  <2>6. stream'[f] = q \o out /\ DOMAIN stream' = DOMAIN peer
        /\ \A g \in DOMAIN peer : g # f => stream'[g] = stream[g]
    BY <1>1, <2>1, <2>5
  <2>7. Len(q \o out) >= Len(q)
    <3>1. \A a, b \in Nat : a + b >= a
      OBVIOUS
    <3> QED
      BY <2>2, <2>3, <2>4, <3>1, Zenon
  <2>8. ASSUME ~twice, q = << >>
        PROVE  q \o out = reply
    <3>1. out = reply
      BY <2>8
    <3> QED
      BY <1>5, <2>8, <3>1, ConcatEmptySeq
  <2>9. /\ stream'[f] \in Seq(Part) /\ Len(stream[f]) \in Nat
        /\ Len(stream'[f]) >= Len(stream[f])
    BY <2>2, <2>4, <2>6, <2>7, Zenon
  <2>10. ~twice /\ stream[f] = << >> =>
           /\ Len(stream'[f]) = 2
           /\ stream'[f][1].call = r.call /\ stream'[f][2].call = r.call
           /\ stream'[f][1].code = code
    BY <1>5, <2>6, <2>8, Zenon
  <2> QED
    BY <1>1, <1>3, <1>4, <2>6, <2>9, <2>10, Zenon
<1> QED
  BY <1>6, <1>7

\* The connections after some were closed.
LEMMA AfterClose ==
  ASSUME ConnType, NEW S, Frees(S)
  PROVE  /\ closing' = closing \ S /\ tainted' = tainted \ S
         /\ DOMAIN peer' = DOMAIN peer \ S /\ DOMAIN stream' = DOMAIN peer'
         /\ DOMAIN arrived' = DOMAIN peer'
         /\ \A f \in DOMAIN peer \ S :
              peer'[f] = peer[f] /\ stream'[f] = stream[f] /\ arrived'[f] = arrived[f]
<1>2. /\ peer' = Without(peer, S) /\ stream' = Without(stream, S)
      /\ arrived' = Without(arrived, S) /\ closing' = closing \ S /\ tainted' = tainted \ S
  BY Zenon DEF Frees, Close
<1>3. /\ DOMAIN peer' = DOMAIN peer \ S /\ DOMAIN stream' = DOMAIN stream \ S
      /\ DOMAIN arrived' = DOMAIN arrived \ S
  BY <1>2, WithoutIs, Zenon
<1>4. DOMAIN stream = DOMAIN peer /\ DOMAIN arrived = DOMAIN peer
  BY DEF ConnType
<1>5. \A f \in DOMAIN peer \ S :
        peer'[f] = peer[f] /\ stream'[f] = stream[f] /\ arrived'[f] = arrived[f]
  BY <1>2, <1>4, WithoutIs, Zenon
<1> QED
  BY <1>2, <1>3, <1>4, <1>5

\* The connections after one was opened, maybe under the number of a closed one.
LEMMA AfterOpen ==
  ASSUME ConnType, NEW S, NEW f, NEW d, NEW k, Opens(S, f, d, k)
  PROVE  /\ DOMAIN peer' = (DOMAIN peer \ S) \cup {f}
         /\ DOMAIN stream' = DOMAIN peer' /\ DOMAIN arrived' = DOMAIN peer'
         /\ peer'[f] = d /\ stream'[f] = << >> /\ arrived'[f] = 0
         /\ \A g \in DOMAIN peer \ S : g # f =>
              peer'[g] = peer[g] /\ stream'[g] = stream[g] /\ arrived'[g] = arrived[g]
<1>2. /\ peer' = Opened(peer, S, f, d) /\ stream' = Opened(stream, S, f, << >>)
      /\ arrived' = Opened(arrived, S, f, 0) /\ f \in Fds /\ d \in Dests
  BY Zenon DEF Opens
<1>3. closing' = closing \ (S \cup {f}) /\ tainted' = tainted \ (S \cup {f})
  BY Zenon DEF Opens
<1>4. /\ DOMAIN peer' = (DOMAIN peer \ S) \cup {f}
      /\ DOMAIN stream' = (DOMAIN stream \ S) \cup {f}
      /\ DOMAIN arrived' = (DOMAIN arrived \ S) \cup {f}
  BY <1>2 DEF Opened, With, Without
<1>5. DOMAIN stream = DOMAIN peer /\ DOMAIN arrived = DOMAIN peer
  BY DEF ConnType
<1>6. peer'[f] = d /\ stream'[f] = << >> /\ arrived'[f] = 0
  <2>1. peer'[f] = d
    BY <1>2, OpenedIs
  <2>2. stream'[f] = << >>
    BY <1>2, OpenedIs
  <2>3. arrived'[f] = 0
    BY <1>2, OpenedIs
  <2> QED
    BY <2>1, <2>2, <2>3
<1>7. \A g \in DOMAIN peer \ S : g # f =>
        peer'[g] = peer[g] /\ stream'[g] = stream[g] /\ arrived'[g] = arrived[g]
  <2>1. \A g \in DOMAIN peer \ S : g # f => peer'[g] = peer[g]
    BY <1>2, OpenedIs
  <2>2. \A g \in DOMAIN stream \ S : g # f => stream'[g] = stream[g]
    BY <1>2, OpenedIs
  <2>3. \A g \in DOMAIN arrived \ S : g # f => arrived'[g] = arrived[g]
    BY <1>2, OpenedIs
  <2> QED
    BY <1>5, <2>1, <2>2, <2>3
<1> QED
  BY <1>4, <1>5, <1>6, <1>7

\* Every step keeps the types of the connections.
LEMMA ConnTypeKept ==
  ASSUME TypeInv, PoolIsExact, RequestsOK, [Next]_vars
  PROVE  ConnType'
<1>1. ConnType
  BY DEF TypeInv, PhpTypeOK, ConnType
<1>2. CASE GivesUp \/ ShutsDown
  <2>1. PICK S : Frees(S)
    BY <1>2, FreesSlots
  <2>2. /\ closing' = closing \ S /\ tainted' = tainted \ S
        /\ DOMAIN peer' = DOMAIN peer \ S /\ DOMAIN stream' = DOMAIN peer'
        /\ DOMAIN arrived' = DOMAIN peer'
        /\ \A f \in DOMAIN peer \ S :
             peer'[f] = peer[f] /\ stream'[f] = stream[f] /\ arrived'[f] = arrived[f]
    BY <1>1, <2>1, AfterClose
  <2> QED
    BY <1>1, <2>2 DEF ConnType
<1>3. CASE Connect
  <2>1. PICK S, f, d, k : Opens(S, f, d, k)
    BY <1>3, OpensSlot
  <2>2. f \in Fds /\ d \in Dests
    BY <2>1, Zenon DEF Opens
  <2>3. closing' = closing \ (S \cup {f}) /\ tainted' = tainted \ (S \cup {f})
    BY <2>1, Zenon DEF Opens
  <2>4. /\ DOMAIN peer' = (DOMAIN peer \ S) \cup {f}
        /\ DOMAIN stream' = DOMAIN peer' /\ DOMAIN arrived' = DOMAIN peer'
    BY <1>1, <2>1, AfterOpen
  <2>6. peer'[f] = d /\ stream'[f] = << >> /\ arrived'[f] = 0
    BY <1>1, <2>1, AfterOpen
  <2>7. \A g \in DOMAIN peer \ S : g # f =>
          peer'[g] = peer[g] /\ stream'[g] = stream[g] /\ arrived'[g] = arrived[g]
    BY <1>1, <2>1, AfterOpen
  <2>8. << >> \in Seq(Part) /\ 0 \in 0 .. Len(<< >>)
    BY EmptySeq
  <2>9. \A g \in DOMAIN peer' : stream'[g] \in Seq(Part) /\ arrived'[g] \in 0 .. Len(stream'[g])
    <3> TAKE g \in DOMAIN peer'
    <3>1. CASE g = f
      BY <2>6, <2>8, <3>1, Zenon
    <3>2. CASE g # f
      <4>1. g \in DOMAIN peer \ S
        BY <2>4, <3>2
      <4> QED
        BY <1>1, <2>7, <3>2, <4>1, Zenon DEF ConnType
    <3> QED
      BY <3>1, <3>2
  <2>10. \A g \in DOMAIN peer' : peer'[g] \in Dests
    BY <1>1, <2>2, <2>4, <2>6, <2>7 DEF ConnType
  <2>11. DOMAIN peer' \subseteq Fds /\ closing' \subseteq DOMAIN peer' /\ tainted' \subseteq DOMAIN peer'
    BY <1>1, <2>2, <2>3, <2>4 DEF ConnType
  <2> QED
    BY <2>4, <2>9, <2>10, <2>11 DEF ConnType
<1>4. CASE Reuse
  <2>1. /\ peer' = peer /\ closing' = closing /\ stream' = stream /\ arrived' = arrived
        /\ tainted' = tainted
    BY <1>4, Zenon DEF Reuse
  <2> QED
    BY <1>1, <2>1 DEF ConnType
<1>5. CASE Starts \/ SkipBad \/ Tick \/ UNCHANGED vars
  <2>1. UNCHANGED socks
    BY <1>5, Zenon DEF Starts, Start, SkipBad, Tick, vars
  <2> QED
    BY <1>1, <2>1 DEF ConnType, socks
<1>6. CASE RecvAll \/ RecvHead \/ RecvBody
  <2>1. PICK n \in {1, 2} : n <= arrived[fd] /\ Consume(n)
    BY <1>6, Receives
  <2>2. fd \in DOMAIN peer
    BY <1>6, Receives
  <2>3. /\ peer' = peer /\ closing' = closing /\ tainted' = tainted
        /\ DOMAIN stream' = DOMAIN peer /\ DOMAIN arrived' = DOMAIN peer
        /\ stream'[fd] \in Seq(Part)
        /\ arrived'[fd] \in 0 .. Len(stream'[fd])
        /\ \A f \in DOMAIN peer \ {fd} : stream'[f] = stream[f] /\ arrived'[f] = arrived[f]
    BY <1>1, <2>1, <2>2, Consumed
  <2>4. \A f \in DOMAIN peer : stream'[f] \in Seq(Part) /\ arrived'[f] \in 0 .. Len(stream'[f])
    <3> TAKE f \in DOMAIN peer
    <3>1. CASE f = fd
      BY <2>3, <3>1, Zenon
    <3>2. CASE f # fd
      <4>1. stream'[f] = stream[f] /\ arrived'[f] = arrived[f]
        BY <2>3, <3>2
      <4> QED
        BY <1>1, <4>1, Zenon DEF ConnType
    <3> QED
      BY <3>1, <3>2
  <2> QED
    BY <1>1, <2>3, <2>4, Zenon DEF ConnType
<1>7. CASE Executes
  <2>1. PICK r \in requests, code \in {200, 400}, twice \in BOOLEAN : Execute(r, code, twice)
    BY <1>7 DEF Executes
  <2>2. /\ peer' = peer /\ closing' = closing /\ arrived' = arrived
        /\ r.fd \in DOMAIN peer \cup {-1} /\ DOMAIN stream' = DOMAIN peer
        /\ \A f \in DOMAIN peer : f # r.fd => stream'[f] = stream[f]
        /\ r.fd # -1 =>
             /\ stream'[r.fd] \in Seq(Part)
             /\ Len(stream[r.fd]) \in Nat /\ Len(stream'[r.fd]) >= Len(stream[r.fd])
    BY <2>1, Executed
  <2>3. tainted' \subseteq DOMAIN peer
    <3>1. tainted' = tainted \/ (r.fd # -1 /\ tainted' = tainted \cup {r.fd})
      BY <2>1, Zenon DEF Execute
    <3> QED
      BY <1>1, <2>2, <3>1 DEF ConnType
  <2>4. \A f \in DOMAIN peer : stream'[f] \in Seq(Part) /\ arrived'[f] \in 0 .. Len(stream'[f])
    <3> TAKE f \in DOMAIN peer
    <3>1. stream[f] \in Seq(Part) /\ arrived[f] \in 0 .. Len(stream[f]) /\ arrived'[f] = arrived[f]
      BY <1>1, <2>2 DEF ConnType
    <3>2. CASE f = r.fd
      <4>1. f # -1
        BY PoolTypes
      <4>2. stream'[f] \in Seq(Part) /\ Len(stream[f]) \in Nat /\ Len(stream'[f]) >= Len(stream[f])
        BY <2>2, <3>2, <4>1, Zenon
      <4>3. Len(stream'[f]) \in Nat
        BY <4>2, LenProperties
      <4> PICK a : a = arrived[f]
        OBVIOUS
      <4> PICK b : b = Len(stream[f])
        OBVIOUS
      <4> PICK c : c = Len(stream'[f])
        OBVIOUS
      <4>4. a \in 0 .. b /\ b \in Nat /\ c \in Nat /\ c >= b
        BY <3>1, <4>2, <4>3, Zenon
      <4>5. a \in 0 .. c
        BY <4>4
      <4> QED
        BY <3>1, <4>2, <4>5, Zenon
    <3>3. CASE f # r.fd
      <4>1. stream'[f] = stream[f]
        BY <2>2, <3>3
      <4> QED
        BY <3>1, <4>1, Zenon
    <3> QED
      BY <3>2, <3>3
  <2>5. ConnType
    BY <1>1
  <2> QED
    BY <2>2, <2>3, <2>4, <2>5, Zenon DEF ConnType
<1>8. CASE Arrives
  <2>1. PICK f \in DOMAIN peer : Arrive(f)
    BY <1>8 DEF Arrives
  <2>2. PICK n \in {arrived[f] + 1, Len(stream[f])} : arrived' = [arrived EXCEPT ![f] = n]
    BY <2>1 DEF Arrive
  <2>3. n \in 0 .. Len(stream[f])
    <3>1. /\ arrived[f] \in 0 .. Len(stream[f]) /\ Len(stream[f]) \in Nat
          /\ arrived[f] < Len(stream[f])
      BY <1>1, <2>1, LenProperties DEF ConnType, Arrive
    <3> QED
      BY <3>1
  <2>4. /\ peer' = peer /\ closing' = closing /\ stream' = stream /\ tainted' = tainted
    BY <2>1, Zenon DEF Arrive
  <2> QED
    BY <1>1, <2>2, <2>3, <2>4 DEF ConnType
<1>9. CASE ServerClosing
  <2>1. PICK f \in DOMAIN peer : ServerCloses(f)
    BY <1>9 DEF ServerClosing
  <2>2. /\ peer' = peer /\ closing' = closing \cup {f} /\ stream' = stream /\ tainted' = tainted
        /\ arrived' = arrived
    BY <2>1, Zenon DEF ServerCloses
  <2> QED
    BY <1>1, <2>2 DEF ConnType
<1> QED
  BY <1>2, <1>3, <1>4, <1>5, <1>6, <1>7, <1>8, <1>9, Steps, Zenon

RequestType == [call: 1 .. MaxCalls, opt: Opts, srv: Dests, fd: Fds \cup {-1}]

\* A call that has not ended has a server left to try.
LEMMA RestType ==
  ASSUME TypeInv, pc # "idle"
  PROVE  /\ Head(rest) \in Dests \cup {BadDest} /\ Tail(rest) \in Seq(Dests \cup {BadDest})
         /\ Len(rest) \in Nat \ {0} /\ Len(Tail(rest)) = Len(rest) - 1
         /\ (Len(rest) > 1 => Tail(rest) # << >>)
<1>1. rest \in Seq(Dests \cup {BadDest}) /\ rest # << >>
  BY DEF TypeInv, PhpTypeOK
<1>2. /\ Head(rest) \in Dests \cup {BadDest} /\ Tail(rest) \in Seq(Dests \cup {BadDest})
      /\ Len(Tail(rest)) = Len(rest) - 1
  BY <1>1, HeadTailProperties
<1>3. Len(rest) \in Nat \ {0}
  <2>1. Len(rest) \in Nat
    BY <1>1, LenProperties
  <2>2. Len(rest) # 0
    BY <1>1, EmptySeq
  <2> QED
    BY <2>1, <2>2
<1>4. Len(rest) > 1 => Tail(rest) # << >>
  <2>1. ASSUME Tail(rest) = << >> PROVE Len(rest) = 1
    <3>1. Len(<< >>) = 0
      OBVIOUS
    <3>2. Len(rest) - 1 = 0
      BY <1>2, <2>1, <3>1, Zenon
    <3> QED
      BY <1>3, <3>2
  <2>2. ~(1 > 1)
    OBVIOUS
  <2> QED
    BY <2>1, <2>2, Zenon
<1> QED
  BY <1>2, <1>3, <1>4

\* A call is made with at least one address.
LEMMA ListsAreLists == Lists \subseteq Seq(Dests \cup {BadDest}) \ {<< >>}
<1> SUFFICES ASSUME NEW l \in Lists PROVE l \in Seq(Dests \cup {BadDest}) \ {<< >>}
  OBVIOUS
<1>1. PICK n \in 1 .. MaxTry : l \in [1 .. n -> Dests \cup {BadDest}]
  BY DEF Lists
<1>2. n \in Nat /\ 1 \in 1 .. n
  BY <1>1, PhpAssumption
<1>3. l \in Seq(Dests \cup {BadDest})
  BY <1>1, <1>2
<1>4. DOMAIN l # {}
  BY <1>1, <1>2
<1>5. l # << >>
  BY <1>4
<1> QED
  BY <1>3, <1>5

\* Requests on sockets that are gone stay the same but for the socket.
LEMMA OrphanedIs ==
  ASSUME requests \subseteq RequestType, NEW S, NEW r \in Orphaned(S)
  PROVE  \/ r \in requests /\ r.fd \notin S
         \/ /\ r \in RequestType /\ r.fd = -1 /\ r.opt = "put"
            /\ \E q \in requests : /\ q.fd \in S /\ q.call = r.call /\ q.opt = "put"
                                   /\ q.srv = r.srv
<1>1. CASE r \in requests /\ r.fd \notin S
  BY <1>1
<1>2. CASE ~(r \in requests /\ r.fd \notin S)
  <2>1. PICK q \in requests : q.fd \in S /\ q.opt = "put" /\ r = [q EXCEPT !.fd = -1]
    BY <1>2 DEF Orphaned
  <2>2. q \in RequestType
    BY <2>1
  <2>3. r \in RequestType /\ r.fd = -1 /\ r.opt = q.opt /\ r.call = q.call /\ r.srv = q.srv
    BY <2>1, <2>2 DEF RequestType
  <2> QED
    BY <2>1, <2>3
<1> QED
  BY <1>1, <1>2

\* The request a call writes carries its own number.
LEMMA NewRequest ==
  ASSUME TypeInv, pc = "op", NEW f \in Fds, NEW d \in Dests
  PROVE  /\ Request(f, d) \in RequestType
         /\ Request(f, d).call = call /\ Request(f, d).opt = opt
         /\ Request(f, d).srv = d /\ Request(f, d).fd = f
<1>1. call \in 1 .. MaxCalls /\ opt \in Opts
  BY DEF TypeInv, PhpTypeOK
<1> QED
  BY <1>1 DEF Request, RequestType

\* Where the requests of the next state come from.
LEMMA RequestSteps ==
  ASSUME TypeInv, PoolIsExact, [Next]_vars, NEW r \in requests'
  PROVE  \/ r \in requests
         \/ /\ GivesUp \/ ShutsDown \/ Connect
            /\ r \in RequestType /\ r.fd = -1 /\ r.opt = "put"
            /\ \E q \in requests : q.call = r.call /\ q.opt = "put" /\ q.srv = r.srv
         \/ /\ Connect \/ Reuse
            /\ r \in RequestType /\ r.call = call /\ r.opt = opt /\ r.srv = Head(rest)
            /\ r.fd = fd' /\ fd' \in Fds
<1>1. requests \subseteq RequestType
  BY DEF TypeInv, PhpTypeOK, RequestType
<1>2. CASE GivesUp \/ ShutsDown
  <2>1. PICK S : Frees(S)
    BY <1>2, FreesSlots
  <2>2. r \in Orphaned(S)
    BY <2>1, Zenon DEF Frees, Close
  <2> QED
    BY <1>1, <1>2, <2>2, OrphanedIs
<1>3. CASE Connect
  <2>1. PICK S, f, d, k : Opens(S, f, d, k)
    BY <1>3, OpensSlot
  <2>2. /\ f \in Fds /\ d = Head(rest) /\ d \in Dests /\ fd' = f
        /\ r \in Orphaned(S) \cup {Request(f, d)}
    BY <2>1, Zenon DEF Opens
  <2>3. CASE r \in Orphaned(S)
    BY <1>1, <1>3, <2>3, OrphanedIs
  <2>4. CASE r = Request(f, d)
    <3>1. pc = "op"
      BY <1>3, Zenon DEF Connect
    <3>2. /\ Request(f, d) \in RequestType /\ Request(f, d).call = call
          /\ Request(f, d).opt = opt /\ Request(f, d).srv = d /\ Request(f, d).fd = f
      BY <2>2, <3>1, NewRequest
    <3> QED
      BY <1>3, <2>2, <2>4, <3>2, Zenon
  <2> QED
    BY <2>2, <2>3, <2>4
<1>4. CASE Reuse
  <2>1. PICK f : f = fd'
    OBVIOUS
  <2>2. /\ f \in DOMAIN peer /\ Head(rest) \in Dests
        /\ requests' = IF f \in closing THEN requests ELSE requests \cup {Request(f, Head(rest))}
    BY <1>4, <2>1, Reused
  <2>3. f \in Fds
    BY <2>2, PoolTypes
  <2>4. pc = "op"
    BY <1>4, Zenon DEF Reuse
  <2>5. r \in requests \/ r = Request(f, Head(rest))
    BY <2>2
  <2>6. PICK d : d = Head(rest)
    OBVIOUS
  <2>7. /\ Request(f, d) \in RequestType /\ Request(f, d).call = call
        /\ Request(f, d).opt = opt /\ Request(f, d).srv = d /\ Request(f, d).fd = f
    BY <2>2, <2>3, <2>4, <2>6, NewRequest
  <2> QED
    BY <1>4, <2>1, <2>3, <2>5, <2>6, <2>7, Zenon
<1>5. CASE Starts \/ SkipBad \/ Tick \/ UNCHANGED vars
  <2>1. requests' = requests
    BY <1>5, Zenon DEF Starts, Start, SkipBad, Tick, vars, socks
  <2> QED
    BY <2>1
<1>6. CASE RecvAll \/ RecvHead \/ RecvBody
  <2>1. requests' = requests
    BY <1>6, Zenon DEF RecvAll, RecvHead, RecvBody, Consume
  <2> QED
    BY <2>1
<1>7. CASE Executes \/ Arrives \/ ServerClosing
  <2>1. Executes => requests' \subseteq requests
    BY ZenonT(60) DEF Executes, Execute
  <2>2. Arrives => requests' \subseteq requests
    BY Zenon DEF Arrives, Arrive
  <2>3. ServerClosing => requests' \subseteq requests
    BY Zenon DEF ServerClosing, ServerCloses
  <2>4. requests' \subseteq requests
    BY <1>7, <2>1, <2>2, <2>3
  <2> QED
    BY <2>4
<1> QED
  BY <1>2, <1>3, <1>4, <1>5, <1>6, <1>7, Steps, Zenon

\* The part a call reads first is the front of its connection.
LEMMA FirstTaken ==
  ASSUME TypeInv, fd \in DOMAIN peer, arrived[fd] >= 1
  PROVE  /\ Len(stream[fd]) >= 1 /\ Len(stream[fd]) \in Nat /\ arrived[fd] \in 0 .. Len(stream[fd])
         /\ Taken[1] = stream[fd][1] /\ Head(stream[fd]) = stream[fd][1]
         /\ stream[fd][1].call \in 1 .. MaxCalls /\ stream[fd][1].code \in Code
<1> PICK q : q = stream[fd]
  OBVIOUS
<1> PICK a : a = arrived[fd]
  OBVIOUS
<1>1. q \in Seq(Part) /\ a \in 0 .. Len(q) /\ a >= 1
  BY DEF TypeInv, PhpTypeOK
<1>2. Len(q) \in Nat
  BY <1>1, LenProperties
<1>3. 1 \in 1 .. Len(q) /\ Len(q) >= 1
  BY <1>1, <1>2
<1>4. \A i \in 1 .. Len(q) : q[i] \in Part
  BY <1>1, ElementOfSeq
<1>5. q[1].call \in 1 .. MaxCalls /\ q[1].code \in Code
  BY <1>3, <1>4 DEF Part
<1>6. \A i \in 1 .. a : q[i] \in Part
  BY <1>1, <1>2, <1>4
<1>7. \A i \in 1 .. (a - 1 + 1) : SubSeq(q, 1, a)[i] = q[1 + i - 1]
  BY <1>1, <1>2, <1>6, SubSeqProperties
<1>8. SubSeq(q, 1, a)[1] = q[1]
  BY <1>1, <1>2, <1>7
<1>9. Head(q) = q[1]
  BY <1>1, <1>3
<1> QED
  BY <1>1, <1>2, <1>3, <1>5, <1>8, <1>9, Zenon DEF Taken

\* What a receive makes of ret.
LEMMA RetSteps ==
  ASSUME TypeInv, RecvAll \/ RecvHead \/ RecvBody \/ RecvTooMuch
  PROVE  /\ fd \in DOMAIN peer /\ arrived[fd] >= 1
         /\ ret' \in [ok: BOOLEAN, code: Code, of: 0 .. MaxCalls, clean: BOOLEAN]
         /\ RecvAll \/ RecvBody =>
              ret'.ok /\ ret'.of = stream[fd][1].call /\ (ret'.clean <=> fd \notin tainted)
         /\ RecvHead \/ RecvTooMuch =>
              /\ ret'.ok = ret.ok /\ ret'.of = ret.of
              /\ ret'.clean <=> (ret.clean /\ fd \notin tainted)
         /\ RecvBody => ret'.code = ret.code
         /\ ~RecvBody => ret'.code = stream[fd][1].code
<1>1. fd \in DOMAIN peer
  <2>1. pc \in {"head", "body"}
    BY DEF RecvAll, RecvHead, RecvBody, RecvTooMuch
  <2> QED
    BY <2>1 DEF TypeInv, PhpTypeOK
<1>2. arrived[fd] \in Nat
  <2>1. arrived[fd] \in 0 .. Len(stream[fd])
    BY <1>1 DEF TypeInv, PhpTypeOK
  <2> QED
    BY <2>1
<1>3. arrived[fd] >= 1
  BY <1>2 DEF RecvAll, RecvHead, RecvBody, RecvTooMuch
<1>4. /\ Taken[1] = stream[fd][1] /\ Head(stream[fd]) = stream[fd][1]
      /\ stream[fd][1].call \in 1 .. MaxCalls /\ stream[fd][1].code \in Code
  BY <1>1, <1>3, FirstTaken
<1>5. ret \in [ok: BOOLEAN, code: Code, of: 0 .. MaxCalls, clean: BOOLEAN]
  BY DEF TypeInv, PhpTypeOK
<1> PICK p : p = stream[fd][1]
  OBVIOUS
<1>6. p.call \in 0 .. MaxCalls /\ p.code \in Code
  BY <1>4, PhpAssumption
<1>7. ASSUME RecvAll \/ RecvBody
      PROVE  /\ ret' = [ok |-> TRUE, code |-> IF RecvBody THEN ret.code ELSE p.code, of |-> p.call,
                        clean |-> fd \notin tainted]
  <2>1. CASE RecvAll
    <3>1. ~RecvBody
      BY <2>1 DEF RecvAll, RecvBody
    <3>2. ret' = Answered(Taken[1].code)
      BY <2>1, Zenon DEF RecvAll
    <3> QED
      BY <1>4, <3>1, <3>2, Zenon DEF Answered
  <2>2. CASE RecvBody
    <3>1. ret' = Answered(ret.code)
      BY <2>2, Zenon DEF RecvBody
    <3> QED
      BY <1>4, <2>2, <3>1, Zenon DEF Answered
  <2> QED
    BY <1>7, <2>1, <2>2
<1>8. ASSUME RecvHead \/ RecvTooMuch
      PROVE  ret' = [ret EXCEPT !.code = p.code, !.clean = ret.clean /\ fd \notin tainted]
  BY <1>4, <1>8, Zenon DEF RecvHead, RecvTooMuch
<1>9. CASE RecvAll \/ RecvBody
  <2>1. ~RecvHead /\ ~RecvTooMuch
    <3>1. CASE RecvAll
      BY <1>2, <3>1 DEF RecvAll, RecvHead, RecvTooMuch
    <3>2. CASE RecvBody
      BY <3>2 DEF RecvBody, RecvHead, RecvTooMuch
    <3> QED
      BY <1>9, <3>1, <3>2
  <2>2. ret.code \in Code
    BY <1>5
  <2>3. PICK c \in Code : c = IF RecvBody THEN ret.code ELSE p.code
    BY <1>6, <2>2, Zenon
  <2>4. ret' = [ok |-> TRUE, code |-> c, of |-> p.call, clean |-> fd \notin tainted]
    BY <1>7, <1>9, <2>3, Zenon
  <2>5. /\ ret'.ok /\ ret'.of = p.call /\ (ret'.clean <=> fd \notin tainted) /\ ret'.code = c
    BY <2>4
  <2>6. ret' \in [ok: BOOLEAN, code: Code, of: 0 .. MaxCalls, clean: BOOLEAN]
    BY <1>6, <2>3, <2>4
  <2> QED
    BY <1>1, <1>3, <2>1, <2>3, <2>5, <2>6, Zenon
<1>10. CASE RecvHead \/ RecvTooMuch
  <2>1. ~RecvAll /\ ~RecvBody
    <3>1. CASE RecvHead
      BY <1>2, <3>1 DEF RecvAll, RecvHead, RecvBody
    <3>2. CASE RecvTooMuch
      BY <1>2, <3>2 DEF RecvBody, RecvAll, RecvTooMuch
    <3> QED
      BY <1>10, <3>1, <3>2
  <2>2. ret' = [ret EXCEPT !.code = p.code, !.clean = ret.clean /\ fd \notin tainted]
    BY <1>8, <1>10
  <2>3. /\ ret'.ok = ret.ok /\ ret'.of = ret.of /\ ret'.code = p.code
        /\ ret' \in [ok: BOOLEAN, code: Code, of: 0 .. MaxCalls, clean: BOOLEAN]
    BY <1>5, <1>6, <2>2
  <2>4. ret'.clean <=> (ret.clean /\ fd \notin tainted)
    BY <1>5, <2>2
  <2> QED
    BY <1>1, <1>3, <2>1, <2>3, <2>4, Zenon
<1> QED
  BY <1>9, <1>10

\* A call that gives a server up.
LEMMA GaveUp ==
  ASSUME TypeInv, GivesUp
  PROVE  /\ pc # "idle" /\ Failed
         /\ now' = now /\ call' = call /\ opt' = opt /\ stored' = stored
         /\ \/ pc = "op" /\ late' = late /\ ret' = ret
            \/ pc \in {"head", "body"} /\ late' = late \cup {call} /\ (RecvTooMuch \/ ret' = ret)
<1>1. CASE ConnectFails \/ SendFails \/ FirstSendFails
  <2>1. /\ pc = "op" /\ Failed /\ now' = now /\ call' = call /\ opt' = opt /\ stored' = stored
        /\ late' = late /\ ret' = ret
    BY <1>1, Zenon DEF ConnectFails, SendFails, FirstSendFails
  <2> QED
    BY <2>1
<1>2. CASE RecvTooMuch
  <2>1. /\ pc = "head" /\ Failed /\ now' = now /\ call' = call /\ opt' = opt /\ stored' = stored
        /\ late' = late \cup {call}
    BY <1>2, Zenon DEF RecvTooMuch
  <2> QED
    BY <1>2, <2>1
<1>3. CASE RecvFails
  <2>1. /\ pc \in {"head", "body"} /\ Failed /\ now' = now /\ call' = call /\ opt' = opt
        /\ stored' = stored /\ late' = late \cup {call} /\ ret' = ret
    BY <1>3, Zenon DEF RecvFails
  <2> QED
    BY <2>1
<1> QED
  BY <1>1, <1>2, <1>3 DEF GivesUp

\* The variables of the call, without what it waits for.
CallType ==
  /\ now \in 0 .. MaxTime
  /\ pc \in {"idle", "op", "head", "body"}
  /\ call \in 0 .. MaxCalls /\ opt \in Opts \cup {"none"}
  /\ rest \in Seq(Dests \cup {BadDest}) /\ (pc # "idle" => rest # << >>)
  /\ fd \in Fds \cup {-1}
  /\ ret \in [ok: BOOLEAN, code: Code, of: 0 .. MaxCalls, clean: BOOLEAN]
  /\ stored \subseteq (1 .. MaxCalls) \X Dests /\ late \subseteq 1 .. MaxCalls
  /\ pc # "idle" => opt \in Opts /\ call > 0

\* A call that gives a server up goes on to the next or ends.
LEMMA FailedType ==
  ASSUME TypeInv, pc # "idle", Failed
  PROVE  /\ pc' \in {"idle", "op"} /\ fd' = -1
         /\ rest' \in Seq(Dests \cup {BadDest}) /\ (pc' # "idle" => rest' # << >>)
<1>1. /\ Tail(rest) \in Seq(Dests \cup {BadDest}) /\ (Len(rest) > 1 => Tail(rest) # << >>)
  BY RestType
<1>2. /\ rest' = Tail(rest) /\ fd' = -1
      /\ \/ pc' = "op" /\ Len(rest) > 1
         \/ pc' = "idle"
  BY Zenon DEF Failed
<1> QED
  BY <1>1, <1>2, Zenon

\* Every step keeps the types of the call in progress,
LEMMA CallTypeKept ==
  ASSUME TypeInv, PoolIsExact, [Next]_vars
  PROVE  CallType'
<1>1. CallType
  BY DEF TypeInv, PhpTypeOK, CallType
<1>2. pc # "idle" => call \in 1 .. MaxCalls
  BY <1>1, PhpAssumption DEF CallType
<1>3. CASE GivesUp
  <2>1. /\ pc # "idle" /\ Failed
        /\ now' = now /\ call' = call /\ opt' = opt /\ stored' = stored
    BY <1>3, GaveUp
  <2>2. late' = late \/ late' = late \cup {call}
    BY <1>3, GaveUp
  <2>3. ret' \in [ok: BOOLEAN, code: Code, of: 0 .. MaxCalls, clean: BOOLEAN]
    <3>1. CASE RecvTooMuch
      BY <3>1, RetSteps
    <3>2. CASE ~RecvTooMuch
      BY <1>1, <1>3, <3>2, GaveUp DEF CallType
    <3> QED
      BY <3>1, <3>2
  <2>4. /\ pc' \in {"idle", "op"} /\ fd' = -1
        /\ rest' \in Seq(Dests \cup {BadDest}) /\ (pc' # "idle" => rest' # << >>)
    BY <2>1, FailedType
  <2>5. late' \subseteq 1 .. MaxCalls
    BY <1>1, <1>2, <2>1, <2>2 DEF CallType
  <2> QED
    BY <1>1, <2>1, <2>3, <2>4, <2>5 DEF CallType
<1>4. CASE ShutsDown \/ Executes \/ Arrives \/ ServerClosing
  <2>1. /\ now' = now /\ pc' = pc /\ call' = call /\ opt' = opt /\ rest' = rest /\ fd' = fd
        /\ ret' = ret /\ late' = late
    <3>1. ShutsDown => /\ now' = now /\ pc' = pc /\ call' = call /\ opt' = opt /\ rest' = rest
                       /\ fd' = fd /\ ret' = ret /\ late' = late
      BY Zenon DEF ShutsDown, RequestShutdown, ModuleShutdown
    <3>2. Executes => /\ now' = now /\ pc' = pc /\ call' = call /\ opt' = opt /\ rest' = rest
                      /\ fd' = fd /\ ret' = ret /\ late' = late
      BY ZenonT(60) DEF Executes, Execute
    <3>3. Arrives \/ ServerClosing =>
            /\ now' = now /\ pc' = pc /\ call' = call /\ opt' = opt /\ rest' = rest
            /\ fd' = fd /\ ret' = ret /\ late' = late
      BY Zenon DEF Arrives, ServerClosing, Arrive, ServerCloses
    <3> QED
      BY <1>4, <3>1, <3>2, <3>3, Zenon
  <2>2. stored' \subseteq (1 .. MaxCalls) \X Dests
    <3>1. CASE ShutsDown \/ Arrives \/ ServerClosing
      <4>1. stored' = stored
        BY <3>1, Zenon DEF ShutsDown, RequestShutdown, ModuleShutdown, Arrives, ServerClosing,
             Arrive, ServerCloses
      <4> QED
        BY <1>1, <4>1 DEF CallType
    <3>2. CASE Executes
      <4>1. PICK r \in requests, code \in {200, 400}, twice \in BOOLEAN : Execute(r, code, twice)
        BY <3>2 DEF Executes
      <4>2. r.call \in 1 .. MaxCalls /\ r.srv \in Dests
        BY DEF TypeInv, PhpTypeOK
      <4>3. stored' = stored \/ stored' = stored \cup {<<r.call, r.srv>>}
        BY <4>1, Zenon DEF Execute
      <4> QED
        BY <1>1, <4>2, <4>3 DEF CallType
    <3> QED
      BY <1>4, <3>1, <3>2
  <2> QED
    BY <1>1, <2>1, <2>2 DEF CallType
<1>5. CASE Connect \/ Reuse
  <2>1. /\ pc = "op" /\ pc' = "head" /\ now' = now /\ call' = call /\ opt' = opt /\ rest' = rest
        /\ ret' = ret /\ stored' = stored /\ late' = late
    BY <1>5, Zenon DEF Connect, Reuse
  <2>2. fd' \in Fds
    <3>1. CASE Connect
      <4>1. PICK S, f, d, k : Opens(S, f, d, k)
        BY <3>1, OpensSlot
      <4> QED
        BY <4>1, Zenon DEF Opens
    <3>2. CASE Reuse
      BY <3>2, Reused, PoolTypes
    <3> QED
      BY <1>5, <3>1, <3>2
  <2> QED
    BY <1>1, <2>1, <2>2 DEF CallType
<1>6. CASE Starts
  <2>1. PICK o \in Opts, list \in Lists : Start(o, list)
    BY <1>6 DEF Starts
  <2>2. /\ call < MaxCalls /\ call' = call + 1 /\ opt' = o /\ rest' = list /\ ret' = NoReturn
        /\ pc' = "op" /\ now' = now /\ fd' = fd /\ stored' = stored /\ late' = late
    BY <2>1, Zenon DEF Start
  <2>3. list \in Seq(Dests \cup {BadDest}) /\ list # << >>
    BY ListsAreLists
  <2>4. call' \in 0 .. MaxCalls /\ call' > 0
    BY <1>1, <2>2, PhpAssumption DEF CallType
  <2>5. ret' \in [ok: BOOLEAN, code: Code, of: 0 .. MaxCalls, clean: BOOLEAN]
    BY <2>2, PhpAssumption DEF NoReturn, Code
  <2> QED
    BY <1>1, <2>2, <2>3, <2>4, <2>5 DEF CallType
<1>7. CASE SkipBad
  <2>1. /\ pc = "op" /\ Failed /\ now' = now /\ call' = call /\ opt' = opt /\ ret' = ret
        /\ stored' = stored /\ late' = late
    BY <1>7, Zenon DEF SkipBad
  <2>2. /\ pc' \in {"idle", "op"} /\ fd' = -1
        /\ rest' \in Seq(Dests \cup {BadDest}) /\ (pc' # "idle" => rest' # << >>)
    BY <2>1, FailedType
  <2> QED
    BY <1>1, <2>1, <2>2 DEF CallType
<1>8. CASE RecvAll \/ RecvBody
  <2>1. /\ Succeeded /\ now' = now /\ call' = call /\ opt' = opt /\ stored' = stored /\ late' = late
    BY <1>8, Zenon DEF RecvAll, RecvBody
  <2>2. pc' = "idle" /\ rest' = << >> /\ fd' = -1
    BY <2>1, Zenon DEF Succeeded
  <2>3. ret' \in [ok: BOOLEAN, code: Code, of: 0 .. MaxCalls, clean: BOOLEAN]
    BY <1>8, RetSteps
  <2>4. << >> \in Seq(Dests \cup {BadDest})
    BY EmptySeq
  <2> QED
    BY <1>1, <2>1, <2>2, <2>3, <2>4 DEF CallType
<1>9. CASE RecvHead
  <2>1. /\ pc' = "body" /\ pc = "head" /\ now' = now /\ call' = call /\ opt' = opt /\ rest' = rest
        /\ fd' = fd /\ stored' = stored /\ late' = late
    BY <1>9, Zenon DEF RecvHead
  <2>2. ret' \in [ok: BOOLEAN, code: Code, of: 0 .. MaxCalls, clean: BOOLEAN]
    BY <1>9, RetSteps
  <2> QED
    BY <1>1, <2>1, <2>2 DEF CallType
<1>10. CASE Tick
  <2>1. /\ now < MaxTime /\ now' = now + 1 /\ pc' = pc /\ call' = call /\ opt' = opt /\ rest' = rest
        /\ fd' = fd /\ ret' = ret /\ stored' = stored /\ late' = late
    BY <1>10, Zenon DEF Tick
  <2>2. now' \in 0 .. MaxTime
    BY <1>1, <2>1, PhpAssumption DEF CallType
  <2> QED
    BY <1>1, <2>1, <2>2 DEF CallType
<1>11. CASE UNCHANGED vars
  BY <1>1, <1>11 DEF CallType, vars
<1> QED
  BY <1>3, <1>4, <1>5, <1>6, <1>7, <1>8, <1>9, <1>10, <1>11, Steps, Zenon

\* A call that waits has its socket open.
LEMMA WaitsOnSocket ==
  ASSUME TypeInv, PoolIsExact, [Next]_vars, pc' \in {"head", "body"}
  PROVE  fd' \in DOMAIN peer'
<1>1. pc \in {"head", "body"} => fd \in DOMAIN peer
  BY DEF TypeInv, PhpTypeOK
<1>2. CASE GivesUp
  BY <1>2, GaveUp, FailedType
<1>3. CASE ShutsDown \/ Starts \/ SkipBad \/ RecvAll \/ RecvBody \/ Tick
  <2>1. ShutsDown \/ Tick => pc' = "idle"
    BY Zenon DEF ShutsDown, RequestShutdown, ModuleShutdown, Tick
  <2>2. Starts => pc' = "op"
    BY Zenon DEF Starts, Start
  <2>3. SkipBad => pc' \in {"idle", "op"}
    <3>1. SkipBad => pc = "op" /\ Failed
      BY Zenon DEF SkipBad
    <3>2. pc = "op" => pc # "idle"
      OBVIOUS
    <3> QED
      BY <3>1, <3>2, FailedType
  <2>4. RecvAll \/ RecvBody => pc' = "idle"
    BY Zenon DEF RecvAll, RecvBody, Succeeded
  <2> QED
    BY <1>3, <2>1, <2>2, <2>3, <2>4
<1>4. CASE Connect
  <2>1. PICK S, f, d, k : Opens(S, f, d, k)
    BY <1>4, OpensSlot
  <2>2. ConnType
    BY DEF TypeInv, PhpTypeOK, ConnType
  <2>3. DOMAIN peer' = (DOMAIN peer \ S) \cup {f}
    BY <2>1, <2>2, AfterOpen
  <2>4. fd' = f
    BY <2>1, Zenon DEF Opens
  <2> QED
    BY <2>3, <2>4
<1>5. CASE Reuse
  <2>1. peer' = peer
    BY <1>5, Zenon DEF Reuse
  <2> QED
    BY <1>5, <2>1, Reused
<1>6. CASE RecvHead \/ Executes \/ Arrives \/ ServerClosing \/ UNCHANGED vars
  <2>1. RecvHead => peer' = peer /\ fd' = fd /\ pc = "head"
    BY Zenon DEF RecvHead, Consume
  <2>2. Executes => peer' = peer /\ fd' = fd /\ pc' = pc
    BY ZenonT(60) DEF Executes, Execute
  <2>3. Arrives \/ ServerClosing => peer' = peer /\ fd' = fd /\ pc' = pc
    BY Zenon DEF Arrives, ServerClosing, Arrive, ServerCloses
  <2>4. UNCHANGED vars => peer' = peer /\ fd' = fd /\ pc' = pc
    BY Zenon DEF vars, socks
  <2> QED
    BY <1>1, <1>6, <2>1, <2>2, <2>3, <2>4
<1> QED
  BY <1>2, <1>3, <1>4, <1>5, <1>6, Steps, Zenon

\* and so all types.
LEMMA TypeKept ==
  ASSUME TypeInv, PoolIsExact, RequestsOK, [Next]_vars
  PROVE  TypeInv'
<1>1. mq_list' \in [1 .. Slots -> SlotType]
  BY TableType
<1>2. ConnType'
  BY ConnTypeKept
<1>3. requests' \subseteq RequestType
  <2>1. requests \subseteq RequestType
    BY DEF TypeInv, PhpTypeOK, RequestType
  <2> QED
    BY <2>1, RequestSteps
<1>4. CallType'
  BY CallTypeKept
<1>5. pc' \in {"head", "body"} => fd' \in DOMAIN peer'
  BY WaitsOnSocket
<1> QED
  BY <1>1, <1>2, <1>3, <1>4, <1>5, Zenon
     DEF TypeInv, PhpTypeOK, ConnType, CallType, SlotType, RequestType

(***************************************************************************)
(* Requests                                                                *)
(***************************************************************************)

\* The steps that leave the call as it is.
Quiet == ShutsDown \/ Tick \/ Executes \/ Arrives \/ ServerClosing \/ UNCHANGED vars

\* Steps of clock and servers leave the call alone.
LEMMA QuietSteps ==
  Quiet => /\ pc' = pc /\ call' = call /\ opt' = opt /\ rest' = rest /\ fd' = fd /\ ret' = ret
           /\ late' = late
<1>1. ShutsDown \/ Tick =>
        /\ pc' = pc /\ call' = call /\ opt' = opt /\ rest' = rest /\ fd' = fd /\ ret' = ret
        /\ late' = late
  BY Zenon DEF ShutsDown, RequestShutdown, ModuleShutdown, Tick
<1>2. Executes =>
        /\ pc' = pc /\ call' = call /\ opt' = opt /\ rest' = rest /\ fd' = fd /\ ret' = ret
        /\ late' = late
  BY ZenonT(60) DEF Executes, Execute
<1>3. Arrives \/ ServerClosing =>
        /\ pc' = pc /\ call' = call /\ opt' = opt /\ rest' = rest /\ fd' = fd /\ ret' = ret
        /\ late' = late
  BY Zenon DEF Arrives, ServerClosing, Arrive, ServerCloses
<1>4. UNCHANGED vars =>
        /\ pc' = pc /\ call' = call /\ opt' = opt /\ rest' = rest /\ fd' = fd /\ ret' = ret
        /\ late' = late
  BY Zenon DEF vars
<1> QED
  BY <1>1, <1>2, <1>3, <1>4, Zenon DEF Quiet

\* The steps of the call.
LEMMA CallSteps ==
  ASSUME TypeInv, [Next]_vars
  PROVE  \/ Quiet
         \/ Starts /\ pc = "idle" /\ pc' = "op" /\ late' = late /\ stored' = stored
         \/ /\ Connect \/ Reuse
            /\ pc = "op" /\ pc' = "head" /\ call' = call /\ opt' = opt /\ rest' = rest
            /\ ret' = ret /\ late' = late /\ stored' = stored
         \/ /\ GivesUp \/ SkipBad
            /\ pc = "op" /\ pc' \in {"op", "idle"} /\ call' = call /\ opt' = opt
            /\ ret' = ret /\ late' = late /\ stored' = stored
         \/ /\ GivesUp
            /\ pc \in {"head", "body"} /\ pc' \in {"op", "idle"} /\ call' = call /\ opt' = opt
            /\ late' = late \cup {call} /\ stored' = stored /\ (RecvTooMuch \/ ret' = ret)
         \/ /\ RecvHead
            /\ pc = "head" /\ pc' = "body" /\ call' = call /\ opt' = opt /\ rest' = rest /\ fd' = fd
            /\ late' = late /\ stored' = stored
         \/ /\ RecvAll \/ RecvBody
            /\ pc \in {"head", "body"} /\ pc' = "idle" /\ call' = call /\ opt' = opt /\ late' = late
            /\ stored' = stored
<1>1. Starts => pc = "idle" /\ pc' = "op" /\ late' = late /\ stored' = stored
  BY Zenon DEF Starts, Start
<1>2. Connect \/ Reuse =>
            /\ pc = "op" /\ pc' = "head" /\ call' = call /\ opt' = opt /\ rest' = rest
            /\ ret' = ret /\ late' = late /\ stored' = stored
  BY Zenon DEF Connect, Reuse
<1>3. SkipBad =>
            /\ pc = "op" /\ pc' \in {"op", "idle"} /\ call' = call /\ opt' = opt
            /\ ret' = ret /\ late' = late /\ stored' = stored
  BY Zenon DEF SkipBad, Failed
<1>4. GivesUp =>
         /\ pc' \in {"op", "idle"} /\ call' = call /\ opt' = opt /\ stored' = stored
         /\ \/ pc = "op" /\ late' = late /\ ret' = ret
            \/ pc \in {"head", "body"} /\ late' = late \cup {call} /\ (RecvTooMuch \/ ret' = ret)
  <2>1. Failed => pc' \in {"op", "idle"}
    BY Zenon DEF Failed
  <2> QED
    BY <2>1, GaveUp, Zenon
<1>5. RecvHead =>
            /\ pc = "head" /\ pc' = "body" /\ call' = call /\ opt' = opt /\ rest' = rest /\ fd' = fd
            /\ late' = late /\ stored' = stored
  BY Zenon DEF RecvHead
<1>6. RecvAll \/ RecvBody =>
            /\ pc \in {"head", "body"} /\ pc' = "idle" /\ call' = call /\ opt' = opt /\ late' = late
            /\ stored' = stored
  BY Zenon DEF RecvAll, RecvBody, Succeeded
<1>7. \/ GivesUp \/ Connect \/ Reuse \/ Starts \/ SkipBad \/ RecvAll \/ RecvHead \/ RecvBody
      \/ Quiet
  BY Steps, Zenon DEF Quiet
<1>8. CASE GivesUp
  BY <1>4, <1>8, Zenon
<1>9. CASE Connect \/ Reuse
  BY <1>2, <1>9, Zenon
<1>10. CASE Starts
  BY <1>1, <1>10, Zenon
<1>11. CASE SkipBad
  BY <1>3, <1>11, Zenon
<1>12. CASE RecvAll \/ RecvBody
  BY <1>6, <1>12, Zenon
<1>13. CASE RecvHead
  BY <1>5, <1>13, Zenon
<1> QED
  BY <1>7, <1>8, <1>9, <1>10, <1>11, <1>12, <1>13, Zenon

\* Calls are numbered in the order they are made.
LEMMA CallGrows ==
  ASSUME TypeInv, [Next]_vars
  PROVE  /\ call' = call \/ (Starts /\ call' = call + 1)
         /\ call \in Nat /\ call' \in Nat /\ call <= call'
<1>1. call \in Nat
  BY PhpAssumption DEF TypeInv, PhpTypeOK
<1>2. Starts => call' = call + 1
  BY Zenon DEF Starts, Start
<1>3. call' = call \/ (Starts /\ call' = call + 1)
  BY <1>2, CallSteps, QuietSteps, Zenon
<1> QED
  BY <1>1, <1>3

\* Requests are of calls made so far, and those of the current one on its own connection.
LEMMA RequestsKept ==
  ASSUME TypeInv, PoolIsExact, RequestsOK, [Next]_vars
  PROVE  RequestsOK'
<1>0. ConnType /\ requests \subseteq RequestType
  BY DEF TypeInv, PhpTypeOK, ConnType, RequestType
<1>1. \A r \in requests' : r.fd \in DOMAIN peer' \cup {-1}
  <2> SUFFICES ASSUME NEW r \in requests' PROVE r.fd \in DOMAIN peer' \cup {-1}
    OBVIOUS
  <2>1. r \in requests => r.fd \in DOMAIN peer \cup {-1}
    BY DEF RequestsOK
  <2>2. CASE GivesUp \/ ShutsDown
    <3>1. PICK S : Frees(S)
      BY <2>2, FreesSlots
    <3>2. DOMAIN peer' = DOMAIN peer \ S
      BY <1>0, <3>1, AfterClose
    <3>3. r \in Orphaned(S)
      BY <3>1, Zenon DEF Frees, Close
    <3>4. (r \in requests /\ r.fd \notin S) \/ r.fd = -1
      BY <1>0, <3>3, OrphanedIs, Zenon
    <3> QED
      BY <2>1, <3>2, <3>4
  <2>3. CASE Connect
    <3>1. PICK S, f, d, k : Opens(S, f, d, k)
      BY <2>3, OpensSlot
    <3>2. DOMAIN peer' = (DOMAIN peer \ S) \cup {f}
      BY <1>0, <3>1, AfterOpen
    <3>3. r \in Orphaned(S) \cup {Request(f, d)}
      BY <3>1, Zenon DEF Opens
    <3>4. CASE r \in Orphaned(S)
      <4>1. (r \in requests /\ r.fd \notin S) \/ r.fd = -1
        BY <1>0, <3>4, OrphanedIs, Zenon
      <4> QED
        BY <2>1, <3>2, <4>1
    <3>5. CASE r = Request(f, d)
      <4>1. r.fd = f
        BY <3>5 DEF Request
      <4> QED
        BY <3>2, <4>1
    <3> QED
      BY <3>3, <3>4, <3>5
  <2>4. CASE Reuse
    <3>1. peer' = peer
      BY <2>4, Zenon DEF Reuse
    <3>2. fd' \in DOMAIN peer
      BY <2>4, Reused
    <3>3. r \in requests \/ r = Request(fd', Head(rest))
      BY <2>4, Reused
    <3>4. PICK f : f = fd'
      OBVIOUS
    <3>5. r \in requests \/ r.fd = f
      BY <3>3, <3>4 DEF Request
    <3> QED
      BY <2>1, <3>1, <3>2, <3>4, <3>5
  <2>5. CASE mq_list' = mq_list /\ peer' = peer /\ ~GivesUp /\ ~ShutsDown /\ ~Connect /\ ~Reuse
    <3>1. r \in requests
      BY <2>5, RequestSteps
    <3> QED
      BY <2>1, <2>5, <3>1
  <2> QED
    BY <2>2, <2>3, <2>4, <2>5, TableSteps, Zenon
<1>2. \A r \in requests' : r.call <= call'
  <2> SUFFICES ASSUME NEW r \in requests' PROVE r.call <= call'
    OBVIOUS
  <2>1. call \in Nat /\ call' \in Nat /\ call <= call'
    BY CallGrows
  <2>2. \A q \in requests : q.call \in Nat /\ q.call <= call
    BY <1>0 DEF RequestsOK, RequestType
  <2>3. r.call = call \/ \E q \in requests : q.call = r.call
    BY RequestSteps, Zenon
  <2>4. \A a, b, c \in Nat : a <= b /\ b <= c => a <= c
    OBVIOUS
  <2>5. CASE r.call = call
    BY <2>1, <2>5
  <2>6. CASE \E q \in requests : q.call = r.call
    BY <2>1, <2>2, <2>4, <2>6, Zenon
  <2> QED
    BY <2>3, <2>5, <2>6
<1>3. \A r \in requests' : r.call = call' /\ call' \notin late' /\ pc' # "idle" =>
        pc' \in {"head", "body"} /\ fd' = r.fd
  <2> SUFFICES ASSUME NEW r \in requests', r.call = call', call' \notin late', pc' # "idle"
               PROVE  pc' \in {"head", "body"} /\ fd' = r.fd
    OBVIOUS
  <2>1. \A q \in requests : q.call = call /\ call \notin late /\ pc # "idle" =>
          pc \in {"head", "body"} /\ fd = q.fd
    BY DEF RequestsOK, Own
  <2>2. (Connect \/ Reuse) /\ r.fd = fd' => pc' = "head"
    BY Zenon DEF Connect, Reuse
  <2>3. CASE Starts
    <3>1. \A q \in requests : q.call \in Nat /\ q.call <= call
      BY <1>0 DEF RequestsOK, RequestType
    <3>2. call' = call + 1 /\ call \in Nat
      BY <2>3, CallGrows DEF Starts, Start
    <3>3. r \in requests
      <4>1. requests' = requests
        BY <2>3, Zenon DEF Starts, Start, socks
      <4> QED
        BY <4>1
    <3> QED
      BY <3>1, <3>2, <3>3
  <2>4. CASE ~Starts
    <3>1. call' = call
      BY <2>4, CallGrows
    <3>2. call \notin late /\ r.call = call
      BY <3>1, CallSteps, QuietSteps, Zenon
    <3>3. pc # "idle"
      BY <2>4, CallSteps, QuietSteps, Zenon
    <3>4. CASE pc = "op"
      <4>1. \A q \in requests : q.call # call
        BY <2>1, <3>2, <3>3, <3>4
      <4>2. (Connect \/ Reuse) /\ r.fd = fd'
        BY <3>2, <4>1, RequestSteps, Zenon
      <4> QED
        BY <2>2, <4>2
    <3>5. CASE pc # "op"
      <4>1. pc \in {"head", "body"}
        BY <3>3, <3>5 DEF TypeInv, PhpTypeOK
      <4>2. ~Connect /\ ~Reuse
        BY <3>5, Zenon DEF Connect, Reuse
      <4>3. PICK q \in requests : q.call = r.call
        BY <4>2, RequestSteps, Zenon
      <4>4. ~GivesUp
        <5>1. GivesUp => late' = late \cup {call}
          BY <3>5, GaveUp
        <5> QED
          BY <3>1, <5>1
      <4>5. ~ShutsDown
        BY <3>3, Zenon DEF ShutsDown, RequestShutdown, ModuleShutdown
      <4>6. r \in requests
        BY <4>2, <4>4, <4>5, RequestSteps, Zenon
      <4>7. fd = r.fd
        BY <2>1, <3>2, <3>3, <4>6
      <4>8. pc' \in {"head", "body"} /\ fd' = fd
        <5>1. CASE Quiet
          BY <4>1, <5>1, QuietSteps
        <5>2. CASE RecvHead
          BY <5>2, Zenon DEF RecvHead
        <5> QED
          BY <2>4, <3>5, <4>4, <5>1, <5>2, CallSteps, Zenon
      <4> QED
        BY <4>7, <4>8
    <3> QED
      BY <3>4, <3>5
  <2> QED
    BY <2>3, <2>4
<1>4. \A s \in stored' : s[1] <= call'
  <2>1. call \in Nat /\ call' \in Nat /\ call <= call'
    BY CallGrows
  <2>2. \A s \in stored : s[1] \in Nat /\ s[1] <= call
    BY DEF RequestsOK, TypeInv, PhpTypeOK
  <2>3. \A a, b, c \in Nat : a <= b /\ b <= c => a <= c
    OBVIOUS
  <2>4. \A s \in stored : s[1] <= call'
    BY <2>1, <2>2, <2>3, Zenon
  <2>5. CASE Executes
    <3>1. PICK r \in requests, code \in {200, 400}, twice \in BOOLEAN : Execute(r, code, twice)
      BY <2>5 DEF Executes
    <3>2. stored' = stored \/ stored' = stored \cup {<<r.call, r.srv>>}
      BY <3>1, Zenon DEF Execute
    <3>3. r.call \in Nat /\ r.call <= call
      BY <1>0 DEF RequestsOK, RequestType
    <3>4. r.call <= call'
      BY <2>1, <3>3
    <3> QED
      BY <2>4, <3>2, <3>4
  <2>6. CASE ~Executes
    <3>1. stored' = stored
      <4>1. ShutsDown \/ Tick => stored' = stored
        BY Zenon DEF ShutsDown, RequestShutdown, ModuleShutdown, Tick
      <4>2. Arrives \/ ServerClosing => stored' = stored
        BY Zenon DEF Arrives, ServerClosing, Arrive, ServerCloses
      <4>3. UNCHANGED vars => stored' = stored
        BY Zenon DEF vars
      <4>4. Quiet => stored' = stored
        BY <2>6, <4>1, <4>2, <4>3, Zenon DEF Quiet
      <4> QED
        BY <4>4, CallSteps, Zenon
    <3> QED
      BY <2>4, <3>1
  <2> QED
    BY <2>5, <2>6
<1> QED
  BY <1>1, <1>2, <1>3, <1>4, Zenon DEF RequestsOK, Own

(***************************************************************************)
(* Connections                                                             *)
(***************************************************************************)

\* A connection that owes nothing owes nothing after a step elsewhere.
LEMMA SilentKept ==
  ASSUME NEW f, Silent(f), stream'[f] = stream[f], \A r \in requests' : r.fd = f => r \in requests
  PROVE  Silent(f)'
BY DEF Silent

\* A connection that is not in use and owes nothing is clean.
LEMMA NotWaiting ==
  ASSUME NEW f, ~Own(f)', Silent(f)'
  PROVE  CleanConn(f)'
BY Zenon DEF CleanConn

\* A connection that a step does not touch.
LEMMA UntouchedConn ==
  ASSUME NEW f, CleanConn(f), stream'[f] = stream[f],
         \A r \in requests' : r.fd = f => r \in requests,
         pc' = pc, fd' = fd, rest' = rest, call' = call, opt' = opt, ret' = ret, late' = late,
         StoredNow => StoredNow', Own(f) /\ StoredNow' => StoredNow \/ call \in late
  PROVE  CleanConn(f)'
<1>1. Own(f)' <=> Own(f)
  BY DEF Own
<1>2. CASE ~Own(f)
  <2>1. Silent(f)'
    BY <1>2, SilentKept DEF CleanConn
  <2> QED
    BY <1>1, <1>2, <2>1, NotWaiting
<1>3. CASE Own(f)
  <2>1. \A code : Told(code) => Told(code)'
    BY <1>3 DEF Told
  <2>2. Pending(f)'
    <3>1. Pending(f)
      BY <1>3 DEF CleanConn
    <3>2. Request(f, Head(rest))' = Request(f, Head(rest))
      BY DEF Request
    <3> QED
      BY <3>1, <3>2, Zenon DEF Pending
  <2>3. NoReply(f) => NoReply(f)'
    BY <1>3, Zenon DEF NoReply
  <2>4. WholeReply(f) => WholeReply(f)'
    <3>1. WholeReply(f) => Told(stream[f][1].code)'
      <4> PICK c : c = stream[f][1].code
        OBVIOUS
      <4>1. WholeReply(f) => Told(c)
        BY DEF WholeReply
      <4>2. WholeReply(f) => Told(c)'
        BY <2>1, <4>1
      <4>3. c = stream[f][1].code'
        BY Zenon
      <4> QED
        BY <4>2, <4>3, Zenon DEF Told
    <3> QED
      BY <3>1, Zenon DEF WholeReply
  <2>5. RestOfReply(f) => RestOfReply(f)'
    <3>1. RestOfReply(f) => Told(ret.code)'
      <4> PICK c : c = ret.code
        OBVIOUS
      <4>1. RestOfReply(f) => Told(c)
        BY DEF RestOfReply
      <4>2. RestOfReply(f) => Told(c)'
        BY <2>1, <4>1
      <4>3. c = ret.code'
        BY Zenon
      <4> QED
        BY <4>2, <4>3, Zenon DEF Told
    <3> QED
      BY <3>1, Zenon DEF RestOfReply
  <2> QED
    BY <1>1, <1>3, <2>2, <2>3, <2>4, <2>5, Zenon DEF CleanConn
<1> QED
  BY <1>2, <1>3

\* A call that still looks for a server has stored nothing unless it gave one up.
LEMMA NothingStoredYet ==
  ASSUME TypeInv, PutInv, pc = "op", StoredNow
  PROVE  call \in late
<1>1. PICK s \in stored : s[1] = call
  BY DEF StoredNow
<1>2. s \in (1 .. MaxCalls) \X Dests
  BY DEF TypeInv, PhpTypeOK
<1>3. s = <<call, s[2]>> /\ s[2] \in Dests
  BY <1>1, <1>2
<1>4. PutAt(call, s[2])
  BY <1>1, <1>3 DEF PutAt
<1> QED
  BY <1>3, <1>4 DEF PutInv

\* The socket f that a call has just written to.
LEMMA JustWritten ==
  ASSUME TypeInv, PutInv, NEW f, pc = "op", pc' = "head", fd' = f, call' = call, opt' = opt,
         rest' = rest, late' = late, stored' = stored, stream'[f] = << >>,
         \A r \in requests' : r.fd = f => r = Request(f, Head(rest))
  PROVE  CleanConn(f)'
<1>1. Own(f)' /\ pc' = "head"
  BY DEF Own
<1>2. StoredNow' <=> StoredNow
  BY DEF StoredNow
<1>3. NoReply(f)'
  BY <1>2, NothingStoredYet DEF NoReply
<1>4. Request(f, Head(rest))' = Request(f, Head(rest))
  BY DEF Request
<1>5. Pending(f)'
  BY <1>4, Zenon DEF Pending
<1>6. pc' # "body"
  BY <1>1
<1> QED
  BY <1>1, <1>3, <1>5, <1>6, Zenon DEF CleanConn

\* What a call finds on a clean connection that it waits for.
LEMMA Reading ==
  ASSUME TypeInv, ConnInv, RecvAll \/ RecvHead \/ RecvBody, fd \notin tainted
  PROVE  /\ fd \in DOMAIN peer /\ CleanConn(fd) /\ \A r \in requests : r.fd # fd
         /\ RecvAll \/ RecvHead => WholeReply(fd)
         /\ RecvBody => RestOfReply(fd)
<1>1. fd \in DOMAIN peer /\ arrived[fd] >= 1
  BY RetSteps
<1>2. Len(stream[fd]) >= 1 /\ Len(stream[fd]) \in Nat
  BY <1>1, FirstTaken
<1>3. stream[fd] # << >>
  <2>1. Len(<< >>) = 0 /\ ~(0 >= 1)
    OBVIOUS
  <2> QED
    BY <1>2, <2>1, Zenon
<1>4. CleanConn(fd)
  BY <1>1 DEF ConnInv
<1>5. Own(fd)
  BY DEF Own, RecvAll, RecvHead, RecvBody
<1>6. \A r \in requests : r.fd # fd
  BY <1>3, <1>4, <1>5 DEF CleanConn, Pending
<1>7. RecvAll \/ RecvHead => WholeReply(fd)
  BY <1>3, <1>4, <1>5 DEF CleanConn, NoReply, RecvAll, RecvHead
<1>8. RecvBody => RestOfReply(fd)
  BY <1>4, <1>5 DEF CleanConn, RecvBody
<1> QED
  BY <1>1, <1>4, <1>6, <1>7, <1>8

\* A connection whose reply was read is clean.
LEMMA ReceivedClean ==
  ASSUME TypeInv, ConnInv, RecvAll \/ RecvHead \/ RecvBody,
         NEW f \in DOMAIN peer, f \notin tainted
  PROVE  CleanConn(f)'
<1>1. ConnType /\ fd \in DOMAIN peer
  BY Receives DEF TypeInv, PhpTypeOK, ConnType
<1>2. PICK n \in {1, 2} : n <= arrived[fd] /\ Consume(n) /\ (n = 2 <=> RecvAll)
  BY Receives
<1>3. /\ requests' = requests
      /\ Len(stream'[fd]) = Len(stream[fd]) - n /\ stream'[fd] \in Seq(Part)
      /\ \A i \in 1 .. (Len(stream[fd]) - n) : stream'[fd][i] = stream[fd][i + n]
      /\ \A g \in DOMAIN peer \ {fd} : stream'[g] = stream[g]
  BY <1>1, <1>2, Consumed
<1>4. CleanConn(f)
  BY DEF ConnInv
<1>5. /\ call' = call /\ opt' = opt /\ late' = late /\ stored' = stored
  BY Zenon DEF RecvAll, RecvHead, RecvBody
<1>6. CASE f # fd
  <2>1. ~Own(f)
    BY <1>6 DEF Own
  <2>2. ~Own(f)'
    <3>1. RecvAll \/ RecvBody => pc' = "idle"
      BY Zenon DEF RecvAll, RecvBody, Succeeded
    <3>2. RecvHead => fd' = fd
      BY Zenon DEF RecvHead
    <3> QED
      BY <1>6, <3>1, <3>2 DEF Own
  <2>3. Silent(f)
    BY <1>4, <2>1 DEF CleanConn
  <2>4. Silent(f)'
    <3>1. stream'[f] = stream[f] /\ \A r \in requests' : r.fd = f => r \in requests
      BY <1>3, <1>6
    <3> QED
      BY <2>3, <3>1, SilentKept
  <2> QED
    BY <2>2, <2>4, NotWaiting
<1>7. CASE f = fd /\ ~RecvHead
  <2>1. pc' = "idle"
    BY <1>7, Zenon DEF RecvAll, RecvBody, Succeeded
  <2>2. ~Own(f)'
    BY <2>1 DEF Own
  <2>3. \A r \in requests' : r.fd # f
    BY <1>3, <1>7, Reading
  <2>4. Len(stream'[f]) = 0
    <3>1. CASE RecvAll
      <4>1. Len(stream[fd]) = 2 /\ n = 2
        BY <1>2, <1>7, <3>1, Reading DEF WholeReply
      <4>2. Len(stream'[fd]) = 2 - 2
        BY <1>3, <4>1, Zenon
      <4> QED
        BY <1>7, <4>2
    <3>2. CASE RecvBody
      <4>1. Len(stream[fd]) = 1
        BY <1>7, <3>2, Reading DEF RestOfReply
      <4>2. n = 1
        <5>1. ~RecvAll
          BY <3>2 DEF RecvAll, RecvBody
        <5> QED
          BY <1>2, <5>1
      <4>3. Len(stream'[fd]) = 1 - 1
        BY <1>3, <4>1, <4>2, Zenon
      <4> QED
        BY <1>7, <4>3
    <3> QED
      BY <1>7, <3>1, <3>2
  <2>5. stream'[f] = << >>
    BY <1>3, <1>7, <2>4, EmptySeq
  <2>6. Silent(f)'
    BY <2>3, <2>5 DEF Silent
  <2> QED
    BY <2>2, <2>6, NotWaiting
<1>8. CASE f = fd /\ RecvHead
  <2>1. WholeReply(f) /\ \A r \in requests : r.fd # f
    BY <1>8, Reading
  <2>2. pc' = "body" /\ fd' = fd
    BY <1>8, Zenon DEF RecvHead
  <2>3. n = 1
    <3>1. ~RecvAll
      BY <1>8 DEF RecvAll, RecvHead
    <3> QED
      BY <1>2, <3>1
  <2>4. Len(stream[f]) = 2 /\ stream[f][2].call = call /\ Told(stream[f][1].code)
    BY <2>1 DEF WholeReply
  <2>5. Len(stream'[f]) = 1
    <3>1. Len(stream'[f]) = 2 - 1
      BY <1>3, <1>8, <2>3, <2>4, Zenon
    <3> QED
      BY <3>1
  <2>6. stream'[f][1] = stream[f][2]
    <3>1. \A i \in 1 .. (2 - 1) : stream'[f][i] = stream[f][i + 1]
      BY <1>3, <1>8, <2>3, <2>4, Zenon
    <3> QED
      BY <3>1
  <2>7. ret'.code = stream[f][1].code
    <3>1. ~RecvBody
      BY <1>8 DEF RecvBody, RecvHead
    <3> QED
      BY <1>8, <3>1, RetSteps
  <2>8. Told(ret.code)'
    <3> PICK c : c = stream[f][1].code
      OBVIOUS
    <3>1. Told(c)
      BY <2>4
    <3>2. c = ret.code'
      BY <2>7
    <3>3. StoredNow' <=> StoredNow
      BY <1>5 DEF StoredNow
    <3> QED
      BY <1>5, <3>1, <3>2, <3>3, Zenon DEF Told
  <2>9. RestOfReply(f)'
    BY <1>5, <2>4, <2>5, <2>6, <2>8 DEF RestOfReply
  <2>10. Pending(f)'
    BY <1>3, <2>1 DEF Pending
  <2>11. Own(f)' /\ pc' # "head"
    BY <1>8, <2>2 DEF Own
  <2> QED
    BY <2>9, <2>10, <2>11, Zenon DEF CleanConn
<1> QED
  BY <1>6, <1>7, <1>8

\* A server that answers once leaves its connection clean.
LEMMA ExecutedClean ==
  ASSUME TypeInv, RequestsOK, ConnInv,
         NEW r \in requests, NEW code \in {200, 400}, NEW twice \in BOOLEAN,
         Execute(r, code, twice), NEW f \in DOMAIN peer, f \notin tainted'
  PROVE  CleanConn(f)'
<1>1. /\ requests' = requests \ {r}
      /\ stored' = IF r.opt = "put" /\ code = 200 THEN stored \cup {<<r.call, r.srv>>} ELSE stored
      /\ pc' = pc /\ fd' = fd /\ rest' = rest /\ call' = call /\ opt' = opt /\ ret' = ret
      /\ late' = late
  BY Zenon DEF Execute
<1>2. f \notin tainted /\ (f = r.fd => ~twice)
  <2>1. tainted' = IF twice /\ r.fd # -1 THEN tainted \cup {r.fd} ELSE tainted
    BY Zenon DEF Execute
  <2>2. f # -1
    BY PoolTypes
  <2> QED
    BY <2>1, <2>2
<1>3. CleanConn(f)
  BY <1>2 DEF ConnInv
<1>4. StoredNow => StoredNow'
  BY <1>1 DEF StoredNow
<1>5. StoredNow' => StoredNow \/ (r.call = call /\ r.opt = "put" /\ code = 200)
  BY <1>1 DEF StoredNow
<1>6. CASE f # r.fd
  <2>1. stream'[f] = stream[f]
    BY <1>6, Executed
  <2>2. \A q \in requests' : q.fd = f => q \in requests
    BY <1>1
  <2>3. Own(f) /\ StoredNow' => StoredNow \/ call \in late
    <3>1. Own(f) /\ r.call = call /\ call \notin late => Own(r.fd)
      BY DEF RequestsOK, Own
    <3>2. Own(f) /\ Own(r.fd) => f = r.fd
      BY DEF Own
    <3> QED
      BY <1>5, <1>6, <3>1, <3>2
  <2> QED
    BY <1>1, <1>3, <1>4, <2>1, <2>2, <2>3, UntouchedConn
<1>7. CASE f = r.fd
  <2>1. Own(f)
    BY <1>3, <1>7 DEF CleanConn, Silent
  <2>2. pc = "head" /\ stream[f] = << >> /\ r = Request(f, Head(rest))
    BY <1>3, <1>7, <2>1 DEF CleanConn, Pending
  <2>3. r.call = call /\ r.opt = opt
    BY <2>2 DEF Request
  <2>4. \A q \in requests : q.fd = f => q = r
    BY <1>3, <2>1, <2>2 DEF CleanConn, Pending
  <2>5. /\ Len(stream'[f]) = 2
        /\ stream'[f][1].call = call /\ stream'[f][2].call = call
        /\ stream'[f][1].code = code
    <3>1. f # -1
      BY PoolTypes
    <3>2. ~twice /\ r.fd # -1 /\ stream[r.fd] = << >>
      BY <1>2, <1>7, <2>2, <3>1
    <3>3. /\ Len(stream'[r.fd]) = 2
          /\ stream'[r.fd][1].call = r.call /\ stream'[r.fd][2].call = r.call
          /\ stream'[r.fd][1].code = code
      <4>1. r.fd # -1 => (~twice /\ stream[r.fd] = << >> =>
              /\ Len(stream'[r.fd]) = 2
              /\ stream'[r.fd][1].call = r.call /\ stream'[r.fd][2].call = r.call
              /\ stream'[r.fd][1].code = code)
        BY Executed
      <4> QED
        BY <3>2, <4>1, Zenon
    <3> QED
      BY <1>7, <2>3, <3>3, Zenon
  <2>6. NoReply(f)
    <3>1. ~WholeReply(f)
      <4>1. Len(<< >>) # 2
        OBVIOUS
      <4> QED
        BY <2>2, <4>1, Zenon DEF WholeReply
    <3> QED
      BY <1>3, <2>1, <2>2, <3>1 DEF CleanConn
  <2>7. Told(code)'
    <3>1. ASSUME opt = "put", code = 200 PROVE StoredNow'
      <4> PICK p : p = <<r.call, r.srv>>
        OBVIOUS
      <4>1. p \in stored'
        BY <1>1, <2>3, <3>1
      <4>2. p[1] = call'
        BY <1>1, <2>3
      <4> QED
        BY <4>1, <4>2 DEF StoredNow
    <3>2. ASSUME opt = "put", StoredNow', call \notin late PROVE code = 200
      BY <1>5, <2>6, <3>2 DEF NoReply
    <3> QED
      BY <1>1, <3>1, <3>2, Zenon DEF Told
  <2>8. WholeReply(f)'
    <3>1. Told(stream[f][1].code)'
      BY <2>5, <2>7, Zenon DEF Told
    <3> QED
      BY <1>1, <2>5, <3>1, Zenon DEF WholeReply
  <2>9. Pending(f)'
    BY <1>1, <2>4 DEF Pending
  <2>10. Own(f)' /\ pc' # "body"
    BY <1>1, <2>1, <2>2 DEF Own
  <2> QED
    BY <2>8, <2>9, <2>10, Zenon DEF CleanConn
<1> QED
  BY <1>6, <1>7

\* Every untainted connection holds at most the reply to the call that uses it.
LEMMA ConnKept ==
  ASSUME TypeInv, PoolIsExact, RequestsOK, ConnInv, PutInv, [Next]_vars
  PROVE  ConnInv'
<1>0. ConnType /\ requests \subseteq RequestType
  BY DEF TypeInv, PhpTypeOK, ConnType, RequestType
<1> SUFFICES ASSUME NEW f \in DOMAIN peer', f \notin tainted' PROVE CleanConn(f)'
  BY DEF ConnInv
<1>1. \A g \in DOMAIN peer \ tainted : CleanConn(g)
  BY DEF ConnInv
<1>2. CASE GivesUp \/ ShutsDown
  <2>1. PICK S : Frees(S) /\ \A g : Own(g) => g \in S
    BY <1>2, FreesSlots
  <2>2. /\ DOMAIN peer' = DOMAIN peer \ S /\ tainted' = tainted \ S
        /\ \A g \in DOMAIN peer \ S : stream'[g] = stream[g]
    BY <1>0, <2>1, AfterClose
  <2>3. f \in DOMAIN peer /\ f \notin S /\ f \notin tainted /\ f # -1
    BY <2>2, PoolTypes
  <2>4. Silent(f)
    BY <1>1, <2>1, <2>3 DEF CleanConn
  <2>5. requests' = Orphaned(S)
    BY <2>1, Zenon DEF Frees, Close
  <2>6. \A r \in requests' : r.fd = f => r \in requests
    <3> TAKE r \in requests'
    <3>1. r \in requests \/ r.fd = -1
      BY <1>0, <2>5, OrphanedIs, Zenon
    <3> QED
      BY <2>3, <3>1
  <2>7. Silent(f)'
    BY <2>2, <2>3, <2>4, <2>6, SilentKept
  <2>8. ~Own(f)'
    <3>1. GivesUp => pc' \in {"op", "idle"}
      <4>1. Failed => pc' \in {"op", "idle"}
        BY Zenon DEF Failed
      <4> QED
        BY <4>1, GaveUp, Zenon
    <3>2. ShutsDown => pc' = "idle"
      BY Zenon DEF ShutsDown, RequestShutdown, ModuleShutdown
    <3> QED
      BY <1>2, <3>1, <3>2 DEF Own
  <2> QED
    BY <2>7, <2>8, NotWaiting
<1>3. CASE Connect
  <2>1. PICK S, g, d, k : Opens(S, g, d, k)
    BY <1>3, OpensSlot
  <2>2. /\ pc = "op" /\ pc' = "head" /\ call' = call /\ opt' = opt /\ rest' = rest
        /\ late' = late /\ stored' = stored
    BY <1>3, Zenon DEF Connect
  <2>3. /\ g \in Fds /\ g \notin DOMAIN peer \ S /\ d = Head(rest) /\ fd' = g
        /\ requests' = Orphaned(S) \cup {Request(g, d)} /\ tainted' = tainted \ (S \cup {g})
    BY <2>1, Zenon DEF Opens
  <2>4. DOMAIN peer' = (DOMAIN peer \ S) \cup {g} /\ stream'[g] = << >>
    BY <1>0, <2>1, AfterOpen
  <2>5. \A h \in DOMAIN peer \ S : h # g => stream'[h] = stream[h]
    BY <1>0, <2>1, AfterOpen
  <2>6. \A r \in requests' : \/ r \in requests /\ r.fd \notin S
                             \/ r.fd = -1
                             \/ r = Request(g, Head(rest)) /\ r.fd = g
    <3> TAKE r \in requests'
    <3>1. CASE r \in Orphaned(S)
      BY <1>0, <3>1, OrphanedIs, Zenon
    <3>2. CASE r = Request(g, d)
      BY <2>3, <3>2 DEF Request
    <3> QED
      BY <2>3, <3>1, <3>2
  <2>7. \A r \in requests : r.fd \in DOMAIN peer \cup {-1}
    BY DEF RequestsOK
  <2>8. g # -1 /\ f # -1
    BY <2>3, <2>4, PoolTypes
  <2>9. CASE f = g
    <3>1. \A r \in requests' : r.fd = f => r = Request(f, Head(rest))
      BY <2>3, <2>6, <2>7, <2>8, <2>9
    <3>2. fd' = f /\ stream'[f] = << >>
      BY <2>3, <2>4, <2>9
    <3> QED
      BY <2>2, <3>1, <3>2, JustWritten
  <2>10. CASE f # g
    <3>1. f \in DOMAIN peer /\ f \notin S /\ f \notin tainted
      BY <2>3, <2>4, <2>10
    <3>2. ~Own(f) /\ ~Own(f)'
      BY <2>2, <2>3, <2>10 DEF Own
    <3>3. Silent(f)
      BY <1>1, <3>1, <3>2 DEF CleanConn
    <3>4. stream'[f] = stream[f] /\ \A r \in requests' : r.fd = f => r \in requests
      BY <2>5, <2>6, <2>8, <2>10, <3>1
    <3>5. Silent(f)'
      BY <3>3, <3>4, SilentKept
    <3> QED
      BY <3>2, <3>5, NotWaiting
  <2> QED
    BY <2>9, <2>10
<1>4. CASE Reuse
  <2>1. /\ pc = "op" /\ pc' = "head" /\ call' = call /\ opt' = opt /\ rest' = rest
        /\ late' = late /\ stored' = stored /\ peer' = peer /\ stream' = stream
        /\ tainted' = tainted
    BY <1>4, Zenon DEF Reuse
  <2>2. PICK g : g = fd'
    OBVIOUS
  <2>3. requests' \subseteq requests \cup {Request(g, Head(rest))}
    BY <1>4, <2>2, Reused
  <2>4. Request(g, Head(rest)).fd = g
    BY DEF Request
  <2>5. ~Own(f) /\ f \in DOMAIN peer \ tainted
    BY <2>1 DEF Own
  <2>6. Silent(f)
    BY <1>1, <2>5 DEF CleanConn
  <2>7. CASE f = g
    <3>1. fd' = f /\ stream'[f] = << >>
      BY <2>1, <2>2, <2>6, <2>7 DEF Silent
    <3>2. \A r \in requests' : r.fd = f => r = Request(f, Head(rest))
      BY <2>3, <2>6, <2>7 DEF Silent
    <3> QED
      BY <2>1, <3>1, <3>2, JustWritten
  <2>8. CASE f # g
    <3>1. ~Own(f)'
      BY <2>2, <2>8 DEF Own
    <3>2. stream'[f] = stream[f] /\ \A r \in requests' : r.fd = f => r \in requests
      BY <2>1, <2>3, <2>4, <2>8
    <3>3. Silent(f)'
      BY <2>6, <3>2, SilentKept
    <3> QED
      BY <3>1, <3>3, NotWaiting
  <2> QED
    BY <2>7, <2>8
<1>5. CASE Starts \/ SkipBad \/ Tick
  <2>1. UNCHANGED socks
    BY <1>5, Zenon DEF Starts, Start, SkipBad, Tick
  <2>2. peer' = peer /\ stream' = stream /\ requests' = requests /\ tainted' = tainted
    BY <2>1, Zenon DEF socks
  <2>3. /\ pc \notin {"head", "body"} /\ pc' \notin {"head", "body"}
    <3>1. Starts => pc = "idle" /\ pc' = "op"
      BY Zenon DEF Starts, Start
    <3>2. SkipBad => pc = "op" /\ pc' \in {"op", "idle"}
      BY Zenon DEF SkipBad, Failed
    <3>3. Tick => pc = "idle" /\ pc' = "idle"
      BY Zenon DEF Tick
    <3> QED
      BY <1>5, <3>1, <3>2, <3>3
  <2>4. ~Own(f) /\ ~Own(f)'
    BY <2>3 DEF Own
  <2>5. Silent(f)
    BY <1>1, <2>2, <2>4 DEF CleanConn
  <2>6. Silent(f)'
    BY <2>2, <2>5, SilentKept
  <2> QED
    BY <2>4, <2>6, NotWaiting
<1>6. CASE RecvAll \/ RecvHead \/ RecvBody
  <2>1. peer' = peer /\ tainted' = tainted
    BY <1>6, Zenon DEF RecvAll, RecvHead, RecvBody, Consume
  <2> QED
    BY <1>6, <2>1, ReceivedClean
<1>7. CASE Executes
  <2>1. PICK r \in requests, code \in {200, 400}, twice \in BOOLEAN : Execute(r, code, twice)
    BY <1>7 DEF Executes
  <2>2. peer' = peer
    BY <2>1, Zenon DEF Execute
  <2> QED
    BY <2>1, <2>2, ExecutedClean
<1>8. CASE Arrives \/ ServerClosing \/ UNCHANGED vars
  <2>1. /\ peer' = peer /\ tainted' = tainted /\ stream' = stream /\ requests' \subseteq requests
        /\ stored' = stored
    <3>1. Arrives => /\ peer' = peer /\ tainted' = tainted /\ stream' = stream
                     /\ requests' \subseteq requests /\ stored' = stored
      BY Zenon DEF Arrives, Arrive
    <3>2. ServerClosing => /\ peer' = peer /\ tainted' = tainted /\ stream' = stream
                           /\ requests' \subseteq requests /\ stored' = stored
      BY Zenon DEF ServerClosing, ServerCloses
    <3>3. UNCHANGED vars => /\ peer' = peer /\ tainted' = tainted /\ stream' = stream
                            /\ requests' \subseteq requests /\ stored' = stored
      BY Zenon DEF vars, socks
    <3> QED
      BY <1>8, <3>1, <3>2, <3>3, Zenon
  <2>2. Quiet
    BY <1>8, Zenon DEF Quiet
  <2>3. /\ pc' = pc /\ call' = call /\ opt' = opt /\ rest' = rest /\ fd' = fd /\ ret' = ret
        /\ late' = late
    BY <2>2, QuietSteps
  <2>4. StoredNow' <=> StoredNow
    BY <2>1, <2>3 DEF StoredNow
  <2>5. CleanConn(f)
    BY <1>1, <2>1
  <2>6. stream'[f] = stream[f] /\ \A r \in requests' : r.fd = f => r \in requests
    BY <2>1
  <2> QED
    BY <2>3, <2>4, <2>5, <2>6, UntouchedConn
<1> QED
  BY <1>2, <1>3, <1>4, <1>5, <1>6, <1>7, <1>8, Steps, Zenon

(***************************************************************************)
(* Where the message of a put can be                                       *)
(***************************************************************************)

\* A put reaches a new server only when its own call sends it there.
LEMMA PlacesStep ==
  ASSUME TypeInv, PoolIsExact, [Next]_vars, NEW c, NEW x, PutAt(c, x)'
  PROVE  PutAt(c, x) \/ ((Connect \/ Reuse) /\ c = call /\ opt = "put" /\ x = Head(rest))
<1>1. CASE <<c, x>> \in stored'
  <2>1. CASE <<c, x>> \in stored
    BY <2>1 DEF PutAt
  <2>2. CASE <<c, x>> \notin stored
    <3>1. Executes
      <4>1. ShutsDown \/ Tick => stored' = stored
        BY Zenon DEF ShutsDown, RequestShutdown, ModuleShutdown, Tick
      <4>2. Arrives \/ ServerClosing => stored' = stored
        BY Zenon DEF Arrives, ServerClosing, Arrive, ServerCloses
      <4>3. UNCHANGED vars => stored' = stored
        BY Zenon DEF vars
      <4>4. stored' # stored
        BY <1>1, <2>2
      <4> QED
        BY <4>1, <4>2, <4>3, <4>4, CallSteps, Zenon DEF Quiet
    <3>2. PICK r \in requests, code \in {200, 400}, twice \in BOOLEAN : Execute(r, code, twice)
      BY <3>1 DEF Executes
    <3>3. stored' = IF r.opt = "put" /\ code = 200 THEN stored \cup {<<r.call, r.srv>>} ELSE stored
      BY <3>2, Zenon DEF Execute
    <3>4. r.opt = "put" /\ <<c, x>> = <<r.call, r.srv>>
      BY <1>1, <2>2, <3>3
    <3>5. r.call = c /\ r.srv = x
      BY <3>4
    <3> QED
      BY <3>4, <3>5, Zenon DEF PutAt
  <2> QED
    BY <2>1, <2>2
<1>2. CASE \E r \in requests' : r.call = c /\ r.opt = "put" /\ r.srv = x
  <2>1. PICK r \in requests' : r.call = c /\ r.opt = "put" /\ r.srv = x
    BY <1>2
  <2>2. \/ \E q \in requests : q.call = c /\ q.opt = "put" /\ q.srv = x
        \/ (Connect \/ Reuse) /\ r.call = call /\ r.opt = opt /\ r.srv = Head(rest)
    BY <2>1, RequestSteps, Zenon
  <2> QED
    BY <2>1, <2>2, Zenon DEF PutAt
<1> QED
  BY <1>1, <1>2, Zenon DEF PutAt

\* A call that was not made has put nothing.
LEMMA NoPutYet ==
  ASSUME TypeInv, RequestsOK, NEW c \in Nat, c > call, NEW x
  PROVE  ~PutAt(c, x)
<1>1. call \in Nat
  BY PhpAssumption DEF TypeInv, PhpTypeOK
<1>2. <<c, x>> \notin stored
  <2>1. ASSUME <<c, x>> \in stored PROVE FALSE
    <3>1. <<c, x>>[1] <= call
      BY <2>1 DEF RequestsOK
    <3> QED
      BY <1>1, <3>1
  <2> QED
    BY <2>1
<1>3. \A r \in requests : r.call # c
  BY <1>1 DEF RequestsOK
<1> QED
  BY <1>2, <1>3 DEF PutAt

\* Only one server has or may get the message of a call that gave none up.
LEMMA PutKept ==
  ASSUME TypeInv, PoolIsExact, RequestsOK, PutInv, [Next]_vars
  PROVE  PutInv'
<1>0. call \in Nat
  BY CallGrows
<1>1. /\ \A c \in 1 .. call : c \notin late =>
           \A s, t \in Dests : PutAt(c, s) /\ PutAt(c, t) => s = t
      /\ pc = "op" /\ call \notin late => \A s \in Dests : ~PutAt(call, s)
      /\ pc \in {"head", "body"} /\ call \notin late =>
           \A s \in Dests : PutAt(call, s) => s = Head(rest)
      /\ opt # "put" => \A s \in Dests : ~PutAt(call, s)
  BY DEF PutInv
<1>2. \A c : c \notin late' => c \notin late
  BY CallSteps, QuietSteps, Zenon
<1>3. CASE Starts
  <2>1. call' = call + 1
    BY <1>3, Zenon DEF Starts, Start
  <2>2. \A c, x : PutAt(c, x)' => PutAt(c, x)
    <3>1. ~Connect /\ ~Reuse
      <4>1. pc = "idle"
        BY <1>3, Zenon DEF Starts, Start
      <4>2. pc # "op"
        BY <4>1
      <4> QED
        BY <4>2, Zenon DEF Connect, Reuse
    <3> QED
      BY <3>1, PlacesStep
  <2> PICK k : k = call'
    OBVIOUS
  <2>3. k \in Nat /\ k > call /\ k = call + 1
    BY <1>0, <2>1
  <2>4. \A x : ~PutAt(k, x)
    BY <2>3, NoPutYet
  <2>5. \A c \in 1 .. k : c \notin late' =>
          \A s, t \in Dests : PutAt(c, s)' /\ PutAt(c, t)' => s = t
    <3> TAKE c \in 1 .. k
    <3>1. c \in 1 .. call \/ c = k
      BY <1>0, <2>3
    <3> QED
      BY <1>1, <1>2, <2>2, <2>4, <3>1
  <2>6. \A s \in Dests : ~PutAt(k, s)'
    BY <2>2, <2>4
  <2>7. pc' \notin {"head", "body"}
    BY <1>3, Zenon DEF Starts, Start
  <2> QED
    BY <2>5, <2>6, <2>7, Zenon DEF PutInv, PutAt
<1>4. CASE Connect \/ Reuse
  <2>1. /\ pc = "op" /\ pc' = "head" /\ call' = call /\ opt' = opt /\ rest' = rest /\ late' = late
    BY <1>4, Zenon DEF Connect, Reuse
  <2>2. \A c, x : PutAt(c, x)' => PutAt(c, x) \/ (c = call /\ opt = "put" /\ x = Head(rest))
    BY PlacesStep
  <2> PICK k : k = call
    OBVIOUS
  <2>3. k \notin late => \A s \in Dests : PutAt(k, s)' => s = Head(rest)
    BY <1>1, <2>1, <2>2
  <2>4. \A c \in 1 .. k : c \notin late' =>
          \A s, t \in Dests : PutAt(c, s)' /\ PutAt(c, t)' => s = t
    <3> TAKE c \in 1 .. k
    <3>1. CASE c = k
      BY <2>1, <2>3, <3>1
    <3>2. CASE c # k
      <4>1. \A x : PutAt(c, x)' => PutAt(c, x)
        BY <2>2, <3>2
      <4> QED
        BY <1>1, <1>2, <4>1
    <3> QED
      BY <3>1, <3>2
  <2>5. opt # "put" => \A s \in Dests : ~PutAt(k, s)'
    BY <1>1, <2>2
  <2>6. k = call'
    BY <2>1
  <2>7. pc' # "op"
    BY <2>1
  <2> QED
    BY <2>1, <2>3, <2>4, <2>5, <2>6, <2>7, Zenon DEF PutInv, PutAt
<1>5. CASE ~Starts /\ ~Connect /\ ~Reuse
  <2>1. \A c, x : PutAt(c, x)' => PutAt(c, x)
    BY <1>5, PlacesStep
  <2>2. call' = call /\ opt' = opt
    BY <1>5, CallSteps, QuietSteps, Zenon
  <2> PICK k : k = call'
    OBVIOUS
  <2>3. \A c \in 1 .. k : c \notin late' =>
          \A s, t \in Dests : PutAt(c, s)' /\ PutAt(c, t)' => s = t
    BY <1>1, <1>2, <2>1, <2>2
  <2>4. pc' = "op" /\ k \notin late' => pc = "op"
    <3>1. "op" # "body" /\ "op" # "idle"
      OBVIOUS
    <3>2. GivesUp /\ late' = late \cup {call} => k \in late'
      BY <2>2
    <3> QED
      BY <1>5, <3>1, <3>2, CallSteps, QuietSteps, Zenon
  <2>5. pc' = "op" /\ k \notin late' => \A s \in Dests : ~PutAt(k, s)'
    BY <1>1, <1>2, <2>1, <2>2, <2>4
  <2>6. pc' \in {"head", "body"} => pc \in {"head", "body"} /\ rest' = rest
    <3>1. "op" \notin {"head", "body"} /\ "idle" \notin {"head", "body"}
          /\ \A p : p \in {"op", "idle"} => p \notin {"head", "body"}
      OBVIOUS
    <3>2. CASE Quiet
      BY <3>2, QuietSteps, Zenon
    <3>3. CASE RecvHead
      BY <3>3, Zenon DEF RecvHead
    <3> QED
      BY <1>5, <3>1, <3>2, <3>3, CallSteps, Zenon
  <2>7. pc' \in {"head", "body"} /\ k \notin late' =>
          \A s \in Dests : PutAt(k, s)' => s = Head(rest')
    BY <1>1, <1>2, <2>1, <2>2, <2>6
  <2>8. opt' # "put" => \A s \in Dests : ~PutAt(k, s)'
    BY <1>1, <2>1, <2>2
  <2> QED
    BY <2>3, <2>5, <2>7, <2>8, Zenon DEF PutInv, PutAt
<1> QED
  BY <1>3, <1>4, <1>5

(***************************************************************************)
(* What a call returns                                                     *)
(***************************************************************************)

\* What the current call has stored stays, and grows only by its own requests.
LEMMA StoredStep ==
  ASSUME TypeInv, PoolIsExact, [Next]_vars, call' = call
  PROVE  /\ StoredNow => StoredNow'
         /\ StoredNow' => StoredNow \/ (Executes /\ \E r \in requests : r.call = call)
<1>1. CASE Executes
  <2>1. PICK r \in requests, code \in {200, 400}, twice \in BOOLEAN : Execute(r, code, twice)
    BY <1>1 DEF Executes
  <2>2. stored' = stored \/ stored' = stored \cup {<<r.call, r.srv>>}
    BY <2>1, Zenon DEF Execute
  <2>3. StoredNow => StoredNow'
    BY <2>2 DEF StoredNow
  <2>4. StoredNow' => StoredNow \/ r.call = call
    BY <2>2 DEF StoredNow
  <2> QED
    BY <1>1, <2>3, <2>4
<1>2. CASE ~Executes
  <2>1. stored' = stored
    <3>1. ShutsDown \/ Tick => stored' = stored
      BY Zenon DEF ShutsDown, RequestShutdown, ModuleShutdown, Tick
    <3>2. Arrives \/ ServerClosing => stored' = stored
      BY Zenon DEF Arrives, ServerClosing, Arrive, ServerCloses
    <3>3. UNCHANGED vars => stored' = stored
      BY Zenon DEF vars
    <3> QED
      BY <1>2, <3>1, <3>2, <3>3, CallSteps, Zenon DEF Quiet
  <2> QED
    BY <2>1 DEF StoredNow
<1> QED
  BY <1>1, <1>2

\* What the last receive of a call, or the receive of a head, tells of a put.
LEMMA ReadingTells ==
  ASSUME TypeInv, ConnInv, RecvAll \/ RecvHead \/ RecvBody, ret'.clean
  PROVE  Told(ret'.code) /\ fd \notin tainted /\ stream[fd][1].call = call
<1>1. fd \notin tainted
  BY RetSteps
<1>2. RecvAll \/ RecvHead => WholeReply(fd)
  BY <1>1, Reading
<1>3. RecvBody => RestOfReply(fd)
  BY <1>1, Reading
<1>4. RecvBody => ret'.code = ret.code
  BY RetSteps
<1>5. ~RecvBody => ret'.code = stream[fd][1].code
  BY RetSteps
<1>6. CASE RecvBody
  BY <1>1, <1>3, <1>4, <1>6, Zenon DEF RestOfReply
<1>7. CASE ~RecvBody
  BY <1>1, <1>2, <1>5, <1>7, Zenon DEF WholeReply
<1> QED
  BY <1>6, <1>7

\* httpcode 200 for a put is told only after its server stored the message.
LEMMA RetKept ==
  ASSUME TypeInv, PoolIsExact, RequestsOK, ConnInv, PutInv, RetInv, [Next]_vars
  PROVE  RetInv'
<1>1. opt = "put" /\ ret.clean /\ ret.code = 200 => StoredNow
  BY DEF RetInv
<1>2. CASE Starts
  <2>1. ret' = NoReturn /\ pc' = "op"
    BY <1>2, Zenon DEF Starts, Start
  <2>2. ret'.code # 200 /\ pc' # "idle"
    BY <2>1 DEF NoReturn
  <2> QED
    BY <2>2, Zenon DEF RetInv
<1>3. CASE Connect \/ Reuse
  <2>1. pc' = "head" /\ call' = call /\ opt' = opt /\ ret' = ret
    BY <1>3, Zenon DEF Connect, Reuse
  <2>2. StoredNow => StoredNow'
    BY <2>1, StoredStep
  <2>3. pc' # "idle"
    BY <2>1
  <2> QED
    BY <1>1, <2>1, <2>2, <2>3, Zenon DEF RetInv
<1>4. CASE (GivesUp \/ SkipBad) /\ pc = "op"
  <2>1. call' = call /\ opt' = opt /\ ret' = ret /\ late' = late /\ stored' = stored
    <3>1. SkipBad => call' = call /\ opt' = opt /\ ret' = ret /\ late' = late /\ stored' = stored
      BY Zenon DEF SkipBad
    <3>2. GivesUp => call' = call /\ opt' = opt /\ ret' = ret /\ late' = late /\ stored' = stored
      BY <1>4, GaveUp
    <3> QED
      BY <1>4, <3>1, <3>2, Zenon
  <2>2. StoredNow' <=> StoredNow
    BY <2>1 DEF StoredNow
  <2>3. StoredNow => call \in late
    BY <1>4, NothingStoredYet
  <2>4. call \notin late => \A r \in requests : r.call # call
    BY <1>4 DEF RequestsOK, Own
  <2>5. ~Connect /\ ~Reuse
    <3>1. SkipBad => pc' \in {"op", "idle"}
      BY Zenon DEF SkipBad, Failed
    <3>2. GivesUp => pc' \in {"op", "idle"}
      <4>1. Failed => pc' \in {"op", "idle"}
        BY Zenon DEF Failed
      <4> QED
        BY <4>1, GaveUp, Zenon
    <3>3. pc' # "head"
      BY <1>4, <3>1, <3>2
    <3> QED
      BY <3>3, Zenon DEF Connect, Reuse
  <2>6. call \notin late => \A r \in requests' : r.call # call
    BY <2>4, <2>5, RequestSteps, Zenon
  <2> QED
    BY <1>1, <2>1, <2>2, <2>3, <2>6, Zenon DEF RetInv
<1>5. CASE GivesUp /\ pc \in {"head", "body"}
  <2>1. /\ call' = call /\ opt' = opt /\ late' = late \cup {call}
        /\ RecvTooMuch \/ ret' = ret
    BY <1>5, GaveUp
  <2>2. StoredNow => StoredNow'
    BY <2>1, StoredStep
  <2>3. RecvTooMuch => ~ret'.clean
    <3>1. ASSUME RecvTooMuch, ret'.clean PROVE FALSE
      <4>1. fd \notin tainted /\ fd \in DOMAIN peer
        BY <3>1, RetSteps
      <4>2. CleanConn(fd) /\ Own(fd) /\ pc = "head"
        BY <3>1, <4>1 DEF ConnInv, Own, RecvTooMuch
      <4>3. stream[fd] = << >> \/ Len(stream[fd]) = 2
        BY <4>2 DEF CleanConn, NoReply, WholeReply
      <4>4. Len(<< >>) = 0
        OBVIOUS
      <4>5. Len(stream[fd]) = 0 \/ Len(stream[fd]) = 2
        BY <4>3, <4>4, Zenon
      <4>6. arrived[fd] \in 0 .. Len(stream[fd]) /\ arrived[fd] > 2
        BY <3>1, <4>1 DEF TypeInv, PhpTypeOK, RecvTooMuch
      <4> PICK n : n = Len(stream[fd])
        OBVIOUS
      <4> PICK a : a = arrived[fd]
        OBVIOUS
      <4>7. (n = 0 \/ n = 2) /\ a \in 0 .. n /\ a > 2
        BY <4>5, <4>6, Zenon
      <4>8. a \in 0 .. 0 \/ a \in 0 .. 2
        BY <4>7, Zenon
      <4>9. \A b : b \in 0 .. 0 \/ b \in 0 .. 2 => ~(b > 2)
        OBVIOUS
      <4> QED
        BY <4>7, <4>8, <4>9, Zenon
    <3> QED
      BY <3>1
  <2>4. call' \in late'
    BY <2>1
  <2>5. ret'.clean => ret' = ret
    BY <2>1, <2>3
  <2> QED
    BY <1>1, <2>1, <2>2, <2>4, <2>5, Zenon DEF RetInv
<1>6. CASE RecvAll \/ RecvHead \/ RecvBody
  <2>1. /\ call' = call /\ opt' = opt /\ late' = late /\ stored' = stored
        /\ requests' = requests
    BY <1>6, Zenon DEF RecvAll, RecvHead, RecvBody, Consume
  <2>2. StoredNow' <=> StoredNow
    BY <2>1 DEF StoredNow
  <2>3. ret'.clean => Told(ret'.code) /\ fd \notin tainted
    BY <1>6, ReadingTells
  <2>4. ret'.clean => \A r \in requests : r.fd # fd
    BY <1>6, <2>3, Reading
  <2>5. pc # "idle"
    BY <1>6 DEF RecvAll, RecvHead, RecvBody
  <2>6. \A r \in requests : r.call = call /\ call \notin late => r.fd = fd
    BY <2>5 DEF RequestsOK, Own
  <2>7. opt = "put" /\ ret'.clean => /\ ret'.code = 200 => StoredNow
                                     /\ StoredNow /\ call \notin late => ret'.code = 200
    BY <2>3, Zenon DEF Told
  <2>8. ret'.clean /\ call \notin late => \A r \in requests : r.call # call
    BY <2>4, <2>6, Zenon
  <2> QED
    BY <2>1, <2>2, <2>7, <2>8, Zenon DEF RetInv
<1>7. CASE Quiet /\ ~Connect /\ ~Reuse
  <2>1. /\ pc' = pc /\ call' = call /\ opt' = opt /\ ret' = ret /\ late' = late
    BY <1>7, QuietSteps
  <2>2. /\ StoredNow => StoredNow'
        /\ StoredNow' => StoredNow \/ \E r \in requests : r.call = call
    BY <2>1, StoredStep
  <2>3. \A r \in requests' : \E q \in requests : q.call = r.call
    BY <1>7, RequestSteps, Zenon
  <2>4. pc = "idle" /\ opt = "put" /\ ret.clean /\ call \notin late =>
          (StoredNow => ret.code = 200) /\ \A r \in requests : r.call # call
    BY DEF RetInv
  <2>5. pc = "idle" /\ opt = "put" /\ ret.clean /\ call \notin late =>
          (StoredNow' => ret.code = 200) /\ \A r \in requests' : r.call # call
    <3> HAVE pc = "idle" /\ opt = "put" /\ ret.clean /\ call \notin late
    <3>1. \A r \in requests : r.call # call
      BY <2>4, Zenon
    <3>2. StoredNow => ret.code = 200
      BY <2>4, Zenon
    <3>3. \A r \in requests' : r.call # call
      BY <2>3, <3>1, Zenon
    <3>4. StoredNow' => StoredNow
      BY <2>2, <3>1, Zenon
    <3> QED
      BY <3>2, <3>3, <3>4, Zenon
  <2> QED
    BY <1>1, <2>1, <2>2, <2>5, Zenon DEF RetInv
<1> QED
  BY <1>2, <1>3, <1>4, <1>5, <1>6, <1>7, CallSteps, Zenon

\* What a call returns came from a reply to it.
LEMMA OwnKept ==
  ASSUME TypeInv, ConnInv, OwnInv, [Next]_vars
  PROVE  OwnInv'
<1>1. /\ pc = "idle" /\ ret.ok /\ ret.clean => ret.of = call
      /\ pc # "idle" => ~ret.ok
  BY DEF OwnInv, AnswerIsOwn
<1>2. CASE Starts
  <2>1. ret' = NoReturn
    BY <1>2, Zenon DEF Starts, Start
  <2>2. ~ret'.ok
    BY <2>1 DEF NoReturn
  <2> QED
    BY <2>2, Zenon DEF OwnInv, AnswerIsOwn
<1>3. CASE pc # "idle" /\ (ret' = ret \/ RecvTooMuch \/ RecvHead)
  <2>1. ret'.ok = ret.ok
    BY <1>3, RetSteps
  <2>2. ~ret'.ok
    BY <1>1, <1>3, <2>1
  <2> QED
    BY <2>2, Zenon DEF OwnInv, AnswerIsOwn
<1>4. CASE RecvAll \/ RecvBody
  <2>1. pc' = "idle" /\ call' = call
    BY <1>4, Zenon DEF RecvAll, RecvBody, Succeeded
  <2>2. ret'.of = stream[fd][1].call
    BY <1>4, RetSteps
  <2>3. ret'.clean => stream[fd][1].call = call
    BY <1>4, ReadingTells
  <2> QED
    BY <2>1, <2>2, <2>3, Zenon DEF OwnInv, AnswerIsOwn
<1>5. CASE Quiet
  <2>1. pc' = pc /\ call' = call /\ ret' = ret
    BY <1>5, QuietSteps
  <2> QED
    BY <1>1, <2>1, Zenon DEF OwnInv, AnswerIsOwn
<1>6. pc = "op" \/ pc \in {"head", "body"} => pc # "idle"
  OBVIOUS
<1>7. pc = "head" => pc # "idle"
  OBVIOUS
<1> QED
  BY <1>2, <1>3, <1>4, <1>5, <1>6, <1>7, CallSteps, Zenon

(***************************************************************************)
(* The theorems                                                            *)
(***************************************************************************)

\* At the start there are no slots in use, sockets, calls or requests.
LEMMA InitPhp == Init => PhpInv
<1> SUFFICES ASSUME Init PROVE PhpInv
  OBVIOUS
<1>1. /\ mq_list = [i \in 1 .. Slots |-> FreeSlot]
      /\ peer = << >> /\ closing = {} /\ stream = << >> /\ arrived = << >>
      /\ requests = {} /\ tainted = {} /\ now = 0
      /\ pc = "idle" /\ call = 0 /\ opt = "none" /\ rest = << >> /\ fd = -1
      /\ ret = NoReturn /\ stored = {} /\ late = {}
  BY DEF Init
<1>2. DOMAIN peer = {} /\ DOMAIN stream = {} /\ DOMAIN arrived = {}
  BY <1>1
<1>3. FreeSlot \in SlotType /\ FreeSlot.fd = -1
  BY PhpAssumption DEF FreeSlot, SlotType
<1>4. mq_list \in [1 .. Slots -> SlotType] /\ \A i \in 1 .. Slots : mq_list[i].fd = -1
  BY <1>1, <1>3
<1>5. /\ ret \in [ok: BOOLEAN, code: Code, of: 0 .. MaxCalls, clean: BOOLEAN]
      /\ ~ret.ok /\ ret.code # 200
  BY <1>1, PhpAssumption DEF NoReturn, Code
<1>6. CallType
  <2>1. << >> \in Seq(Dests \cup {BadDest})
    BY EmptySeq
  <2>2. 0 \in 0 .. MaxTime /\ 0 \in 0 .. MaxCalls
    BY PhpAssumption
  <2> QED
    BY <1>1, <1>5, <2>1, <2>2 DEF CallType
<1>7. ConnType
  BY <1>1, <1>2 DEF ConnType
<1>8. TypeInv
  <2>1. requests \subseteq RequestType
    BY <1>1
  <2>2. pc \notin {"head", "body"}
    BY <1>1
  <2> QED
    BY <1>4, <1>6, <1>7, <2>1, <2>2, Zenon
       DEF TypeInv, PhpTypeOK, ConnType, CallType, SlotType, RequestType
<1>9. PoolIsExact
  BY <1>2, <1>4 DEF PoolIsExact
<1>10. RequestsOK
  BY <1>1 DEF RequestsOK
<1>11. ConnInv
  BY <1>2 DEF ConnInv
<1>12. PutInv
  <2>1. \A c, x : ~PutAt(c, x)
    BY <1>1 DEF PutAt
  <2> QED
    BY <1>1, <2>1 DEF PutInv
<1>13. RetInv /\ OwnInv
  BY <1>1, <1>5 DEF RetInv, OwnInv, AnswerIsOwn
<1> QED
  BY <1>8, <1>9, <1>10, <1>11, <1>12, <1>13 DEF PhpInv

\* Every step keeps the inductive invariant.
LEMMA NextPhp == PhpInv /\ [Next]_vars => PhpInv'
<1> SUFFICES ASSUME PhpInv, [Next]_vars PROVE PhpInv'
  OBVIOUS
<1> TypeInv /\ PoolIsExact /\ RequestsOK /\ ConnInv /\ PutInv /\ RetInv /\ OwnInv
  BY DEF PhpInv
<1>1. TypeInv' /\ PoolIsExact'
  BY TypeKept, PoolKept
<1>2. RequestsOK'
  BY RequestsKept
<1>3. ConnInv' /\ PutInv'
  BY ConnKept, PutKept
<1>4. RetInv' /\ OwnInv'
  BY RetKept, OwnKept
<1> QED
  BY <1>1, <1>2, <1>3, <1>4, Zenon DEF PhpInv

\* The inductive invariant holds in every state of every process, whatever the
\* servers do.
THEOREM PhpInvHolds == Spec => []PhpInv
BY InitPhp, NextPhp, PTL DEF Spec

\* Every variable of the extension keeps its type: above all, there is a number
\* for every new socket, as the table is as long as the sockets are many.
THEOREM PhpTypeCorrect == Spec => []PhpTypeOK
<1>1. PhpInv => PhpTypeOK
  BY DEF PhpInv, TypeInv
<1> QED
  BY <1>1, PhpInvHolds, PTL

\* get_from_list, add_to_list, del_from_list and the two shutdown functions leave
\* in the table exactly the open sockets, one for a server.
THEOREM PoolExact == Spec => []PoolIsExact
<1>1. PhpInv => PoolIsExact
  BY DEF PhpInv
<1> QED
  BY <1>1, PhpInvHolds, PTL

\* A reply that a call returns is the reply to its own request, unless a server
\* has answered twice on that connection.
THEOREM PhpAnswersAreOwn == Spec => []AnswerIsOwn
<1>1. PhpInv => AnswerIsOwn
  BY DEF PhpInv, OwnInv
<1> QED
  BY <1>1, PhpInvHolds, PTL

\* What a put returns is what became of the message, unless the client gave up a
\* server it had written to.
THEOREM PutsAreTold == Spec => []PutIsTold
<1>1. PhpInv => PutIsTold
  <2> SUFFICES ASSUME PhpInv PROVE PutIsTold
    OBVIOUS
  <2>1. TypeInv /\ RequestsOK /\ PutInv /\ RetInv
    BY DEF PhpInv
  <2>2. pc = "idle" /\ opt = "put" /\ ret.clean =>
          /\ ret.code = 200 => \E s \in stored : s[1] = call
          /\ (\E s \in stored : s[1] = call) /\ ret.code # 200 => call \in late
    BY <2>1, Zenon DEF RetInv, StoredNow
  <2>3. ASSUME NEW s \in stored, NEW t \in stored, s[1] = t[1], s # t
        PROVE  s[1] \in late
    <3>1. s \in (1 .. MaxCalls) \X Dests /\ t \in (1 .. MaxCalls) \X Dests
      BY <2>1 DEF TypeInv, PhpTypeOK
    <3>2. s = <<s[1], s[2]>> /\ t = <<s[1], t[2]>> /\ s[2] \in Dests /\ t[2] \in Dests
          /\ s[1] \in 1 .. MaxCalls
      BY <2>3, <3>1
    <3>3. s[2] # t[2]
      BY <2>3, <3>2, Zenon
    <3>4. PutAt(s[1], s[2]) /\ PutAt(s[1], t[2])
      BY <3>2 DEF PutAt
    <3>5. s[1] \in 1 .. call
      <4>1. s[1] <= call /\ call \in Nat
        BY <2>1, PhpAssumption DEF RequestsOK, TypeInv, PhpTypeOK
      <4> QED
        BY <3>2, <4>1
    <3> QED
      BY <2>1, <3>2, <3>3, <3>4, <3>5, Zenon DEF PutInv
  <2> QED
    BY <2>2, <2>3, Zenon DEF PutIsTold
<1> QED
  BY <1>1, PhpInvHolds, PTL

\* Every step of a call that is not the last brings it closer to its end: no
\* server of the list is tried twice.
THEOREM CallsEnd == Spec => CallEnds
<1>1. PhpInv /\ [Next]_vars =>
        [pc # "idle" /\ <<pc, rest>>' # <<pc, rest>> => Rank' < Rank]_vars
  <2> SUFFICES ASSUME PhpInv, [Next]_vars, pc # "idle", <<pc, rest>>' # <<pc, rest>>
               PROVE  Rank' < Rank
    BY Zenon
  <2>1. TypeInv
    BY DEF PhpInv
  <2>2. Len(rest) \in Nat \ {0} /\ Len(Tail(rest)) = Len(rest) - 1
    BY <2>1, RestType
  <2> PICK n : n = Len(rest)
    OBVIOUS
  <2>3. n \in Nat /\ n >= 1
    BY <2>2
  <2>4. ~Quiet
    BY QuietSteps
  <2>5. ~Starts
    BY Zenon DEF Starts, Start
  <2>6. CASE Connect \/ Reuse
    <3>1. pc = "op" /\ pc' = "head" /\ rest' = rest
      BY <2>6, Zenon DEF Connect, Reuse
    <3>2. Rank = 3 * n - 0 /\ Rank' = 3 * n - 1
      BY <3>1 DEF Rank
    <3> QED
      BY <2>3, <3>2
  <2>7. CASE RecvHead
    <3>1. pc = "head" /\ pc' = "body" /\ rest' = rest
      BY <2>7, Zenon DEF RecvHead
    <3>2. Rank = 3 * n - 1 /\ Rank' = 3 * n - 2
      BY <3>1 DEF Rank
    <3> QED
      BY <2>3, <3>2
  <2>8. Rank \in {3 * n - 0, 3 * n - 1, 3 * n - 2}
    BY DEF Rank
  <2>9. CASE GivesUp \/ SkipBad
    <3>1. Failed
      BY <2>1, <2>9, GaveUp, Zenon DEF SkipBad
    <3>2. rest' = Tail(rest) /\ pc' \in {"op", "idle"}
      BY <3>1, Zenon DEF Failed
    <3>3. Len(rest') = n - 1
      BY <2>2, <3>2, Zenon
    <3>4. Rank' = 3 * (n - 1) - 0
      BY <3>2, <3>3 DEF Rank
    <3> QED
      BY <2>3, <2>8, <3>4
  <2>10. CASE RecvAll \/ RecvBody
    <3>1. pc' = "idle" /\ rest' = << >>
      BY <2>10, Zenon DEF RecvAll, RecvBody, Succeeded
    <3>2. Len(rest') = 0
      BY <3>1
    <3>3. Rank' = 3 * 0 - 0
      BY <3>1, <3>2 DEF Rank
    <3> QED
      BY <2>3, <2>8, <3>3
  <2> QED
    BY <2>1, <2>4, <2>5, <2>6, <2>7, <2>9, <2>10, CallSteps, Zenon
<1> QED
  BY <1>1, PhpInvHolds, PTL DEF Spec, CallEnds

=============================================================================
