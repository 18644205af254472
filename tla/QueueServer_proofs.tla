-------------------------- MODULE QueueServer_proofs --------------------------
(***************************************************************************)
(* Proofs about QueueServer: its four invariants and its action property   *)
(* hold for any set of names, any limits and any number of requests.       *)
(***************************************************************************)
EXTENDS QueueServer, FiniteSetTheorems, TLAPS

\* The directories the next start would open.
Opened == {q \in DOMAIN disk : disk[q].ok}

\* LimitKept is not inductive: a restart takes whatever it finds on the disk,
\* so the limit must hold for the directories, while the server is down too.
\* CountCovers needs the pairs to be finitely many, or their number says
\* nothing.
ServerInv ==
  /\ ServerTypeOK
  /\ IsFiniteSet(Believed(qlist)) /\ CountCovers
  /\ Cardinality(Opened) <= MaxQlistItems
  /\ ListMatchesDisk
  /\ status = "down" => qlist = << >>

\* What the pairs of Believed are.
LEMMA BelievedPairs ==
  ASSUME NEW f, NEW p
  PROVE  p \in Believed(f) <=>
           \E q \in DOMAIN f : \E i \in 1 .. f[q] : p = <<q, i>>
BY DEF Believed

\* A table of finitely many queues with numbers up to a bound stands for
\* finitely many messages.
LEMMA BelievedFinite ==
  ASSUME NEW f, DOMAIN f \subseteq Names,
         NEW n \in Nat, \A q \in DOMAIN f : f[q] \in 0 .. n
  PROVE  IsFiniteSet(Believed(f)) /\ Total(f) \in Nat
<1>1. IsFiniteSet(Names) /\ IsFiniteSet(1 .. n)
  BY ServerAssumption, FS_Interval
<1>2. IsFiniteSet(Names \X (1 .. n))
  BY <1>1, FS_Product
<1>3. Believed(f) \subseteq Names \X (1 .. n)
  BY BelievedPairs
<1> QED
  BY <1>2, <1>3, FS_Subset, FS_CardinalityType DEF Total

\* A table with no more queues and no larger numbers stands for no more.
LEMMA BelievedShrinks ==
  ASSUME NEW f, NEW g, IsFiniteSet(Believed(f)),
         \A q \in DOMAIN g : q \in DOMAIN f /\ g[q] <= f[q],
         \A q \in DOMAIN f : f[q] \in Nat,
         \A q \in DOMAIN g : g[q] \in Nat
  PROVE  IsFiniteSet(Believed(g)) /\ Total(g) <= Total(f)
<1>1. Believed(g) \subseteq Believed(f)
  <2> SUFFICES ASSUME NEW p \in Believed(g) PROVE p \in Believed(f)
    OBVIOUS
  <2>1. PICK q \in DOMAIN g : \E i \in 1 .. g[q] : p = <<q, i>>
    BY BelievedPairs
  <2>2. q \in DOMAIN f /\ \E i \in 1 .. f[q] : p = <<q, i>>
    BY <2>1
  <2> QED
    BY <2>2, BelievedPairs
<1> QED
  BY <1>1, FS_Subset DEF Total

\* A new queue without messages changes nothing.
LEMMA BelievedTouched ==
  ASSUME NEW q
  PROVE  Believed(TouchedList(q)) = Believed(qlist)
<1>1. CASE Listed(q)
  BY <1>1 DEF TouchedList
<1>2. CASE ~Listed(q)
  <2>1. ASSUME NEW p PROVE p \in Believed(Set(qlist, q, 0)) <=> p \in Believed(qlist)
    BY <1>2, BelievedPairs DEF Set, Listed
  <2> QED
    BY <1>2, <2>1 DEF TouchedList
<1> QED
  BY <1>1, <1>2

\* One more message in one queue is one more in all.
LEMMA BelievedGrows ==
  ASSUME NEW f, NEW q \in DOMAIN f, f[q] \in Nat, IsFiniteSet(Believed(f))
  PROVE  LET g == [f EXCEPT ![q] = @ + 1]
         IN  IsFiniteSet(Believed(g)) /\ Total(g) = Total(f) + 1
<1> DEFINE g == [f EXCEPT ![q] = @ + 1]
<1>1. Believed(g) = Believed(f) \cup {<<q, f[q] + 1>>}
  <2>1. ASSUME NEW p
        PROVE  p \in Believed(g) <=> p \in Believed(f) \/ p = <<q, f[q] + 1>>
    <3>1. DOMAIN g = DOMAIN f /\ \A r \in DOMAIN f : g[r] = IF r = q THEN f[q] + 1 ELSE f[r]
      OBVIOUS
    <3>2. 1 .. (f[q] + 1) = (1 .. f[q]) \cup {f[q] + 1}
      OBVIOUS
    <3> HIDE DEF g
    <3> QED
      BY <3>1, <3>2, BelievedPairs
  <2> QED
    BY <2>1
<1>2. <<q, f[q] + 1>> \notin Believed(f)
  BY BelievedPairs
<1>3. /\ IsFiniteSet(Believed(f) \cup {<<q, f[q] + 1>>})
      /\ Cardinality(Believed(f) \cup {<<q, f[q] + 1>>}) = Cardinality(Believed(f)) + 1
  BY <1>2, FS_AddElement
<1> QED
  BY <1>1, <1>3 DEF Total

\* One message less in one queue is one less in all, and there was one.
LEMMA BelievedTaken ==
  ASSUME NEW f, NEW q \in DOMAIN f, f[q] \in Nat, f[q] >= 1, IsFiniteSet(Believed(f))
  PROVE  LET g == [f EXCEPT ![q] = @ - 1]
         IN  /\ IsFiniteSet(Believed(g))
             /\ Total(f) \in Nat /\ Total(f) >= 1
             /\ Total(g) = Total(f) - 1
<1> DEFINE g == [f EXCEPT ![q] = @ - 1]
<1>1. Believed(g) = Believed(f) \ {<<q, f[q]>>}
  <2>1. ASSUME NEW p
        PROVE  p \in Believed(g) <=> p \in Believed(f) /\ p # <<q, f[q]>>
    <3>1. DOMAIN g = DOMAIN f /\ \A r \in DOMAIN f : g[r] = IF r = q THEN f[q] - 1 ELSE f[r]
      OBVIOUS
    <3>2. 1 .. (f[q] - 1) = (1 .. f[q]) \ {f[q]}
      OBVIOUS
    <3> HIDE DEF g
    <3> QED
      BY <3>1, <3>2, BelievedPairs
  <2> QED
    BY <2>1
<1>2. <<q, f[q]>> \in Believed(f)
  BY BelievedPairs
<1>3. Cardinality(Believed(f)) \in Nat /\ Cardinality(Believed(f)) # 0
  BY <1>2, FS_EmptySet, FS_CardinalityType
<1>4. /\ IsFiniteSet(Believed(f) \ {<<q, f[q]>>})
      /\ Cardinality(Believed(f) \ {<<q, f[q]>>}) = Cardinality(Believed(f)) - 1
  BY <1>2, FS_RemoveElement
<1>5. Total(f) \in Nat /\ Total(f) >= 1
  BY <1>3 DEF Total
<1> QED
  BY <1>1, <1>4, <1>5 DEF Total

\* Nothing is open and nothing counted at the start.
LEMMA InitServer == Init => ServerInv
<1> SUFFICES ASSUME Init PROVE ServerInv
  OBVIOUS
<1>1. qlist = << >> /\ disk = << >> /\ DOMAIN << >> = {}
  <2>1. DOMAIN << >> = {}
    OBVIOUS
  <2> QED
    BY <2>1, Zenon DEF Init
<1>2. DOMAIN qlist = {} /\ DOMAIN disk = {}
  BY <1>1, Zenon
<1>3. ServerTypeOK
  <2>1. last.opt \in Opts
    BY DEF Init, Opts
  <2>2. << >> \in Seq(Codes)
    OBVIOUS
  <2>3. last.replies = << >>
    BY DEF Init
  <2>4. status = "up" /\ space = TRUE /\ count = 0 /\ puts = 0 /\ crashes = 0
    BY Zenon DEF Init
  <2> QED
    BY <1>2, <2>1, <2>2, <2>3, <2>4, ServerAssumption DEF ServerTypeOK
<1>4. Believed(qlist) = {} /\ Opened = {}
  BY <1>2 DEF Believed, Opened
<1>5. status = "up" /\ count = 0
  BY Zenon DEF Init
<1> QED
  BY <1>2, <1>3, <1>4, <1>5, FS_EmptySet, ServerAssumption
     DEF ServerInv, CountCovers, Total, ListMatchesDisk, Opened

\* The directories that open are finitely many.
LEMMA OpenedFinite ==
  ASSUME ServerTypeOK
  PROVE  IsFiniteSet(Opened) /\ Cardinality(Opened) \in Nat
<1>1. Opened \subseteq Names
  BY DEF Opened, ServerTypeOK
<1> QED
  BY <1>1, ServerAssumption, FS_Subset, FS_CardinalityType

\* A queue that is in the table has a directory that opens.
LEMMA ListedOpened ==
  ASSUME ServerInv, NEW q, Listed(q)
  PROVE  q \in DOMAIN qlist /\ q \in DOMAIN disk /\ disk[q].ok
BY DEF ServerInv, ListMatchesDisk, Listed, ServerTypeOK

\* Requests that leave table, directories and total alone.
Quiet ==
  /\ UNCHANGED <<status, qlist, disk, count, puts, crashes>>
  /\ space' \in BOOLEAN

\* The steps that do not.
Working ==
  \/ \E q \in Names :
       \/ PutOk(q) \/ GetEnd(q) \/ GetOk(q) \/ Remove(q) \/ Reset(q) \/ LockEnds(q)
       \/ \E n \in Nums : MaxQueue(q, n) \/ Delay(q, n) \/ Wlock(q, n)
  \/ Crash
  \/ Restart

\* Every step is one or the other.
LEMMA StepKinds ==
  ASSUME ServerInv, [Next]_vars
  PROVE  Quiet \/ Working
<1>1. space \in BOOLEAN
  BY DEF ServerInv, ServerTypeOK
<1> QED
  BY <1>1, Zenon
     DEF Next, vars, Quiet, Working, BadRequest, SyncTime, NotFound, NotAdded, Status,
         PutRefused, MaxQueueRefused, SpaceChanges

\* The last request is of a known kind and answered with known codes.
Replied == last'.opt \in Opts /\ last'.replies \in Seq(Codes)

\* None, one or two replies.
LEMMA RepliesType ==
  /\ << >> \in Seq(Codes)
  /\ \A c \in Codes : <<c>> \in Seq(Codes)
  /\ \A c, d \in Codes : <<c, d>> \in Seq(Codes)
OBVIOUS

\* A request leaves one of the reply codes.
LEMMA RequestType ==
  ASSUME NEW opt \in Opts, NEW name, NEW replies \in Seq(Codes),
         Request(opt, name, replies)
  PROVE  Replied
BY DEF Request, Replied

\* The codes and operations that the actions write.
LEMMA CodesAndOpts ==
  /\ "OK" \in Codes /\ "QUE_EMPTY" \in Codes /\ "INV_NAME" \in Codes
  /\ "INV_DATA" \in Codes /\ "INV_NUM" \in Codes /\ "QUE_ADD_ERR" \in Codes
  /\ "QUE_NO_EXIST" \in Codes /\ "WLOCK" \in Codes /\ "QUE_FULL" \in Codes
  /\ "PUT_ERR" \in Codes /\ "RESET_ERR" \in Codes /\ "SYNC_TIME_ERR" \in Codes
  /\ "UNKNOWN_OPT" \in Codes
  /\ "none" \in Opts /\ "put" \in Opts /\ "get" \in Opts /\ "status" \in Opts
  /\ "maxqueue" \in Opts /\ "delay" \in Opts /\ "wlock" \in Opts
  /\ "remove" \in Opts /\ "reset" \in Opts /\ "synctime" \in Opts
  /\ "unknown" \in Opts
BY DEF Codes, Opts

\* Every reply is one of the codes.
LEMMA ReplyType ==
  ASSUME ServerInv, [Next]_vars
  PROVE  Replied
<1>1. CASE UNCHANGED vars
  BY <1>1 DEF ServerInv, ServerTypeOK, vars, Replied
<1>2. CASE BadRequest
  BY <1>2, RepliesType, RequestType, CodesAndOpts, Zenon DEF BadRequest
<1>3. ASSUME NEW n \in Nums, SyncTime(n) PROVE Replied
  BY <1>3, RepliesType, RequestType, CodesAndOpts, Zenon DEF SyncTime
<1>4. ASSUME NEW q \in Names, NotFound(q) PROVE Replied
  BY <1>4, RepliesType, RequestType, CodesAndOpts, Zenon DEF NotFound
<1>5. ASSUME NEW q \in Names, NotAdded(q) PROVE Replied
  BY <1>5, RepliesType, RequestType, CodesAndOpts, Zenon DEF NotAdded
<1>6. ASSUME NEW q \in Names, Status(q) \/ PutRefused(q) PROVE Replied
  BY <1>6, RepliesType, RequestType, CodesAndOpts, Zenon DEF Status, PutRefused
<1>7. ASSUME NEW q \in Names, PutOk(q) \/ GetEnd(q) \/ GetOk(q) PROVE Replied
  BY <1>7, RepliesType, RequestType, CodesAndOpts, Zenon DEF PutOk, GetEnd, GetOk
<1>8. ASSUME NEW q \in Names, MaxQueueRefused(q) \/ Remove(q) \/ Reset(q) PROVE Replied
  BY <1>8, RepliesType, RequestType, CodesAndOpts, Zenon
     DEF MaxQueueRefused, Remove, Reset
<1>9. ASSUME NEW q \in Names, LockEnds(q) PROVE Replied
  BY <1>9, RepliesType, RequestType, CodesAndOpts, Zenon DEF LockEnds, NoRequest
<1>10. ASSUME NEW q \in Names, NEW n \in Nums, MaxQueue(q, n) \/ Delay(q, n) \/ Wlock(q, n)
       PROVE  Replied
  BY <1>10, RepliesType, RequestType, CodesAndOpts, Zenon DEF MaxQueue, Delay, Wlock
<1>11. CASE SpaceChanges \/ Crash \/ Restart
  BY <1>11, RepliesType, RequestType, CodesAndOpts, Zenon
     DEF SpaceChanges, Crash, Restart, NoRequest
<1> QED
  BY <1>1, <1>2, <1>3, <1>4, <1>5, <1>6, <1>7, <1>8, <1>9, <1>10, <1>11, Zenon DEF Next

(***************************************************************************)
(* The table and the directories                                           *)
(***************************************************************************)

\* What a step must keep of the directories and of the table's names.
DiskKept ==
  /\ DOMAIN disk' \subseteq Names /\ \A q \in DOMAIN disk' : disk'[q] \in Directory
  /\ Cardinality(Opened') <= MaxQlistItems
  /\ ListMatchesDisk'

\* One more directory that opens is one that the table had room for.
LEMMA OpenedBound ==
  ASSUME ServerInv, status = "up", NEW q, Listed(q) \/ MayAdd,
         NEW S, S \subseteq Opened \cup {q}
  PROVE  Cardinality(S) <= MaxQlistItems
<1>1. IsFiniteSet(Opened) /\ Cardinality(Opened) \in Nat /\ MaxQlistItems \in Nat
  BY OpenedFinite, ServerAssumption DEF ServerInv
<1>2. DOMAIN qlist = Opened
  BY DEF ServerInv, ListMatchesDisk, Opened
<1>3. /\ IsFiniteSet(Opened \cup {q})
      /\ Cardinality(Opened \cup {q}) <= MaxQlistItems
      /\ Cardinality(Opened \cup {q}) \in Nat
  <2>1. CASE q \in Opened
    <3>1. Opened \cup {q} = Opened
      BY <2>1
    <3> QED
      BY <1>1, <3>1 DEF ServerInv
  <2>2. CASE q \notin Opened
    <3>1. Cardinality(Opened) < MaxQlistItems
      BY <1>1, <1>2, <2>2 DEF MayAdd, Listed
    <3>2. IsFiniteSet(Opened \cup {q}) /\ Cardinality(Opened \cup {q}) = Cardinality(Opened) + 1
      BY <1>1, <2>2, FS_AddElement
    <3> QED
      BY <1>1, <3>1, <3>2
  <2> QED
    BY <2>1, <2>2
<1>4. Cardinality(S) <= Cardinality(Opened \cup {q}) /\ IsFiniteSet(S)
  BY <1>3, FS_Subset
<1>5. Cardinality(S) \in Nat
  BY <1>4, FS_CardinalityType
<1> QED
  BY <1>1, <1>3, <1>4, <1>5

\* The directory of a queue that exists or is created.
LEMMA TouchedType ==
  ASSUME ServerInv, NEW q \in Names
  PROVE  /\ TouchedDisk(q)[q] \in Directory /\ TouchedDisk(q)[q].ok = TRUE
         /\ DOMAIN TouchedList(q) = DOMAIN qlist \cup {q}
         /\ \A r \in DOMAIN TouchedList(q) : TouchedList(q)[r] \in Nat
<1>1. NewDirectory \in Directory /\ NewDirectory.ok = TRUE
  BY ServerAssumption DEF NewDirectory, Directory, Locks
<1>2. \A r \in DOMAIN qlist : qlist[r] \in Nat
  BY DEF ServerInv, ServerTypeOK
<1>3. CASE Listed(q)
  <2>1. q \in DOMAIN disk /\ disk[q] \in Directory /\ disk[q].ok
    BY <1>3, ListedOpened DEF ServerInv, ServerTypeOK
  <2>2. disk[q].ok \in BOOLEAN
    BY <2>1 DEF Directory
  <2> QED
    BY <1>2, <1>3, <2>1, <2>2 DEF TouchedDisk, TouchedList, Listed
<1>4. CASE ~Listed(q)
  BY <1>1, <1>2, <1>4 DEF TouchedDisk, TouchedList, Listed, Set
<1> QED
  BY <1>3, <1>4

\* Writing one directory that opens, with its queue in the table.
LEMMA DiskSet ==
  ASSUME ServerInv, status = "up", NEW q \in Names, Listed(q) \/ MayAdd,
         NEW d \in Directory, d.ok = TRUE,
         disk' = Set(disk, q, d), DOMAIN qlist' = DOMAIN qlist \cup {q}
  PROVE  DiskKept
<1>1. DOMAIN qlist = Opened
  BY DEF ServerInv, ListMatchesDisk, Opened
<1>2. Opened' = Opened \cup {q}
  BY DEF Opened, Set
<1>3. Cardinality(Opened') <= MaxQlistItems
  BY <1>2, OpenedBound
<1>4. DOMAIN disk' \subseteq Names /\ \A r \in DOMAIN disk' : disk'[r] \in Directory
  BY DEF Set, ServerInv, ServerTypeOK
<1>5. DOMAIN qlist' = {r \in DOMAIN disk' : disk'[r].ok}
  BY <1>1, <1>2 DEF Opened
<1> QED
  BY <1>3, <1>4, <1>5 DEF DiskKept, ListMatchesDisk

\* Changing a directory without closing or opening it.
LEMMA DiskChange ==
  ASSUME ServerInv, NEW q \in DOMAIN disk,
         NEW d \in Directory, d.ok = disk[q].ok,
         disk' = [disk EXCEPT ![q] = d],
         status' = status, DOMAIN qlist' = DOMAIN qlist
  PROVE  DiskKept
<1>1. Opened' = Opened
  BY DEF Opened
<1>2. DOMAIN disk' \subseteq Names /\ \A r \in DOMAIN disk' : disk'[r] \in Directory
  BY DEF ServerInv, ServerTypeOK
<1>3. status' = "up" => DOMAIN qlist' = {r \in DOMAIN disk' : disk'[r].ok}
  BY <1>1 DEF Opened, ServerInv, ListMatchesDisk
<1> QED
  BY <1>1, <1>2, <1>3 DEF DiskKept, ListMatchesDisk, ServerInv

\* Deleting a queue and its directory.
LEMMA DiskWithout ==
  ASSUME ServerInv, status = "up", NEW q, Listed(q),
         disk' = Without(disk, q), DOMAIN qlist' = DOMAIN qlist \ {q}
  PROVE  DiskKept
<1>1. DOMAIN qlist = Opened
  BY DEF ServerInv, ListMatchesDisk, Opened
<1>2. Opened' = Opened \ {q}
  BY DEF Opened, Without, Restrict
<1>3. Cardinality(Opened') <= MaxQlistItems
  BY <1>2, OpenedBound
<1>4. DOMAIN disk' \subseteq Names /\ \A r \in DOMAIN disk' : disk'[r] \in Directory
  BY DEF Without, Restrict, ServerInv, ServerTypeOK
<1>5. DOMAIN qlist' = {r \in DOMAIN disk' : disk'[r].ok}
  BY <1>1, <1>2 DEF Opened
<1> QED
  BY <1>3, <1>4, <1>5 DEF DiskKept, ListMatchesDisk

\* A crash forgets the table.  It may leave one directory that cannot be opened,
\* none, or the new one of a queue there was room for.
LEMMA DiskCrash ==
  ASSUME ServerInv, Crash
  PROVE  DiskKept
<1>1. status = "up" /\ status' = "down" /\ DOMAIN qlist = Opened
  BY DEF ServerInv, ListMatchesDisk, Opened, Crash
<1>2. DOMAIN disk \subseteq Names /\ \A r \in DOMAIN disk : disk[r] \in Directory
  BY DEF ServerInv, ServerTypeOK
<1> SUFFICES /\ DOMAIN disk' \subseteq Names /\ \A r \in DOMAIN disk' : disk'[r] \in Directory
             /\ Cardinality(Opened') <= MaxQlistItems
  BY <1>1 DEF DiskKept, ListMatchesDisk
<1>3. CASE disk' = disk
  <2>1. Opened' = Opened
    BY <1>3 DEF Opened
  <2> QED
    BY <1>2, <1>3, <2>1 DEF ServerInv
<1>4. ASSUME NEW q \in DOMAIN qlist,
             disk' \in {[disk EXCEPT ![q].ok = FALSE], Without(disk, q)}
      PROVE  /\ DOMAIN disk' \subseteq Names /\ \A r \in DOMAIN disk' : disk'[r] \in Directory
             /\ Cardinality(Opened') <= MaxQlistItems
  <2>1. DOMAIN disk' \subseteq Names /\ \A r \in DOMAIN disk' : disk'[r] \in Directory
    <3>1. CASE disk' = Without(disk, q)
      BY <1>2, <3>1 DEF Without, Restrict
    <3>2. CASE disk' = [disk EXCEPT ![q].ok = FALSE]
      <4>1. \A d \in Directory : [d EXCEPT !.ok = FALSE] \in Directory
        BY DEF Directory
      <4> QED
        BY <1>2, <3>2, <4>1
    <3> QED
      BY <1>4, <3>1, <3>2
  <2>2. Opened' \subseteq Opened \cup {q}
    BY <1>4 DEF Opened, Without, Restrict
  <2>3. Listed(q)
    BY DEF Listed
  <2> QED
    BY <1>1, <2>1, <2>2, <2>3, OpenedBound
<1>5. ASSUME NEW q \in Names \ DOMAIN qlist, MayAdd,
             \/ \E ok \in BOOLEAN : disk' = Set(disk, q, [NewDirectory EXCEPT !.ok = ok])
             \/ disk' = Without(disk, q)
      PROVE  /\ DOMAIN disk' \subseteq Names /\ \A r \in DOMAIN disk' : disk'[r] \in Directory
             /\ Cardinality(Opened') <= MaxQlistItems
  <2>1. \A ok \in BOOLEAN : [NewDirectory EXCEPT !.ok = ok] \in Directory
    BY ServerAssumption DEF NewDirectory, Directory, Locks
  <2>2. DOMAIN disk' \subseteq Names /\ \A r \in DOMAIN disk' : disk'[r] \in Directory
    BY <1>2, <1>5, <2>1 DEF Without, Restrict, Set
  <2>3. Opened' \subseteq Opened \cup {q}
    BY <1>5 DEF Opened, Without, Restrict, Set
  <2> QED
    BY <1>1, <1>5, <2>2, <2>3, OpenedBound
<1> QED
  BY <1>3, <1>4, <1>5, Zenon DEF Crash

\* A restart opens what it finds.
LEMMA DiskRestart ==
  ASSUME ServerInv, Restart
  PROVE  DiskKept
<1>1. disk' = disk /\ Opened' = Opened
  BY DEF Restart, Opened
<1>2. DOMAIN qlist' = {q \in DOMAIN disk : disk[q].ok}
  BY DEF Restart
<1> QED
  BY <1>1, <1>2 DEF DiskKept, ListMatchesDisk, ServerInv, ServerTypeOK

\* What a step must keep of the table's numbers and the total.
CountKept ==
  /\ DOMAIN qlist' \subseteq Names /\ \A q \in DOMAIN qlist' : qlist'[q] \in Nat
  /\ count' \in Nat
  /\ IsFiniteSet(Believed(qlist')) /\ count' >= Total(qlist')

\* Numbers that only fall, with the total as it was.
LEMMA CountFalls ==
  ASSUME ServerInv, count' = count,
         \A q \in DOMAIN qlist' :
           q \in DOMAIN qlist /\ qlist'[q] \in Nat /\ qlist'[q] <= qlist[q]
  PROVE  CountKept
<1>1. /\ IsFiniteSet(Believed(qlist)) /\ count \in Nat /\ count >= Total(qlist)
      /\ \A q \in DOMAIN qlist : qlist[q] \in Nat
      /\ DOMAIN qlist \subseteq Names
  BY DEF ServerInv, ServerTypeOK, CountCovers
<1>2. IsFiniteSet(Believed(qlist')) /\ Total(qlist') <= Total(qlist)
  BY <1>1, BelievedShrinks
<1>3. Total(qlist) \in Nat /\ Total(qlist') \in Nat
  BY <1>1, <1>2, FS_CardinalityType DEF Total
<1>4. count' >= Total(qlist')
  BY <1>1, <1>2, <1>3
<1> QED
  BY <1>1, <1>2, <1>4 DEF CountKept

\* A queue that is there, or is created without messages.
LEMMA CountTouched ==
  ASSUME ServerInv, NEW q \in Names, count' = count, qlist' = TouchedList(q)
  PROVE  CountKept
<1>1. Believed(qlist') = Believed(qlist)
  BY BelievedTouched
<1>2. DOMAIN qlist \cup {q} \subseteq Names
  BY DEF ServerInv, ServerTypeOK
<1> QED
  BY <1>1, <1>2, TouchedType DEF CountKept, ServerInv, ServerTypeOK, CountCovers, Total

(***************************************************************************)
(* One lemma per step that changes the table                               *)
(***************************************************************************)

\* A put, to a queue that is there or not, keeps table, directories and total,
LEMMA PutServer ==
  ASSUME ServerInv, NEW q \in Names, PutOk(q)
  PROVE  DiskKept /\ CountKept
<1> DEFINE l == TouchedList(q)
           d == TouchedDisk(q)[q]
<1>1. /\ d \in Directory /\ d.ok = TRUE
      /\ DOMAIN l = DOMAIN qlist \cup {q}
      /\ \A r \in DOMAIN l : l[r] \in Nat
  BY TouchedType
<1>2. /\ qlist' = [l EXCEPT ![q] = @ + 1] /\ count' = count + 1
      /\ disk' = Set(disk, q, [d EXCEPT !.stored = @ + 1])
      /\ status = "up" /\ (Listed(q) \/ MayAdd)
  BY Zenon DEF PutOk
<1> HIDE DEF l, d
<1>3. DiskKept
  <2>1. [d EXCEPT !.stored = @ + 1] \in Directory /\ [d EXCEPT !.stored = @ + 1].ok = TRUE
    BY <1>1 DEF Directory
  <2>2. DOMAIN qlist' = DOMAIN qlist \cup {q}
    BY <1>1, <1>2
  <2> QED
    BY <1>2, <2>1, <2>2, DiskSet
<1>4. CountKept
  <2>1. IsFiniteSet(Believed(l)) /\ Total(l) = Total(qlist) /\ Total(l) \in Nat
    BY BelievedTouched, FS_CardinalityType DEF l, Total, ServerInv
  <2>2. IsFiniteSet(Believed(qlist')) /\ Total(qlist') = Total(l) + 1
    BY <1>1, <1>2, <2>1, BelievedGrows
  <2>3. count \in Nat /\ count >= Total(qlist) /\ DOMAIN qlist \cup {q} \subseteq Names
    BY DEF ServerInv, ServerTypeOK, CountCovers
  <2>4. count' \in Nat /\ count' >= Total(qlist')
    BY <1>2, <2>1, <2>2, <2>3
  <2>5. DOMAIN qlist' \subseteq Names /\ \A r \in DOMAIN qlist' : qlist'[r] \in Nat
    BY <1>1, <1>2, <2>3
  <2> QED
    BY <2>2, <2>4, <2>5 DEF CountKept
<1> QED
  BY <1>3, <1>4

\* a get, also one that corrects the count, does,
LEMMA GetServer ==
  ASSUME ServerInv, NEW q \in Names, GetOk(q) \/ GetEnd(q)
  PROVE  DiskKept /\ CountKept
<1>1. /\ Listed(q) /\ status' = status
      /\ q \in DOMAIN qlist /\ q \in DOMAIN disk /\ disk[q] \in Directory /\ qlist[q] \in Nat
      /\ \A r \in DOMAIN qlist : qlist[r] \in Nat
      /\ DOMAIN qlist \subseteq Names
  BY ListedOpened DEF GetOk, GetEnd, ServerInv, ServerTypeOK, Listed
<1>2. CASE GetOk(q)
  <2>1. /\ disk[q].stored > 0 /\ disk' = [disk EXCEPT ![q].stored = @ - 1]
        /\ qlist[q] >= 1 /\ qlist' = [qlist EXCEPT ![q] = @ - 1]
        /\ count' = count - 1
    BY <1>2 DEF GetOk
  <2>2. DiskKept
    <3>1. /\ [disk[q] EXCEPT !.stored = @ - 1] \in Directory
          /\ [disk[q] EXCEPT !.stored = @ - 1].ok = disk[q].ok
      BY <1>1, <2>1 DEF Directory
    <3>2. disk' = [disk EXCEPT ![q] = [disk[q] EXCEPT !.stored = @ - 1]]
      BY <2>1
    <3>3. DOMAIN qlist' = DOMAIN qlist
      BY <2>1
    <3> QED
      BY <1>1, <3>1, <3>2, <3>3, DiskChange
  <2>3. CountKept
    <3>1. IsFiniteSet(Believed(qlist)) /\ count \in Nat /\ count >= Total(qlist)
      BY DEF ServerInv, ServerTypeOK, CountCovers
    <3>2. /\ IsFiniteSet(Believed(qlist'))
          /\ Total(qlist) \in Nat /\ Total(qlist) >= 1 /\ Total(qlist') = Total(qlist) - 1
      BY <1>1, <2>1, <3>1, BelievedTaken
    <3>3. count' \in Nat /\ count' >= Total(qlist')
      BY <2>1, <3>1, <3>2
    <3>4. DOMAIN qlist' \subseteq Names /\ \A r \in DOMAIN qlist' : qlist'[r] \in Nat
      BY <1>1, <2>1
    <3> QED
      BY <3>2, <3>3, <3>4 DEF CountKept
  <2> QED
    BY <2>2, <2>3
<1>3. CASE GetEnd(q)
  <2>1. disk' = disk /\ count' = count
    BY <1>3 DEF GetEnd
  <2>2. qlist' = qlist \/ qlist' = [qlist EXCEPT ![q] = 0]
    BY <1>3 DEF GetEnd
  <2>3. DOMAIN qlist' = DOMAIN qlist
    BY <2>2
  <2>4. DiskKept
    BY <1>1, <2>1, <2>3 DEF DiskKept, ServerInv, ServerTypeOK, ListMatchesDisk, Opened
  <2>5. \A r \in DOMAIN qlist' :
          r \in DOMAIN qlist /\ qlist'[r] \in Nat /\ qlist'[r] <= qlist[r]
    BY <1>1, <2>2
  <2> QED
    BY <2>1, <2>4, <2>5, CountFalls
<1> QED
  BY <1>2, <1>3

\* a setting, which may create the queue,
LEMMA SetServer ==
  ASSUME ServerInv, NEW q \in Names, NEW n \in Nums, MaxQueue(q, n) \/ Delay(q, n)
  PROVE  DiskKept /\ CountKept
<1> DEFINE d == TouchedDisk(q)[q]
<1>1. d \in Directory /\ d.ok = TRUE /\ DOMAIN TouchedList(q) = DOMAIN qlist \cup {q}
  BY TouchedType
<1>2. /\ status = "up" /\ (Listed(q) \/ MayAdd)
      /\ qlist' = TouchedList(q) /\ count' = count
  BY DEF MaxQueue, Delay
<1>3. \/ n \in 0 .. QueueMaxSize /\ disk' = Set(disk, q, [d EXCEPT !.maxque = n])
      \/ disk' = Set(disk, q, [d EXCEPT !.delayed = n # 0])
  BY DEF MaxQueue, Delay
<1> HIDE DEF d
<1>4. CountKept
  BY <1>2, CountTouched
<1>5. CASE n \in 0 .. QueueMaxSize /\ disk' = Set(disk, q, [d EXCEPT !.maxque = n])
  <2>1. [d EXCEPT !.maxque = n] \in Directory /\ [d EXCEPT !.maxque = n].ok = TRUE
    BY <1>1, <1>5, ServerAssumption DEF Directory
  <2> QED
    BY <1>1, <1>2, <1>4, <1>5, <2>1, DiskSet
<1>6. CASE disk' = Set(disk, q, [d EXCEPT !.delayed = n # 0])
  <2>1. [d EXCEPT !.delayed = n # 0] \in Directory /\ [d EXCEPT !.delayed = n # 0].ok = TRUE
    BY <1>1 DEF Directory
  <2> QED
    BY <1>1, <1>2, <1>4, <1>6, <2>1, DiskSet
<1> QED
  BY <1>3, <1>5, <1>6

\* wlock, and a lock that ends, also while the server is down.
LEMMA LockServer ==
  ASSUME ServerInv, NEW q \in Names,
         LockEnds(q) \/ \E n \in Nums : Wlock(q, n)
  PROVE  DiskKept /\ CountKept
<1>1. \A n : LocksOf(n) \subseteq Locks
  BY DEF LocksOf, Locks
<1>2. PICK lock \in Locks : disk' = [disk EXCEPT ![q].wlock = lock]
  BY <1>1 DEF LockEnds, Wlock, Locks
<1>3. /\ q \in DOMAIN disk /\ disk[q] \in Directory
      /\ status' = status /\ qlist' = qlist /\ count' = count
      /\ \A r \in DOMAIN qlist : qlist[r] \in Nat
  BY ListedOpened DEF LockEnds, Wlock, ServerInv, ServerTypeOK
<1>4. DiskKept
  <2>1. /\ [disk[q] EXCEPT !.wlock = lock] \in Directory
        /\ [disk[q] EXCEPT !.wlock = lock].ok = disk[q].ok
    BY <1>3 DEF Directory
  <2>2. disk' = [disk EXCEPT ![q] = [disk[q] EXCEPT !.wlock = lock]]
    BY <1>2
  <2> QED
    BY <1>3, <2>1, <2>2, DiskChange
<1>5. CountKept
  BY <1>3, CountFalls
<1> QED
  BY <1>4, <1>5

\* remove and reset, which leave the total alone,
LEMMA RemoveServer ==
  ASSUME ServerInv, NEW q \in Names, Remove(q) \/ Reset(q)
  PROVE  DiskKept /\ CountKept
<1>1. /\ Listed(q) /\ q \in DOMAIN qlist /\ q \in DOMAIN disk /\ disk[q].ok
      /\ status = "up" /\ status' = status /\ count' = count
      /\ \A r \in DOMAIN qlist : qlist[r] \in Nat
  BY ListedOpened DEF Remove, Reset, ServerInv, ServerTypeOK
<1>2. CASE qlist' = Without(qlist, q) /\ disk' = Without(disk, q)
  <2>1. DOMAIN qlist' = DOMAIN qlist \ {q}
    BY <1>2 DEF Without, Restrict
  <2>2. \A r \in DOMAIN qlist' :
          r \in DOMAIN qlist /\ qlist'[r] \in Nat /\ qlist'[r] <= qlist[r]
    BY <1>1, <1>2 DEF Without, Restrict
  <2> QED
    BY <1>1, <1>2, <2>1, <2>2, DiskWithout, CountFalls
<1>3. CASE qlist' = [qlist EXCEPT ![q] = 0] /\ disk' = [disk EXCEPT ![q] = NewDirectory]
  <2>1. NewDirectory \in Directory /\ NewDirectory.ok = TRUE
    BY ServerAssumption DEF NewDirectory, Directory, Locks
  <2>2. disk[q].ok = TRUE
    BY <1>1 DEF ServerInv, ServerTypeOK, Directory
  <2>3. DOMAIN qlist' = DOMAIN qlist
    BY <1>3
  <2>4. DiskKept
    BY <1>1, <1>3, <2>1, <2>2, <2>3, DiskChange
  <2>5. \A r \in DOMAIN qlist' :
          r \in DOMAIN qlist /\ qlist'[r] \in Nat /\ qlist'[r] <= qlist[r]
    BY <1>1, <1>3
  <2> QED
    BY <1>1, <2>4, <2>5, CountFalls
<1> QED
  BY <1>2, <1>3 DEF Remove, Reset

\* a crash, also one that leaves directories half made,
LEMMA CrashServer ==
  ASSUME ServerInv, Crash
  PROVE  CountKept
<1>1. qlist' = << >> /\ count' = 0 /\ DOMAIN << >> = {}
  <2>1. DOMAIN << >> = {}
    OBVIOUS
  <2> QED
    BY <2>1, Zenon DEF Crash
<1>2. DOMAIN qlist' = {}
  BY <1>1, Zenon
<1>3. Believed(qlist') = {}
  BY <1>2 DEF Believed
<1>4. count' = 0
  BY <1>1
<1> QED
  BY <1>2, <1>3, <1>4, FS_EmptySet DEF CountKept, Total

\* and a restart, which counts everything anew.
LEMMA RestartServer ==
  ASSUME ServerInv, Restart
  PROVE  CountKept
<1>1. PICK counts \in [{q \in DOMAIN disk : disk[q].ok} -> 0 .. MaxUnread] :
        qlist' = counts /\ count' = Total(counts)
  BY DEF Restart
<1>2. DOMAIN counts \subseteq Names /\ \A q \in DOMAIN counts : counts[q] \in 0 .. MaxUnread
  BY DEF ServerInv, ServerTypeOK
<1>3. IsFiniteSet(Believed(counts)) /\ Total(counts) \in Nat
  BY <1>2, BelievedFinite, ServerAssumption
<1> QED
  BY <1>1, <1>2, <1>3, ServerAssumption DEF CountKept

\* What is left: the state of the process and the bounded counters.
LEMMA ProcessServer ==
  ASSUME ServerInv, Working
  PROVE  /\ status' \in {"up", "down"} /\ space' \in BOOLEAN
         /\ puts' \in 0 .. MaxPut /\ crashes' \in 0 .. MaxCrash
         /\ status' = "down" => qlist' = << >>
<1>1. /\ status \in {"up", "down"} /\ space \in BOOLEAN
      /\ puts \in 0 .. MaxPut /\ crashes \in 0 .. MaxCrash
      /\ status = "down" => qlist = << >>
  BY DEF ServerInv, ServerTypeOK
<1>2. space' = space
  BY Zenon DEF Working, PutOk, GetEnd, GetOk, Remove, Reset, LockEnds, MaxQueue, Delay,
               Wlock, Crash, Restart
<1>3. \/ status' = "up"
      \/ status' = "down" /\ qlist' = << >>
      \/ status' = status /\ qlist' = qlist
  BY Zenon DEF Working, PutOk, GetEnd, GetOk, Remove, Reset, LockEnds, MaxQueue, Delay,
               Wlock, Crash, Restart
<1>4. puts' = puts \/ (puts < MaxPut /\ puts' = puts + 1)
  BY Zenon DEF Working, PutOk, GetEnd, GetOk, Remove, Reset, LockEnds, MaxQueue, Delay,
               Wlock, Crash, Restart
<1>5. crashes' = crashes \/ (crashes < MaxCrash /\ crashes' = crashes + 1)
  BY Zenon DEF Working, PutOk, GetEnd, GetOk, Remove, Reset, LockEnds, MaxQueue, Delay,
               Wlock, Crash, Restart
<1>6. puts' \in 0 .. MaxPut /\ crashes' \in 0 .. MaxCrash
  BY <1>1, <1>4, <1>5, ServerAssumption
<1>7. status' \in {"up", "down"} /\ (status' = "down" => qlist' = << >>)
  BY <1>1, <1>3, Zenon
<1> QED
  BY <1>1, <1>2, <1>6, <1>7, Zenon

\* Every step keeps the inductive invariant.
LEMMA StepServer ==
  ASSUME ServerInv, [Next]_vars
  PROVE  ServerInv'
<1>1. Replied
  BY ReplyType
<1>2. CASE Quiet
  <2>1. Opened' = Opened
    BY <1>2 DEF Quiet, Opened
  <2>2. /\ status' = status /\ qlist' = qlist /\ disk' = disk /\ count' = count
        /\ puts' = puts /\ crashes' = crashes /\ space' \in BOOLEAN
    BY <1>2, Zenon DEF Quiet
  <2>3. ServerTypeOK'
    BY <1>1, <2>2, Zenon DEF Replied, ServerInv, ServerTypeOK
  <2> QED
    BY <2>1, <2>2, <2>3, Zenon DEF ServerInv, ListMatchesDisk, CountCovers
<1>3. CASE Working
  <2>1. DiskKept /\ CountKept
    BY <1>3, PutServer, GetServer, SetServer, LockServer, RemoveServer, DiskCrash,
       CrashServer, DiskRestart, RestartServer, Zenon DEF Working
  <2>2. /\ status' \in {"up", "down"} /\ space' \in BOOLEAN
        /\ puts' \in 0 .. MaxPut /\ crashes' \in 0 .. MaxCrash
        /\ status' = "down" => qlist' = << >>
    BY <1>3, ProcessServer
  <2>3. ServerTypeOK'
    BY <1>1, <2>1, <2>2, Zenon DEF Replied, DiskKept, CountKept, ServerTypeOK
  <2> QED
    BY <2>1, <2>2, <2>3, Zenon DEF DiskKept, CountKept, ServerInv, CountCovers
<1> QED
  BY <1>2, <1>3, StepKinds

(***************************************************************************)
(* The theorems                                                            *)
(***************************************************************************)

\* The inductive invariant holds in every state of the server.
THEOREM ServerInvHolds == Spec => []ServerInv
<1>1. Init => ServerInv
  BY InitServer
<1>2. ServerInv /\ [Next]_vars => ServerInv'
  BY StepServer
<1> QED
  BY <1>1, <1>2, PTL DEF Spec

\* The handlers keep the types of the table, the directories and the replies;
\* the unsigned total in particular is never taken below 0.
THEOREM ServerTypeCorrect == Spec => []ServerTypeOK
<1>1. ServerInv => ServerTypeOK
  BY DEF ServerInv
<1> QED
  BY <1>1, ServerInvHolds, PTL

\* g_info.count covers what the queues of the table believe to hold, after any
\* puts, gets, removals, resets, corrected counts and restarts.
THEOREM TotalCovers == Spec => []CountCovers
<1>1. ServerInv => CountCovers
  BY DEF ServerInv
<1> QED
  BY <1>1, ServerInvHolds, PTL

\* The table never outgrows max_qlist_itmes, although start-up does not look
\* at that limit.
THEOREM TableLimited == Spec => []LimitKept
<1>1. ServerInv => LimitKept
  <2> SUFFICES ASSUME ServerInv PROVE LimitKept
    OBVIOUS
  <2>1. CASE status = "up"
    BY <2>1 DEF ServerInv, ListMatchesDisk, Opened, LimitKept
  <2>2. CASE status = "down"
    <3>1. DOMAIN qlist = {}
      <4>1. DOMAIN << >> = {}
        OBVIOUS
      <4> QED
        BY <2>2, <4>1, Zenon DEF ServerInv
    <3> QED
      BY <3>1, FS_EmptySet, ServerAssumption DEF LimitKept
  <2> QED
    BY <2>1, <2>2 DEF ServerInv, ServerTypeOK
<1> QED
  BY <1>1, ServerInvHolds, PTL

\* While the server runs, its table has exactly the queues the next start
\* would open.
THEOREM TableOnDisk == Spec => []ListMatchesDisk
<1>1. ServerInv => ListMatchesDisk
  BY DEF ServerInv
<1> QED
  BY <1>1, ServerInvHolds, PTL
===============================================================================
