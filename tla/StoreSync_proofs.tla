-------------------------- MODULE StoreSync_proofs --------------------------
(***************************************************************************)
(* What StoreSync promises of the data on the disk, for all intervals and  *)
(* any number of db files and synctime requests.                           *)
(***************************************************************************)
EXTENDS StoreSync, FiniteSetTheorems, TLAPS

(***************************************************************************)
(* The cursors are numbers and the read file is not behind the write file. *)
(* Every dirty file is mapped.  A process that has left is not in the      *)
(* middle of a rotation, and one that left through Stop is clean.  In a    *)
(* rotation the write file is mapped only if it is also the read file.     *)
(***************************************************************************)
Cursors ==
  /\ rfile \in Nat /\ wfile \in Nat /\ rfile <= wfile
  /\ rotating \in BOOLEAN /\ wmapped \in BOOLEAN /\ rtag_dirty \in BOOLEAN

SyncInv ==
  /\ Cursors
  /\ ClosedIsClean
  /\ rotating => status \in {"running", "exiting"}
  /\ rotating /\ wmapped => wfile = rfile
  /\ StoppedIsClean

\* Before the first put nothing is dirty.
LEMMA InitSyncInv == Init => SyncInv
<1> SUFFICES ASSUME Init PROVE SyncInv
  OBVIOUS
<1>1. Cursors
  <2>1. rfile \in Nat /\ wfile \in Nat /\ rfile <= wfile
    BY SMT DEF Init
  <2>2. rotating \in BOOLEAN /\ wmapped \in BOOLEAN /\ rtag_dirty \in BOOLEAN
    BY Zenon DEF Init
  <2> QED
    BY <2>1, <2>2 DEF Cursors
<1>2. ClosedIsClean
  BY DEF Init, ClosedIsClean
<1>3. ~rotating /\ StoppedIsClean
  BY DEF Init, StoppedIsClean
<1> QED
  BY <1>1, <1>2, <1>3 DEF SyncInv

\* Every step keeps the invariant.
LEMMA StepSyncInv == SyncInv /\ [Next]_vars => SyncInv'
<1> SUFFICES ASSUME SyncInv, [Next]_vars PROVE SyncInv'
  OBVIOUS
<1> USE DEF SyncInv, Cursors, ClosedIsClean, StoppedIsClean, Mapped, Target, Serving, Clean,
            storage, writer, limits, timers
<1>1. CASE Put
  BY <1>1 DEF Put, Written
<1>2. CASE RotateBegins
  BY <1>2 DEF RotateBegins
<1>3. CASE RotateEnds
  <2>1. ~rotating' /\ wmapped' /\ rtag_dirty' /\ rfile' = rfile /\ wfile' = wfile + 1
    BY <1>3, Zenon DEF RotateEnds, Written
  <2>2. status' = status /\ status # "stopped"
    BY <1>3 DEF RotateEnds
  <2>3. Cursors'
    <3>1. rfile' \in Nat /\ wfile' \in Nat /\ rfile' <= wfile'
      BY <2>1
    <3>2. rotating' = FALSE /\ wmapped' = TRUE /\ rtag_dirty' = TRUE
      BY <1>3, Zenon DEF RotateEnds, Written
    <3> QED
      BY <3>1, <3>2
  <2>4. dirty \subseteq {rfile}
    BY <1>3 DEF RotateEnds
  <2>5. ClosedIsClean'
    <3>1. dirty' \subseteq dirty \cup {wfile + 1}
      BY <1>3 DEF RotateEnds, Written
    <3>2. Mapped' = {wfile + 1, rfile}
      BY <2>1
    <3> QED
      BY <3>1, <3>2, <2>4
  <2> QED
    BY <2>1, <2>2, <2>3, <2>5
<1>4. CASE RotateFails
  BY <1>4 DEF RotateFails
<1>5. CASE Killed
  BY <1>5 DEF Killed
<1>6. CASE GetHops
  BY <1>6 DEF GetHops
<1>7. CASE WriteItem
  BY <1>7 DEF WriteItem
<1>8. ASSUME NEW n \in Intervals, SetSyncTime(n) PROVE SyncInv'
  BY <1>8 DEF SetSyncTime
<1>9. CASE TimerSyncs
  BY <1>9 DEF TimerSyncs, SyncStore
<1>10. CASE TimerWaits
  BY <1>10 DEF TimerWaits
<1>11. CASE Tick
  BY <1>11 DEF Tick
<1>12. CASE Exit
  BY <1>12 DEF Exit, SyncStore
<1>13. CASE Stop
  BY <1>13 DEF Stop
<1>14. CASE UNCHANGED vars
  BY <1>14 DEF vars
<1> QED
  BY <1>1, <1>2, <1>3, <1>4, <1>5, <1>6, <1>7, <1>8, <1>9, <1>10, <1>11, <1>12, <1>13, <1>14
     DEF Next

\* Unmapped files are clean, and so is everything after an orderly exit.
LEMMA SyncInvHolds == Spec => []SyncInv
<1>1. Init => SyncInv
  BY InitSyncInv
<1>2. SyncInv /\ [Next]_vars => SyncInv'
  BY StepSyncInv
<1> QED
  BY <1>1, <1>2, PTL DEF Spec

\* Whatever is not mapped is on the disk: the msync calls of get_next_write_file
\* and the unlinking of get_next_read_file leave no dirty file that a later sync
\* would miss, with signals and low storage in the middle of a rotation.
THEOREM UnmappedOnDisk == Spec => []ClosedIsClean
<1>1. SyncInv => ClosedIsClean
  BY DEF SyncInv
<1> QED
  BY <1>1, SyncInvHolds, PTL

\* After mq_qm_close_store no acknowledged message and no rtag item is left in
\* memory only.
THEOREM ExitOnDisk == Spec => []StoppedIsClean
<1>1. SyncInv => StoppedIsClean
  BY DEF SyncInv
<1> QED
  BY <1>1, SyncInvHolds, PTL
(***************************************************************************)
(* The largest interval                                                    *)
(***************************************************************************)

\* A finite set of numbers that is not empty has a largest one: otherwise a
\* smallest set without one would lose it with any of its members.
LEMMA LargestExists ==
  ASSUME NEW S, IsFiniteSet(S), S \subseteq Nat, S # {}
  PROVE  \E n \in S : \A k \in S : k <= n
<1> DEFINE Has(X) == \E n \in X : \A k \in X : k <= n
           Bad == {X \in SUBSET S : X # {} /\ ~Has(X)}
<1> SUFFICES ASSUME ~Has(S) PROVE FALSE
  OBVIOUS
<1>1. FiniteSubsetsOf(S) = SUBSET S
  BY FS_FiniteSubsetsOfFinite
<1>2. IsWellFoundedOn(StrictSubsetOrdering(S), SUBSET S)
  BY <1>1, FS_StrictSubsetOrderingWellFounded
<1>3. Bad \subseteq SUBSET S /\ Bad # {}
  OBVIOUS
<1>4. PICK X \in Bad : \A Y \in Bad : ~(<<Y, X>> \in StrictSubsetOrdering(S))
  <2> HIDE DEF Bad
  <2> QED
    BY <1>2, <1>3, WFMin
<1>5. PICK x \in X : TRUE
  OBVIOUS
<1> DEFINE Y == X \ {x}
<1>6. Y \notin Bad
  <2>1. <<Y, X>> \in StrictSubsetOrdering(S)
    BY <1>5 DEF StrictSubsetOrdering
  <2> QED
    BY <1>4, <2>1
<1>7. CASE Y = {}
  <2>1. \A k \in X : k = x
    BY <1>7
  <2> QED
    BY <1>5, <2>1
<1>8. CASE Y # {}
  <2>1. PICK n \in Y : \A k \in Y : k <= n
    BY <1>6, <1>8
  <2>2. n \in X /\ n \in Nat /\ x \in Nat
    BY <1>5, <2>1
  <2>3. \A k \in X : k <= (IF n < x THEN x ELSE n)
    BY <2>1, <2>2
  <2> QED
    BY <1>5, <2>2, <2>3
<1> QED
  BY <1>7, <1>8

\* The longest of the finitely many intervals.
LEMMA MaxIntervalType ==
  /\ MaxInterval \in Nat /\ MaxInterval \in Intervals
  /\ \A n \in Intervals : n \in Nat /\ n <= MaxInterval
<1>1. \E n \in Intervals : \A k \in Intervals : k <= n
  BY IntervalAssumption, LargestExists
<1>2. MaxInterval \in Intervals /\ \A k \in Intervals : k <= MaxInterval
  BY <1>1 DEF MaxInterval
<1> QED
  BY <1>2, IntervalAssumption

\* The length of r intervals.
Rounds(r) == r * MaxInterval

\* Each synctime request adds one interval to the bound.
LEMMA RoundsType ==
  ASSUME NEW r \in Nat
  PROVE  /\ Rounds(r) \in Nat
         /\ Rounds(r + 1) = Rounds(r) + MaxInterval
BY MaxIntervalType DEF Rounds

\* The bound on the age is a number.
LEMMA MaxAgeType == MaxAge \in Nat
BY RoundsType, MaxIntervalType, IntervalAssumption DEF MaxAge, Rounds

(***************************************************************************)
(* Types                                                                   *)
(***************************************************************************)

\* TypeOK in three parts, and what it lacks to be inductive: every synctime
\* request counted in raised is one of sets, and a rotation that has begun has
\* a next file.
TimersOK ==
  /\ interval \in Intervals
  /\ since \in -1 .. MaxSince
  /\ left \in 0 .. (1 + IdlePeriod + MaxInterval)
  /\ age \in 0 .. MaxAge
  /\ sets \in 0 .. MaxSets /\ raised \in 0 .. MaxSets /\ raised <= sets

FilesOK ==
  /\ rfile \in 1 .. wfile /\ wfile \in 1 .. MaxFile
  /\ rotating => wfile < MaxFile

ProcessOK ==
  /\ status \in {"running", "exiting", "stopped", "killed"}
  /\ exit_left \in {0, 1}
  /\ sync_intv \in Nat
  /\ idle \in BOOLEAN

\* The types at the start,
LEMMA InitTypes == Init => TimersOK /\ FilesOK /\ ProcessOK
<1> SUFFICES ASSUME Init PROVE TimersOK /\ FilesOK /\ ProcessOK
  OBVIOUS
<1>1. ~rotating /\ idle = (DefInterval = 0) /\ status = "running"
  BY Zenon DEF Init
<1>2. /\ interval = DefInterval /\ since = -1 /\ left = 1 /\ exit_left = 0
      /\ rfile = 1 /\ wfile = 1 /\ sync_intv = 0 /\ age = 0 /\ sets = 0 /\ raised = 0
  BY Zenon DEF Init
<1>3. TimersOK
  BY <1>2, MaxIntervalType, MaxAgeType, IntervalAssumption DEF MaxSince, TimersOK
<1>4. FilesOK
  BY <1>1, <1>2, IntervalAssumption DEF FilesOK
<1>5. ProcessOK
  <2>1. exit_left \in {0, 1} /\ sync_intv \in Nat
    BY <1>2
  <2> QED
    BY <1>1, <2>1, Zenon DEF ProcessOK
<1> QED
  BY <1>3, <1>4, <1>5

\* of timer and ages after a step,
LEMMA TimersStep ==
  ASSUME TimersOK, [Next]_vars
  PROVE  TimersOK'
<1>1. /\ interval \in Nat /\ interval <= MaxInterval /\ MaxInterval \in Nat /\ MaxAge \in Nat
      /\ IdlePeriod \in Nat /\ MaxSets \in Nat /\ MaxSince = MaxInterval
      /\ \A n \in Intervals : n \in Nat /\ n <= MaxInterval
  BY MaxIntervalType, MaxAgeType, IntervalAssumption DEF TimersOK, MaxSince
<1> USE <1>1 DEF TimersOK
<1>2. CASE UNCHANGED <<timers, limits>> /\ age' \in {0, age}
  BY <1>2 DEF timers, limits
<1>3. ASSUME NEW n \in Intervals, SetSyncTime(n) PROVE TimersOK'
  BY <1>3 DEF SetSyncTime, storage
<1>4. CASE TimerSyncs
  BY <1>4 DEF TimerSyncs, SyncStore
<1>5. CASE TimerWaits
  <2>1. since' \in 0 .. MaxSince
    BY <1>5 DEF TimerWaits, SinceLastSync
  <2>2. left' \in 0 .. (1 + IdlePeriod + MaxInterval)
    BY <1>5 DEF TimerWaits
  <2>3. UNCHANGED <<interval, age, sets, raised>>
    BY <1>5 DEF TimerWaits, storage, limits
  <2> QED
    BY <2>1, <2>2, <2>3
<1>6. CASE Tick
  <2>1. left' = left - 1 /\ left > 0
    BY <1>6 DEF Tick
  <2>2. since' \in -1 .. MaxSince
    BY <1>6 DEF Tick, Least
  <2>3. age' \in 0 .. MaxAge
    BY <1>6 DEF Tick, Least
  <2>4. UNCHANGED <<interval, sets, raised>>
    BY <1>6 DEF Tick, limits
  <2> QED
    BY <2>1, <2>2, <2>3, <2>4
<1>7. \/ UNCHANGED <<timers, limits>> /\ age' \in {0, age}
      \/ \E n \in Intervals : SetSyncTime(n)
      \/ TimerSyncs \/ TimerWaits \/ Tick
  BY DEF Next, vars, Put, RotateBegins, RotateEnds, RotateFails, Killed, GetHops, WriteItem,
         Exit, Stop, Written, SyncStore, storage
<1> QED
  BY <1>2, <1>3, <1>4, <1>5, <1>6, <1>7

\* of the files,
LEMMA FilesStep ==
  ASSUME FilesOK, [Next]_vars
  PROVE  FilesOK'
<1> USE IntervalAssumption DEF FilesOK
<1>1. CASE UNCHANGED <<rfile, wfile>> /\ (rotating' = rotating \/ ~rotating')
  BY <1>1
<1>2. CASE RotateBegins
  BY <1>2 DEF RotateBegins
<1>3. CASE RotateEnds
  <2>1. ~rotating' /\ rotating /\ rfile' = rfile /\ wfile' = wfile + 1
    BY <1>3, Zenon DEF RotateEnds
  <2> QED
    BY <2>1
<1>4. CASE GetHops
  BY <1>4 DEF GetHops, writer
<1>5. \/ UNCHANGED <<rfile, wfile>> /\ (rotating' = rotating \/ ~rotating')
      \/ RotateBegins \/ RotateEnds \/ GetHops
  BY DEF Next, vars, Put, RotateFails, Killed, WriteItem, SetSyncTime, TimerSyncs,
         TimerWaits, Tick, Exit, Stop, writer
<1> QED
  BY <1>1, <1>2, <1>3, <1>4, <1>5

\* and of the process.
LEMMA ProcessStep ==
  ASSUME ProcessOK, [Next]_vars
  PROVE  ProcessOK'
<1>1. status' \in {"running", "exiting", "stopped", "killed"}
  BY DEF ProcessOK, Next, vars, Put, RotateBegins, RotateEnds, RotateFails, Killed, GetHops,
         WriteItem, SetSyncTime, TimerSyncs, TimerWaits, Tick, Exit, Stop
<1>2. exit_left' \in {0, 1}
  BY DEF ProcessOK, Next, vars, Put, RotateBegins, RotateEnds, RotateFails, Killed, GetHops,
         WriteItem, SetSyncTime, TimerSyncs, TimerWaits, Tick, Exit, Stop
<1>3. sync_intv' \in Nat
  <2>1. CASE sync_intv' = sync_intv
    BY <2>1 DEF ProcessOK
  <2>2. CASE Put \/ RotateEnds
    BY <2>2, IntervalAssumption DEF Put, RotateEnds, Written, ProcessOK
  <2>3. sync_intv' = sync_intv \/ Put \/ RotateEnds
    BY DEF Next, vars, RotateBegins, RotateFails, Killed, GetHops, WriteItem, SetSyncTime,
           TimerSyncs, TimerWaits, Tick, Exit, Stop
  <2> QED
    BY <2>1, <2>2, <2>3
<1>4. idle' \in BOOLEAN
  <2>1. \/ idle' = idle \/ idle' = FALSE
        \/ \E n \in Intervals : idle' = (idle \/ n = 0)
    BY Zenon DEF Next, vars, Put, RotateBegins, RotateEnds, RotateFails, Killed, GetHops,
           WriteItem, SetSyncTime, TimerSyncs, TimerWaits, Tick, Exit, Stop, limits
  <2> QED
    BY <2>1, Zenon DEF ProcessOK
<1> QED
  BY <1>1, <1>2, <1>3, <1>4 DEF ProcessOK

\* Every counter, timer and set of files keeps its type.
THEOREM SyncTypeCorrect == Spec => []TypeOK
<1>1. Init => TimersOK /\ FilesOK /\ ProcessOK
  BY InitTypes
<1>2. TimersOK /\ FilesOK /\ ProcessOK /\ [Next]_vars => (TimersOK /\ FilesOK /\ ProcessOK)'
  BY TimersStep, FilesStep, ProcessStep
<1>3. SyncInv /\ TimersOK /\ FilesOK /\ ProcessOK => TypeOK
  <2> SUFFICES ASSUME SyncInv, TimersOK, FilesOK, ProcessOK PROVE TypeOK
    OBVIOUS
  <2>1. dirty \subseteq rfile .. wfile
    BY IntervalAssumption DEF SyncInv, Cursors, ClosedIsClean, Mapped, Target, FilesOK
  <2>2. rotating \in BOOLEAN /\ wmapped \in BOOLEAN /\ rtag_dirty \in BOOLEAN
    BY DEF SyncInv, Cursors
  <2> QED
    BY <2>1, <2>2, Zenon DEF TypeOK, TimersOK, FilesOK, ProcessOK
<1> QED
  BY <1>1, <1>2, <1>3, SyncInvHolds, PTL DEF Spec

(***************************************************************************)
(* The age of what is not on the disk                                      *)
(***************************************************************************)

\* Unless the interval was 0: the timer was armed for the time it is from
\* last_sync, at most the largest interval.  What is dirty will not be older
\* than BoundedLoss allows when the timer is due.  If the timer will then be
\* found early, a synctime request that has not yet cost its round is to blame.
PunctualAt(i, s, l, a, r) ==
  /\ i # 0
  /\ IF s = -1
     THEN a + l <= 1
     ELSE /\ s + l <= MaxInterval
          /\ a + l <= 1 + Rounds(r + 1)
          /\ s + l >= i \/ a + l <= 1 + Rounds(r)

Punctual == PunctualAt(interval, since, left, age, raised)

LossInv == idle = FALSE => Punctual

\* Less time ahead, or a younger file, is as good.
LEMMA StaysPunctual ==
  ASSUME NEW i \in Nat, NEW s \in Int, NEW l \in Nat, NEW a \in Nat, NEW r \in Nat,
         NEW s1 \in Int, NEW l1 \in Int, NEW a1 \in Nat,
         PunctualAt(i, s, l, a, r), a1 + l1 <= a + l,
         \/ s = -1 /\ s1 = -1
         \/ s # -1 /\ s1 # -1 /\ s1 + l1 = s + l
  PROVE  PunctualAt(i, s1, l1, a1, r)
<1>1. Rounds(r) \in Nat /\ Rounds(r + 1) \in Nat /\ MaxInterval \in Nat
  BY RoundsType, MaxIntervalType
<1> HIDE DEF MaxInterval
<1>2. CASE s = -1
  BY <1>1, <1>2 DEF PunctualAt
<1>3. CASE s # -1
  BY <1>1, <1>3 DEF PunctualAt
<1> QED
  BY <1>2, <1>3

\* A second brings the age up and what is left of the interval down.
LEMMA OneSecond ==
  ASSUME NEW a \in Nat, NEW l \in Nat, NEW a1 \in Nat, NEW l1, a1 <= a + 1, l1 = l - 1
  PROVE  l1 \in Int /\ a1 + l1 <= a + l
OBVIOUS

\* At the start nothing waits for the disk.
LEMMA InitLoss == Init => LossInv
<1> SUFFICES ASSUME Init, idle = FALSE PROVE interval # 0 /\ since = -1 /\ age + left <= 1
  BY DEF LossInv, Punctual, PunctualAt
<1>1. idle = (DefInterval = 0) /\ interval = DefInterval
  BY Zenon DEF Init
<1>2. since = -1 /\ left = 1 /\ age = 0
  BY Zenon DEF Init
<1>3. interval # 0
  BY <1>1, Zenon
<1> QED
  BY <1>2, <1>3

\* Age and what is left until the next sync never exceed the bound together.
LEMMA StepLoss ==
  ASSUME TimersOK, ProcessOK, LossInv, [Next]_vars
  PROVE  LossInv'
<1>1. /\ interval \in Nat /\ interval <= MaxInterval /\ MaxInterval \in Nat
      /\ since \in Int /\ since >= -1 /\ left \in Nat /\ age \in Nat /\ raised \in Nat
      /\ Rounds(raised) \in Nat /\ Rounds(raised + 1) = Rounds(raised) + MaxInterval
  BY MaxIntervalType, MaxAgeType, RoundsType, IntervalAssumption DEF TimersOK
<1>2. idle = TRUE \/ idle = FALSE
  BY Zenon DEF ProcessOK
<1>3. CASE UNCHANGED <<timers, limits>> /\ age' \in {0, age}
  <2>1. interval' = interval /\ since' = since /\ left' = left /\ raised' = raised
    BY <1>3 DEF timers, limits
  <2>2. age' \in Nat /\ age' + left <= age + left
    <3>1. age \in Nat /\ left \in Nat
      BY <1>1
    <3>2. age' = 0 \/ age' = age
      BY <1>3
    <3> QED
      BY <3>1, <3>2
  <2>3. idle' = idle
    BY <1>3 DEF limits
  <2>4. Punctual => PunctualAt(interval, since, left, age', raised)
    <3>1. /\ interval \in Nat /\ since \in Int /\ left \in Nat /\ age \in Nat
          /\ raised \in Nat /\ left \in Int
      BY <1>1
    <3> HIDE DEF PunctualAt
    <3> QED
      BY <2>2, <3>1, StaysPunctual DEF Punctual
  <2> QED
    BY <2>1, <2>3, <2>4, Zenon DEF LossInv, Punctual
<1>4. ASSUME NEW n \in Intervals, SetSyncTime(n) PROVE LossInv'
  <2>1. /\ interval' = n /\ since' = since /\ left' = left /\ age' = age
        /\ raised' = raised + 1
    BY <1>4 DEF SetSyncTime, storage
  <2>2. idle' = (idle \/ n = 0)
    BY <1>4, Zenon DEF SetSyncTime
  <2>3. idle' = FALSE => idle = FALSE /\ n # 0
    BY <1>2, <2>2, Zenon
  <2>4. Rounds(raised + 2) = Rounds(raised + 1) + MaxInterval
    BY <1>1, RoundsType
  <2>5. Rounds(raised') = Rounds(raised + 1) /\ Rounds(raised' + 1) = Rounds(raised + 2)
    BY <1>1, <2>1
  <2>6. Punctual /\ n # 0 => Punctual'
    BY <1>1, <2>1, <2>4, <2>5 DEF Punctual, PunctualAt
  <2> QED
    BY <2>3, <2>6, Zenon DEF LossInv
<1>5. CASE TimerSyncs
  <2>1. /\ interval # 0 /\ interval' = interval /\ since' = 0 /\ left' = interval
        /\ age' = 0 /\ raised' = 0
    BY <1>5 DEF TimerSyncs, SyncStore, IsDue
  <2>2. Rounds(raised') = 0 /\ Rounds(raised' + 1) = MaxInterval
    BY <1>1, <2>1 DEF Rounds
  <2> QED
    BY <1>1, <2>1, <2>2 DEF LossInv, Punctual, PunctualAt
<1>6. CASE TimerWaits
  <2>1. /\ left = 0 /\ ~IsDue /\ interval' = interval /\ age' = age /\ raised' = raised
        /\ idle' = idle
        /\ since' = IF interval # 0 THEN 0 ELSE SinceLastSync
        /\ left' = IF interval # 0 THEN interval ELSE IdlePeriod
    BY <1>6 DEF TimerWaits, storage, limits
  <2>2. Rounds(raised') = Rounds(raised) /\ Rounds(raised' + 1) = Rounds(raised + 1)
    BY <2>1
  <2>3. ASSUME Punctual
        PROVE  interval # 0 /\ age + interval <= 1 + Rounds(raised + 1)
    <3>1. interval # 0
      BY <2>3 DEF Punctual, PunctualAt
    <3>2. CASE since = -1
      <4>1. age + left <= 1
        BY <2>3, <3>2 DEF Punctual, PunctualAt
      <4> QED
        BY <1>1, <2>1, <3>1, <4>1
    <3>3. CASE since # -1
      <4>1. since < interval
        BY <1>1, <2>1, <3>1, <3>3 DEF IsDue, SinceLastSync
      <4>2. age + left <= 1 + Rounds(raised)
        BY <1>1, <2>1, <2>3, <3>3, <4>1 DEF Punctual, PunctualAt
      <4> QED
        BY <1>1, <2>1, <3>1, <4>2
    <3> QED
      BY <3>2, <3>3
  <2>4. Punctual => Punctual'
    BY <1>1, <2>1, <2>2, <2>3 DEF Punctual, PunctualAt
  <2> QED
    BY <2>1, <2>4, Zenon DEF LossInv
<1>7. CASE Tick
  <2>1. /\ left > 0 /\ left' = left - 1 /\ interval' = interval /\ raised' = raised
        /\ since' = IF since = -1 THEN -1 ELSE Least(since + 1, MaxSince)
    BY <1>7 DEF Tick, limits
  <2>2. idle' = idle
    BY <1>7 DEF Tick, limits
  <2>3. age' \in Nat /\ age' <= age + 1
    BY <1>1, <1>7, MaxAgeType DEF Tick, Least
  <2>4. left' \in Int /\ age' + left' <= age + left
    <3>1. age \in Nat /\ left \in Nat
      BY <1>1
    <3>2. left' = left - 1
      BY <2>1
    <3> QED
      BY <2>3, <3>1, <3>2, OneSecond
  <2>5. Punctual /\ since # -1 => since' = since + 1
    BY <1>1, <2>1 DEF Punctual, PunctualAt, Least, MaxSince
  <2>6. ASSUME Punctual
        PROVE  PunctualAt(interval, since', left', age', raised)
    <3>1. since' \in Int /\ \/ since = -1 /\ since' = -1
                            \/ since # -1 /\ since' # -1 /\ since' + left' = since + left
      <4>1. since \in Int /\ left \in Nat /\ left' = left - 1
        BY <1>1, <2>1
      <4>2. since = -1 => since' = -1
        BY <2>1
      <4>3. since # -1 => since' = since + 1
        BY <2>5, <2>6
      <4>4. since # -1 => since # -2
        BY <1>1
      <4> QED
        BY <4>1, <4>2, <4>3, <1>1
    <3>2. PunctualAt(interval, since, left, age, raised)
      BY <2>6 DEF Punctual
    <3> QED
      BY <1>1, <2>3, <2>4, <3>1, <3>2, StaysPunctual
  <2> QED
    BY <2>1, <2>2, <2>6, Zenon DEF LossInv, Punctual
<1>8. \/ UNCHANGED <<timers, limits>> /\ age' \in {0, age}
      \/ \E n \in Intervals : SetSyncTime(n)
      \/ TimerSyncs \/ TimerWaits \/ Tick
  BY DEF Next, vars, Put, RotateBegins, RotateEnds, RotateFails, Killed, GetHops, WriteItem,
         Exit, Stop, Written, SyncStore, storage
<1> QED
  BY <1>3, <1>4, <1>5, <1>6, <1>7, <1>8

\* An acknowledged message waits for the disk no longer than one second plus
\* one interval, and one more for each synctime request, for all intervals.
THEOREM LossBounded == Spec => []BoundedLoss
<1>1. Init => TimersOK /\ ProcessOK /\ LossInv
  BY InitTypes, InitLoss
<1>2. TimersOK /\ ProcessOK /\ LossInv /\ [Next]_vars => (TimersOK /\ ProcessOK /\ LossInv)'
  BY TimersStep, ProcessStep, StepLoss
<1>3. TimersOK /\ ProcessOK /\ LossInv => BoundedLoss
  <2> SUFFICES ASSUME TimersOK, ProcessOK, LossInv, idle = FALSE
               PROVE  age <= 1 + (raised + 1) * MaxInterval
    BY Zenon DEF ProcessOK, BoundedLoss
  <2>1. /\ MaxInterval \in Nat /\ left \in Nat /\ age \in Nat /\ raised \in Nat
        /\ Rounds(raised + 1) \in Nat
    BY MaxIntervalType, MaxAgeType, RoundsType, IntervalAssumption DEF TimersOK
  <2>2. age + left <= 1 + Rounds(raised + 1)
    BY <2>1 DEF LossInv, Punctual, PunctualAt
  <2> QED
    BY <2>1, <2>2 DEF Rounds
<1> QED
  BY <1>1, <1>2, <1>3, PTL DEF Spec

==============================================================================
