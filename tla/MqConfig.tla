------------------------------ MODULE MqConfig ------------------------------
(***************************************************************************)
(* The configuration g_mq_conf: read at the start of the server and again  *)
(* on exec?cmd=reload, changed by synctime requests, and used by the store *)
(* whenever it creates, opens or unmaps a db file.                         *)
(*                                                                         *)
(* Five parameters stand for the fifteen: a string that decides which file *)
(* is read next (conf_file), a string that decides who may use exec        *)
(* (allow_exec_ip), a number that a request changes too                    *)
(* (sync_time_interval), the directory every path is built from at use     *)
(* (data_file_path) and the number the files in it depend on               *)
(* (db_file_max_size, here never 0).  The key "v" is a variable of the     *)
(* file.  One queue stands for all; the directories data_file_path names   *)
(* are there.                                                              *)
(***************************************************************************)
EXTENDS IniFile

CONSTANTS
  Files,      \* contents of a configuration file that is never changed
  Edits,      \* contents of one that is
  Digits,     \* the value of each digit word
  DefConf,    \* g_mq_conf before any file is read
  SizeLimit,  \* MAX_DB_FILE_SIZE_LIMIT
  Ips,        \* the addresses exec requests come from
  SyncTimes,  \* the numbers of synctime requests
  MaxEdits,   \* bound: how often a file is changed
  MaxFile,    \* bound: the number of a db file
  MaxEntries  \* bound: how often the queue is in the hash table

\* The file the server is started with, and another one.
Paths == {"p1", "p2"}

\* In the place of the contents of a file that is not there.
NoFile == <<[key |-> "", val |-> << >>]>>

ASSUME ConfigAssumption ==
  /\ {"conf_file", "exec_ip", "sync_time", "data_path", "db_size"} \subseteq Keys
  /\ SizeLimit \in Nat /\ MaxEdits \in Nat
  /\ MaxFile \in Nat \ {0} /\ MaxEntries \in Nat \ {0}
  /\ DOMAIN DefConf = {"conf_file", "exec_ip", "sync_time", "data_path", "db_size"}
  /\ DefConf.sync_time \in Nat /\ DefConf.db_size \in 1 .. SizeLimit
  /\ SyncTimes \subseteq Nat

\* What is in a file is lines with known keys.
ASSUME FilesAssumption == (Files \cup Edits) \ {NoFile} \subseteq Seq(Lines)

VARIABLES
  status,   \* "up" or "down"
  file,     \* what is in the configuration files
  conf,     \* g_mq_conf
  dirs,     \* the data paths under which the queue has a directory
  db,       \* the size of each db file <<data path, number>> of the queue
  table,    \* the entries of the queue in the hash table, the one that is found first
  edits,    \* how often a file was changed
  moved     \* history: a reload changed the data path of this process

vars == <<status, file, conf, dirs, db, table, edits, moved>>

(***************************************************************************)
(* read_conf_file                                                          *)
(***************************************************************************)

\* is_num_str: also true of the empty string, of which atoi makes 0.
IsNumStr(val) == \A i \in DOMAIN val : val[i] \in DOMAIN Digits

atoi(val) == FoldLeft(LAMBDA n, w : 10 * n + Digits[w], 0, val)

\* A parameter that is missing, and a number that is none, leave what was
\* there.
StringParam(t, k, old) == IF Found(t, k) THEN ini_find(t, k) ELSE old

NumParam(t, k, old) ==
  IF Found(t, k) /\ IsNumStr(ini_find(t, k)) THEN atoi(ini_find(t, k)) ELSE old

Read(t, c) ==
  [conf_file |-> StringParam(t, "conf_file", c.conf_file),
   exec_ip   |-> StringParam(t, "exec_ip", c.exec_ip),
   sync_time |-> NumParam(t, "sync_time", c.sync_time),
   data_path |-> StringParam(t, "data_path", c.data_path),
   db_size   |-> NumParam(t, "db_size", c.db_size)]

\* What the files have for numbers fits an int, and the size is not 0.
ASSUME NumbersAssumption ==
  \A f \in (Files \cup Edits) \ {NoFile} :
    LET t == ini_load(f)
    IN  t # NullTable => /\ NumParam(t, "sync_time", 0) \in Nat
                         /\ NumParam(t, "db_size", 1) \in Nat \ {0}

\* ini_load of a path: no file, no table.
LoadOf(path) ==
  IF \E p \in Paths : path = <<p>> /\ file[p] # NoFile THEN ini_load(file[path[1]]) ELSE NullTable

\* Mutant of Aborts: the assertion is compiled out.
NeverAborts(t) == FALSE

\* The assertion on db_file_max_size.
Aborts(t) == t # NullTable /\ NumParam(t, "db_size", 0) > SizeLimit

(***************************************************************************)
(* Entries and files                                                       *)
(***************************************************************************)

\* A mapping of file with length len, old if a reload has raised the size since.
Mapping(f, len) == [file |-> f, len |-> len, old |-> FALSE]

\* In the place of a mapping: a null pointer, and one to what is no longer mapped.
NoMap == [file |-> <<"null">>, len |-> 0, old |-> FALSE]
Dangling == [file |-> <<"dangling">>, len |-> 0, old |-> FALSE]

\* cur_rdb and cur_wdb: numbers and mappings.
Entry(r, w, rmap, wmap) == [r |-> r, w |-> w, rmap |-> rmap, wmap |-> wmap]

Path == conf.data_path

\* The db files with one more, or with one of another size.
Extended(files, f, size) ==
  [g \in DOMAIN files \cup {f} |-> IF g = f THEN size ELSE files[g]]

\* The db files without those of the queue under the data path: delete_file.
Emptied == [f \in {g \in DOMAIN db : g[1] # Path} |-> db[f]]

\* mq_sm_open_db for what find_handle_file has found: the files with the lowest
\* and the highest number must have the size in use, those between are not
\* looked at.  There is at most one such entry.
Opened(c) ==
  LET p == c.data_path
      ids == {f[2] : f \in {g \in DOMAIN db : g[1] = p}}
      Full(i) == db[<<p, i>>] = c.db_size
      map(i) == Mapping(<<p, i>>, c.db_size)
      ends == {e \in ids \X ids : \A i \in ids : e[1] <= i /\ i <= e[2]}
  IN  {Entry(e[1], e[2], map(e[1]), map(e[2])) : e \in {x \in ends : Full(x[1]) /\ Full(x[2])}}

(***************************************************************************)
(* The server                                                              *)
(***************************************************************************)

Gone ==
  /\ status' = "down"
  /\ table' = << >>
  /\ moved' = FALSE

\* main with -c: without a file that can be read there is no server.  Then
\* mq_qm_open_store opens the queue, or does not: that may be because of its
\* rtag file, which is QueueRecovery's.
Start ==
  LET t == LoadOf(<<"p1">>)
      c == Read(t, [DefConf EXCEPT !.conf_file = <<"p1">>])
  IN  /\ status = "down"
      /\ t # NullTable /\ ~Aborts(t)
      /\ status' = "up"
      /\ conf' = c
      /\ \/ table' = << >>
         \/ \E q \in Opened(c) : table' = <<q>>
      /\ UNCHANGED <<file, dirs, db, edits, moved>>

\* exec?cmd=kill, a signal, or a crash, among them a message that is written,
\* or a scan that goes on, outside of a mapping.
Stop ==
  /\ status = "up"
  /\ Gone
  /\ UNCHANGED <<file, conf, dirs, db, edits>>

\* allow_exec_ip: 0 lets everybody in.
MayExec(ip) ==
  \/ conf.exec_ip = <<ip>>
  \/ conf.exec_ip # << >> /\ IsNumStr(conf.exec_ip) /\ atoi(conf.exec_ip) = 0

\* The entries when the size in use becomes size.
Aged(size) ==
  LET Older(m) == [m EXCEPT !.old = @ \/ (m.len > 0 /\ size > conf.db_size)]
  IN  [i \in DOMAIN table |->
         Entry(table[i].r, table[i].w, Older(table[i].rmap), Older(table[i].wmap))]

\* The reply is "ok" whatever read_conf_file returns; a file that cannot be
\* read leaves everything as it was, one with too large a size ends the
\* process.  Open queues are not looked at.
Reload(ip) ==
  LET t == LoadOf(conf.conf_file)
  IN  /\ status = "up"
      /\ MayExec(ip)
      /\ IF Aborts(t) THEN Gone /\ UNCHANGED conf
         ELSE /\ conf' = IF t = NullTable THEN conf ELSE Read(t, conf)
              /\ table' = Aged(conf'.db_size)
              /\ moved' = (moved \/ conf'.data_path # Path)
              /\ UNCHANGED status
      /\ UNCHANGED <<file, dirs, db, edits>>

\* mq_qm_set_synctime.
SetSyncTime(n) ==
  /\ status = "up"
  /\ conf' = [conf EXCEPT !.sync_time = n]
  /\ UNCHANGED <<status, file, dirs, db, table, edits, moved>>

(***************************************************************************)
(* The store under a configuration                                         *)
(***************************************************************************)

\* mq_qm_del_queue closes the entry before it looks for the directory.
ClosedEntry(q) ==
  Entry(q.r, q.w, IF q.rmap = NoMap THEN NoMap ELSE Dangling, Dangling)

\* Mutant of Remaining: the entry is kept when the directory is removed, too.
RemainingAlways == [table EXCEPT ![1] = ClosedEntry(@)]

\* What mq_qm_del_queue leaves in the table: without a directory to remove, the
\* closed entry as well.
Remaining ==
  IF Path \in dirs THEN Tail(table) ELSE [table EXCEPT ![1] = ClosedEntry(@)]

\* mq_sm_creat_db: a directory that is there is emptied, the first file extended
\* to the size in use.
First == <<Path, 1>>
Made ==
  LET map == Mapping(First, conf.db_size)
  IN  /\ db' = Extended(Emptied, First, conf.db_size)
      /\ dirs' = dirs \cup {Path}
      /\ table' = <<Entry(1, 1, map, map)>> \o IF table = << >> THEN << >> ELSE Remaining

\* A request for a queue that is not in the table.
Create ==
  /\ status = "up"
  /\ table = << >>
  /\ Made
  /\ UNCHANGED <<status, file, conf, edits, moved>>

\* http_opt_remove; also a reset that cannot create the queue again.
Delete ==
  /\ status = "up"
  /\ table # << >>
  /\ table' = Remaining
  /\ db' = Emptied
  /\ dirs' = dirs \ {Path}
  /\ UNCHANGED <<status, file, conf, edits, moved>>

\* http_opt_reset adds the queue whatever becomes of the removal.  hash_find
\* then finds the newer of two entries.
Reset ==
  /\ status = "up"
  /\ table # << >>
  /\ Len(Remaining) < MaxEntries
  /\ Made
  /\ UNCHANGED <<status, file, conf, edits, moved>>

\* A crash in mq_sm_creat_db, before the first file is there or before it is
\* extended.
CrashInCreate ==
  /\ status = "up"
  /\ dirs' = dirs \cup {Path}
  /\ db' \in {Emptied, Extended(Emptied, First, 0)}
  /\ Gone
  /\ UNCHANGED <<file, conf, edits>>

\* A crash while delete_file is at work has left some of the files.
CrashInDelete(left) ==
  /\ status = "up"
  /\ Path \in dirs
  /\ db' = [f \in DOMAIN Emptied \cup (left \cap DOMAIN db) |-> db[f]]
  /\ Gone
  /\ UNCHANGED <<file, conf, dirs, edits>>

\* The file a rotation goes to.
NextFile == <<Path, table[1].w + 1>>

\* The head of the old file is written first.
MayRotate ==
  /\ status = "up"
  /\ table # << >>
  /\ table[1].wmap # Dangling
  /\ table[1].w < MaxFile

\* get_next_write_file: also a file that is there, left from another time with
\* this data path, gets the size in use.
Rotate ==
  /\ MayRotate
  /\ Path \in dirs
  /\ db' = Extended(db, NextFile, conf.db_size)
  /\ table' = [table EXCEPT
       ![1] = Entry(@.r, @.w + 1, @.rmap, Mapping(NextFile, conf.db_size))]
  /\ UNCHANGED <<status, file, conf, dirs, edits, moved>>

\* A crash between open with O_CREAT and the extension.
CrashInRotate ==
  /\ MayRotate
  /\ Path \in dirs
  /\ NextFile \notin DOMAIN db
  /\ db' = Extended(db, NextFile, 0)
  /\ Gone
  /\ UNCHANGED <<file, conf, dirs, edits>>

\* Storage is low, when the old file was unmapped if it is not the read file
\* too, or the directory is not there, which leaves a null pointer.
RotateFails ==
  /\ MayRotate
  /\ table[1].w > table[1].r \/ Path \notin dirs
  /\ table' = [table EXCEPT ![1] = Entry(@.r, @.w, @.rmap, Dangling)]
  /\ UNCHANGED <<status, file, conf, dirs, db, edits, moved>>

\* The db files without the one that has been read, as the data path names it.
Unlinked == [f \in DOMAIN db \ {<<Path, table[1].r>>} |-> db[f]]

\* Mutant of Hop: the size of the file is not looked at.
HopUnchecked ==
  LET q == table[1]
      next == <<Path, q.r + 1>>
  IN  /\ status = "up"
      /\ table # << >>
      /\ q.r < q.w
      /\ Path \in dirs
      /\ db' = Unlinked
      /\ LET rmap == IF q.r + 1 = q.w THEN q.wmap
                     ELSE IF next \in DOMAIN db THEN Mapping(next, conf.db_size)
                     ELSE NoMap
         IN  table' = [table EXCEPT ![1] = Entry(q.r + 1, q.w, rmap, q.wmap)]
      /\ UNCHANGED <<status, file, conf, dirs, edits, moved>>

\* get_next_read_file: without the directory there is no next rtag file, and
\* nothing happens.  The old file is unlinked before the next is opened; one
\* that is refused is not mapped, and the next get passes it by the same way.
Hop ==
  LET q == table[1]
      next == <<Path, q.r + 1>>
  IN  /\ status = "up"
      /\ table # << >>
      /\ q.r < q.w
      /\ Path \in dirs
      /\ db' = Unlinked
      /\ LET rmap == IF q.r + 1 = q.w THEN q.wmap
                     ELSE IF next \in DOMAIN db /\ db[next] = conf.db_size
                          THEN Mapping(next, conf.db_size)
                     ELSE NoMap
         IN  table' = [table EXCEPT ![1] = Entry(q.r + 1, q.w, rmap, q.wmap)]
      /\ UNCHANGED <<status, file, conf, dirs, edits, moved>>

(***************************************************************************)
(* The operator                                                            *)
(***************************************************************************)

Edit(p, f) ==
  /\ edits < MaxEdits
  /\ file' = [file EXCEPT ![p] = f]
  /\ edits' = edits + 1
  /\ UNCHANGED <<status, conf, dirs, db, table, moved>>

Init ==
  /\ status = "down"
  /\ \E f \in Files \cup Edits :
       /\ file = [p \in Paths |-> IF p = "p1" THEN f ELSE NoFile]
       /\ edits = IF f \in Edits THEN 0 ELSE MaxEdits
  /\ conf = DefConf
  /\ dirs = {} /\ db = << >> /\ table = << >>
  /\ moved = FALSE

Next ==
  \/ Start \/ Stop
  \/ \E ip \in Ips : Reload(ip)
  \/ \E n \in SyncTimes : SetSyncTime(n)
  \/ Create \/ Delete \/ Reset \/ CrashInCreate
  \/ \E left \in SUBSET DOMAIN db : CrashInDelete(left)
  \/ Rotate \/ RotateFails \/ CrashInRotate \/ Hop
  \/ \E p \in Paths, f \in Edits : Edit(p, f)

Spec == Init /\ [][Next]_vars

\* The type invariant.  The size in use keeps its limit through reloads: a file
\* with a larger one ends the process at the assertion.
ConfigTypeOK ==
  /\ status \in {"up", "down"}
  /\ DOMAIN conf = DOMAIN DefConf /\ conf.sync_time \in Nat /\ conf.db_size \in 1 .. SizeLimit
  /\ DOMAIN file = Paths
  /\ \A f \in DOMAIN db : f[1] \in dirs /\ f[2] \in 1 .. MaxFile /\ db[f] \in 0 .. SizeLimit
  /\ Len(table) <= MaxEntries /\ (table # << >> => status = "up")
  /\ \A i \in DOMAIN table : 1 <= table[i].r /\ table[i].r <= table[i].w /\ table[i].w <= MaxFile
  /\ edits \in 0 .. MaxEdits
  /\ moved \in BOOLEAN

(***************************************************************************)
(* Properties                                                              *)
(***************************************************************************)

\* ini_load gives every value its full expansion, whatever the order of the
\* lines, and refuses the whole file if a reference in it is missing, ambiguous
\* or circular; a good file it refuses only at its limits.
LoadMeansExpansion ==
  \A p \in {q \in Paths : file[q] # NoFile} :
    LET f == file[p]
        raw == Table(f)
        t == ini_load(f)
    IN  IF t = NullTable
        THEN Resolvable(f) => ~Small(f)
        ELSE /\ Resolvable(f)
             /\ \A k \in Keys : \A i \in DOMAIN raw[k] :
                  t[k][i] = Substituted(t, raw[k][i])

\* What the entries have mapped.
Mappings == UNION {{m \in {table[i].rmap, table[i].wmap} : m.len > 0} : i \in DOMAIN table}

\* No mapping reaches behind the end of its file, and each is as long as the
\* size that puts, scans and rotations compute with, unless the process had it
\* already when a reload raised that size.  So it is whatever sizes and data
\* paths reloads and restarts bring, whatever files of other sizes, or without
\* any, crashes and earlier data paths have left, and also for the mappings
\* made after a size was raised.
MappingsFit ==
  \A m \in Mappings :
    /\ m.file \in DOMAIN db => m.len <= db[m.file]
    /\ m.len >= conf.db_size \/ m.old

\* Until a reload changes the data path, a queue has one entry in the table, no
\* removal fails, and the file the entry writes to is on disk under the data
\* path.
EntryOnDisk ==
  ~moved /\ table # << >> =>
    /\ Len(table) = 1
    /\ Path \in dirs
    /\ <<Path, table[1].w>> \in DOMAIN db
==============================================================================
