--------------------------- MODULE MqConfig_proofs ---------------------------
(***************************************************************************)
(* Theorems about MqConfig for all contents of configuration files, all    *)
(* defaults and data paths, and any number of edits, db files and entries. *)
(* What a file says is whatever ini_load makes of it; that this is what    *)
(* the file means is the theorem of IniFile_proofs.                        *)
(***************************************************************************)
EXTENDS MqConfig, IniFile_proofs

Sizes == 1 .. SizeLimit

\* The values data_file_path may get.
DataPaths ==
  {DefConf.data_path}
  \cup {ini_find(ini_load(f), "data_path") : f \in (Files \cup Edits) \ {NoFile}}

DbFiles == DataPaths \X (1 .. MaxFile)

MapType ==
  [file: DbFiles \cup {<<"null">>, <<"dangling">>}, len: 0 .. SizeLimit, old: BOOLEAN]

EntryType == [r: 1 .. MaxFile, w: 1 .. MaxFile, rmap: MapType, wmap: MapType]

\* The parameters and the files they come from.
ParamInv ==
  /\ DOMAIN conf = DOMAIN DefConf
  /\ conf.sync_time \in Nat
  /\ conf.db_size \in Sizes
  /\ conf.data_path \in DataPaths
  /\ DOMAIN file = Paths
  /\ \A p \in Paths : file[p] \in Files \cup Edits \cup {NoFile}
  /\ edits \in 0 .. MaxEdits

\* A mapping of the db file number n, if it is one, among the db files in files
\* and for a size in use.
MapGood(m, n, files, size) ==
  m.len > 0 => /\ m.file \in DbFiles
               /\ m.file[2] = n
               /\ m.file \in DOMAIN files => m.len <= files[m.file]
               /\ m.len >= size \/ m.old

EntryGood(q, files, size) ==
  /\ q.r <= q.w
  /\ MapGood(q.rmap, q.r, files, size)
  /\ MapGood(q.wmap, q.w, files, size)

Unmapped(q) == q.rmap.len = 0 /\ q.wmap.len = 0

\* Every entry is good, and only the one that is found has mappings.
TableGood(tab, files, size) ==
  /\ tab \in Seq(EntryType)
  /\ Len(tab) <= MaxEntries
  /\ \A i \in 1 .. Len(tab) : EntryGood(tab[i], files, size)
  /\ \A i \in 1 .. Len(tab) : i > 1 => Unmapped(tab[i])

\* The same of a table without any mappings, whatever the files and sizes.
AllUnmapped(tab) ==
  /\ tab \in Seq(EntryType)
  /\ Len(tab) <= MaxEntries
  /\ \A i \in 1 .. Len(tab) : tab[i].r <= tab[i].w /\ Unmapped(tab[i])

\* Db files are in directories that are there.
FilesGood(files, ds) ==
  /\ DOMAIN files \subseteq DbFiles
  /\ \A f \in DOMAIN files : f[1] \in ds /\ files[f] \in 0 .. SizeLimit

StoreInv ==
  /\ status \in {"up", "down"}
  /\ moved \in BOOLEAN
  /\ table # << >> => status = "up"
  /\ FilesGood(db, dirs)
  /\ TableGood(table, db, conf.db_size)

ConfigInv == ParamInv /\ StoreInv /\ EntryOnDisk

-----------------------------------------------------------------------------
\* Reading a file

\* A table that LoadOf returns is that of one of the files.
LEMMA LoadedFile ==
  ASSUME NEW path, LoadOf(path) # NullTable
  PROVE  \E p \in Paths : path = <<p>> /\ file[p] # NoFile /\ LoadOf(path) = ini_load(file[p])
<1>1. PICK p \in Paths : path = <<p>> /\ file[p] # NoFile
  BY DEF LoadOf
<1>2. path[1] = p
  BY <1>1
<1>3. LoadOf(path) = ini_load(file[p])
  BY <1>1, <1>2 DEF LoadOf
<1> QED
  BY <1>1, <1>3

\* What a configuration has when its parameters have their types.
ConfGood(c) ==
  /\ DOMAIN c = DOMAIN DefConf
  /\ c.sync_time \in Nat
  /\ c.db_size \in Sizes
  /\ c.data_path \in DataPaths

\* Read leaves parameters with their types.
LEMMA ReadGood ==
  ASSUME NEW path, NEW c, LoadOf(path) # NullTable, ~Aborts(LoadOf(path)), ParamInv,
         c.sync_time \in Nat, c.db_size \in Sizes, c.data_path \in DataPaths
  PROVE  ConfGood(Read(LoadOf(path), c))
<1> DEFINE t == LoadOf(path)
           r == Read(t, c)
<1>1. PICK p \in Paths : file[p] # NoFile /\ t = ini_load(file[p])
  BY LoadedFile
<1>2. file[p] \in (Files \cup Edits) \ {NoFile}
  BY <1>1 DEF ParamInv
<1>3. /\ NumParam(t, "sync_time", 0) \in Nat
      /\ NumParam(t, "db_size", 1) \in Nat \ {0}
  BY <1>1, <1>2, NumbersAssumption
<1>4. ini_find(t, "data_path") \in DataPaths
  BY <1>1, <1>2 DEF DataPaths
<1>5. ~(NumParam(t, "db_size", 0) > SizeLimit)
  BY DEF Aborts
<1>6. /\ DOMAIN r = DOMAIN DefConf
      /\ r.sync_time = NumParam(t, "sync_time", c.sync_time)
      /\ r.db_size = NumParam(t, "db_size", c.db_size)
      /\ r.data_path = StringParam(t, "data_path", c.data_path)
  BY ConfigAssumption DEF Read
<1> HIDE DEF t, r
<1>7. r.sync_time \in Nat
  BY <1>3, <1>6 DEF NumParam
<1>8. r.data_path \in DataPaths
  BY <1>4, <1>6 DEF StringParam
<1>9. r.db_size \in Sizes
  <2>1. CASE Found(t, "db_size") /\ IsNumStr(ini_find(t, "db_size"))
    <3>1. /\ r.db_size = NumParam(t, "db_size", 1)
          /\ r.db_size = NumParam(t, "db_size", 0)
      BY <1>6, <2>1 DEF NumParam
    <3>2. r.db_size \in Nat \ {0} /\ ~(r.db_size > SizeLimit)
      BY <3>1, <1>3, <1>5
    <3> QED
      BY <3>2, ConfigAssumption DEF Sizes
  <2>2. CASE ~(Found(t, "db_size") /\ IsNumStr(ini_find(t, "db_size")))
    BY <1>6, <2>2 DEF NumParam
  <2> QED
    BY <2>1, <2>2
<1> QED
  BY <1>6, <1>7, <1>8, <1>9 DEF ConfGood, t, r

-----------------------------------------------------------------------------
\* Tables of entries

\* The empty table is good.
LEMMA EmptyGood ==
  /\ AllUnmapped(<< >>)
  /\ \A files, size : TableGood(<< >>, files, size)
<1>1. << >> \in Seq(EntryType) /\ Len(<< >>) = 0
  OBVIOUS
<1>2. 1 .. 0 = {} /\ 0 <= MaxEntries
  BY ConfigAssumption
<1> QED
  BY <1>1, <1>2 DEF AllUnmapped, TableGood

\* A table without mappings is good.
LEMMA UnmappedGood ==
  ASSUME NEW tab, AllUnmapped(tab), NEW files, NEW size
  PROVE  TableGood(tab, files, size)
BY DEF AllUnmapped, TableGood, EntryGood, MapGood, Unmapped

\* The first entry may be replaced, and the files changed, if it is good then.
LEMMA HeadReplaced ==
  ASSUME NEW tab, NEW files, NEW size, TableGood(tab, files, size), tab # << >>,
         NEW q \in EntryType, NEW files2, EntryGood(q, files2, size)
  PROVE  /\ TableGood([tab EXCEPT ![1] = q], files2, size)
         /\ Len([tab EXCEPT ![1] = q]) = Len(tab)
         /\ [tab EXCEPT ![1] = q][1] = q
         /\ [tab EXCEPT ![1] = q] # << >>
<1> DEFINE new == [tab EXCEPT ![1] = q]
<1>1. tab \in Seq(EntryType) /\ Len(tab) \in Nat /\ Len(tab) # 0 /\ DOMAIN tab = 1 .. Len(tab)
  BY DEF TableGood
<1>2. new \in Seq(EntryType) /\ Len(new) = Len(tab)
  BY <1>1
<1>3. new[1] = q /\ \A i \in 1 .. Len(tab) : i > 1 => new[i] = tab[i]
  BY <1>1
<1> HIDE DEF new
<1>4. \A i \in 1 .. Len(tab) : i > 1 => EntryGood(new[i], files2, size) /\ Unmapped(new[i])
  BY <1>3 DEF TableGood, EntryGood, MapGood, Unmapped
<1>5. \A i \in 1 .. Len(tab) : i > 1 \/ i = 1
  BY <1>1
<1>6. TableGood(new, files2, size)
  BY <1>2, <1>3, <1>4, <1>5 DEF TableGood
<1>7. new # << >>
  BY <1>1, <1>2
<1> QED
  BY <1>2, <1>3, <1>6, <1>7 DEF new

\* A good entry may be put before a table without mappings.
LEMMA EntryAdded ==
  ASSUME NEW tab, AllUnmapped(tab), Len(tab) < MaxEntries,
         NEW q \in EntryType, NEW files, NEW size, EntryGood(q, files, size)
  PROVE  /\ TableGood(<<q>> \o tab, files, size)
         /\ Len(<<q>> \o tab) = Len(tab) + 1
         /\ (<<q>> \o tab)[1] = q
<1> DEFINE new == <<q>> \o tab
<1>1. tab \in Seq(EntryType) /\ Len(tab) \in Nat /\ <<q>> \in Seq(EntryType) /\ Len(<<q>>) = 1
  BY DEF AllUnmapped
<1>2. /\ new \in Seq(EntryType)
      /\ Len(new) = Len(tab) + 1
      /\ \A i \in 1 .. Len(tab) + 1 : new[i] = IF i <= 1 THEN <<q>>[i] ELSE tab[i - 1]
  BY <1>1, ConcatProperties
<1> HIDE DEF new
<1>3. new[1] = q
  BY <1>1, <1>2
<1>4. ASSUME NEW i \in 1 .. Len(new), i > 1
      PROVE  EntryGood(new[i], files, size) /\ Unmapped(new[i])
  <2>1. new[i] = tab[i - 1] /\ i - 1 \in 1 .. Len(tab)
    BY <1>1, <1>2, <1>4
  <2> QED
    BY <2>1 DEF AllUnmapped, EntryGood, MapGood, Unmapped
<1>5. \A i \in 1 .. Len(new) : i > 1 \/ i = 1
  BY <1>1, <1>2
<1>6. Len(new) <= MaxEntries
  BY <1>1, <1>2, ConfigAssumption
<1> QED
  BY <1>2, <1>3, <1>4, <1>5, <1>6 DEF TableGood, new

\* What mq_qm_del_queue leaves has no mappings; it is nothing if there was one
\* entry and its directory was there.
LEMMA RemainingGood ==
  ASSUME ConfigInv, table # << >>
  PROVE  /\ AllUnmapped(Remaining)
         /\ Path \in dirs /\ Len(table) = 1 => Len(Remaining) = 0
<1>1. /\ table \in Seq(EntryType) /\ Len(table) \in Nat /\ Len(table) # 0
      /\ DOMAIN table = 1 .. Len(table) /\ Len(table) <= MaxEntries
      /\ 1 \in 1 .. Len(table)
  BY DEF ConfigInv, StoreInv, TableGood
<1>2. \A i \in 1 .. Len(table) : table[i].r <= table[i].w /\ (i > 1 => Unmapped(table[i]))
  BY DEF ConfigInv, StoreInv, TableGood, EntryGood
<1>3. CASE Path \in dirs
  <2>1. /\ Tail(table) \in Seq(EntryType)
        /\ Len(Tail(table)) = Len(table) - 1
        /\ \A i \in 1 .. Len(Tail(table)) : Tail(table)[i] = table[i + 1]
    BY <1>1, HeadTailProperties
  <2>2. Remaining = Tail(table)
    BY <1>3 DEF Remaining
  <2>3. \A i \in 1 .. Len(table) - 1 : i + 1 \in 1 .. Len(table) /\ i + 1 > 1
    BY <1>1
  <2>4. Len(Remaining) <= MaxEntries
    BY <1>1, <2>1, <2>2, ConfigAssumption
  <2>5. \A i \in 1 .. Len(Remaining) : Remaining[i].r <= Remaining[i].w /\ Unmapped(Remaining[i])
    BY <1>2, <2>1, <2>2, <2>3
  <2> QED
    BY <1>1, <2>1, <2>2, <2>4, <2>5 DEF AllUnmapped
<1>4. CASE Path \notin dirs
  <2> DEFINE q == ClosedEntry(table[1])
  <2>1. table[1] \in EntryType
    BY <1>1
  <2>2. q \in EntryType /\ q.r = table[1].r /\ q.w = table[1].w /\ Unmapped(q)
    <3>1. /\ NoMap \in MapType /\ Dangling \in MapType
          /\ NoMap.len = 0 /\ Dangling.len = 0
      BY ConfigAssumption DEF MapType, NoMap, Dangling
    <3>2. PICK m \in {NoMap, Dangling} : q = Entry(table[1].r, table[1].w, m, Dangling)
      BY DEF ClosedEntry
    <3>3. q = [r |-> table[1].r, w |-> table[1].w, rmap |-> m, wmap |-> Dangling]
      BY <3>2 DEF Entry
    <3>4. table[1].r \in 1 .. MaxFile /\ table[1].w \in 1 .. MaxFile
      BY <2>1 DEF EntryType
    <3> HIDE DEF q
    <3> QED
      BY <3>1, <3>3, <3>4 DEF EntryType, Unmapped
  <2>3. Remaining = [table EXCEPT ![1] = q]
    BY <1>4 DEF Remaining
  <2> HIDE DEF q
  <2>4. Remaining \in Seq(EntryType) /\ Len(Remaining) = Len(table)
    BY <1>1, <2>2, <2>3
  <2>5. Remaining[1] = q /\ \A i \in 1 .. Len(table) : i > 1 => Remaining[i] = table[i]
    BY <1>1, <2>3
  <2>6. \A i \in 1 .. Len(table) : i > 1 \/ i = 1
    BY <1>1
  <2>7. \A i \in 1 .. Len(Remaining) : Remaining[i].r <= Remaining[i].w /\ Unmapped(Remaining[i])
    BY <1>1, <1>2, <2>2, <2>4, <2>5, <2>6
  <2> QED
    BY <1>1, <1>4, <2>4, <2>7 DEF AllUnmapped
<1> QED
  BY <1>3, <1>4

-----------------------------------------------------------------------------
\* Db files

\* Files are deleted, and nothing else.
Shrunk(files, files2) ==
  /\ DOMAIN files2 \subseteq DOMAIN files
  /\ \A f \in DOMAIN files2 : files2[f] = files[f]

\* Fewer files: what was good is.
LEMMA ShrunkGood ==
  ASSUME NEW files, NEW files2, Shrunk(files, files2)
  PROVE  /\ \A ds : FilesGood(files, ds) => FilesGood(files2, ds)
         /\ \A q, size : EntryGood(q, files, size) => EntryGood(q, files2, size)
BY DEF Shrunk, FilesGood, EntryGood, MapGood

\* The directory of the data path emptied.
LEMMA EmptiedGood ==
  ASSUME ConfigInv
  PROVE  /\ Shrunk(db, Emptied)
         /\ \A f \in DOMAIN Emptied : f[1] # Path
         /\ FilesGood(Emptied, dirs)
         /\ FilesGood(Emptied, dirs \ {Path})
<1>1. /\ DOMAIN Emptied = {g \in DOMAIN db : g[1] # Path}
      /\ \A f \in DOMAIN Emptied : Emptied[f] = db[f]
  BY DEF Emptied
<1>2. Shrunk(db, Emptied) /\ \A f \in DOMAIN Emptied : f[1] # Path
  BY <1>1 DEF Shrunk
<1>3. FilesGood(Emptied, dirs)
  BY <1>2, ShrunkGood DEF ConfigInv, StoreInv
<1> QED
  BY <1>2, <1>3 DEF FilesGood

\* One file added, or given another size.
LEMMA ExtendedGood ==
  ASSUME NEW files, NEW ds, FilesGood(files, ds), NEW f \in DbFiles, f[1] \in ds,
         NEW size \in 0 .. SizeLimit
  PROVE  /\ FilesGood(Extended(files, f, size), ds)
         /\ f \in DOMAIN Extended(files, f, size)
         /\ Extended(files, f, size)[f] = size
         /\ \A g \in DOMAIN files : g # f =>
              g \in DOMAIN Extended(files, f, size) /\ Extended(files, f, size)[g] = files[g]
         /\ \A g \in DOMAIN Extended(files, f, size) : g # f => g \in DOMAIN files
BY DEF FilesGood, Extended

\* A mapping of a file that was just created or opened.
LEMMA MappingGood ==
  ASSUME ConfigInv, NEW p \in DataPaths, NEW n \in 1 .. MaxFile, NEW size \in Sizes,
         NEW files, <<p, n>> \in DOMAIN files => files[<<p, n>>] = size
  PROVE  /\ Mapping(<<p, n>>, size) \in MapType
         /\ Mapping(<<p, n>>, size).len = size
         /\ MapGood(Mapping(<<p, n>>, size), n, files, size)
<1> DEFINE m == Mapping(<<p, n>>, size)
<1>1. <<p, n>> \in DbFiles /\ <<p, n>>[2] = n
  BY DEF DbFiles
<1>2. size \in 0 .. SizeLimit /\ size > 0 /\ size \in Int
  BY ConfigAssumption DEF Sizes
<1>3. m.file = <<p, n>> /\ m.len = size /\ m = [file |-> <<p, n>>, len |-> size, old |-> FALSE]
  BY DEF Mapping
<1> HIDE DEF m
<1>4. m \in MapType
  BY <1>1, <1>2, <1>3 DEF MapType
<1>5. MapGood(m, n, files, size)
  <2>1. m.len >= size
    BY <1>2, <1>3
  <2>2. m.file \in DOMAIN files => m.len <= files[m.file]
    BY <1>2, <1>3
  <2> QED
    BY <1>1, <1>3, <2>1, <2>2 DEF MapGood
<1> QED
  BY <1>3, <1>4, <1>5 DEF m

\* An entry has its types if its parts have.
LEMMA EntryTyped ==
  ASSUME NEW r \in 1 .. MaxFile, NEW w \in 1 .. MaxFile, NEW m1 \in MapType, NEW m2 \in MapType
  PROVE  /\ Entry(r, w, m1, m2) \in EntryType
         /\ Entry(r, w, m1, m2).r = r /\ Entry(r, w, m1, m2).w = w
         /\ Entry(r, w, m1, m2).rmap = m1 /\ Entry(r, w, m1, m2).wmap = m2
BY DEF Entry, EntryType

-----------------------------------------------------------------------------
\* The invariant at the start, and the actions one by one

\* Before the first start there is nothing.
LEMMA InitInv ==
  ASSUME Init
  PROVE  ConfigInv
<1>1. PICK f \in Files \cup Edits :
        /\ file = [p \in Paths |-> IF p = "p1" THEN f ELSE NoFile]
        /\ edits = IF f \in Edits THEN 0 ELSE MaxEdits
  BY DEF Init
<1>2. edits \in 0 .. MaxEdits
  BY <1>1, ConfigAssumption
<1>3. ParamInv
  BY <1>1, <1>2, ConfigAssumption DEF Init, ParamInv, Sizes, DataPaths
<1>4. FilesGood(db, dirs)
  BY DEF Init, FilesGood
<1>5. TableGood(table, db, conf.db_size)
  BY EmptyGood DEF Init
<1> QED
  BY <1>3, <1>4, <1>5 DEF Init, ConfigInv, StoreInv, EntryOnDisk

\* A configuration file keeps its place; what most actions leave of ParamInv.
LEMMA ParamsKept ==
  ASSUME ConfigInv, UNCHANGED <<file, conf, edits>>
  PROVE  ParamInv'
BY DEF ConfigInv, ParamInv

\* The process ends, and db files are left as they may be.
LEMMA GoneStep ==
  ASSUME ConfigInv, Gone, UNCHANGED <<file, conf, edits>>, FilesGood(db, dirs)'
  PROVE  ConfigInv'
<1>1. TableGood(table, db, conf.db_size)'
  BY EmptyGood DEF Gone
<1> QED
  BY <1>1, ParamsKept DEF Gone, ConfigInv, StoreInv, EntryOnDisk

\* A start reads the first file and opens db files of the size it says.
LEMMA StartStep ==
  ASSUME ConfigInv, Start
  PROVE  ConfigInv'
<1> DEFINE t == LoadOf(<<"p1">>)
           d == [DefConf EXCEPT !.conf_file = <<"p1">>]
<1>1. /\ t # NullTable /\ ~Aborts(t)
      /\ status' = "up"
      /\ conf' = Read(t, d)
      /\ table' = << >> \/ \E q \in Opened(conf') : table' = <<q>>
      /\ UNCHANGED <<file, dirs, db, edits, moved>>
  BY DEF Start
<1>2. d.sync_time \in Nat /\ d.db_size \in Sizes /\ d.data_path \in DataPaths
  BY ConfigAssumption DEF Sizes, DataPaths
<1>3. ConfGood(conf')
  <2> HIDE DEF d
  <2> QED
    BY <1>1, <1>2, ReadGood DEF ConfigInv
<1>4. ParamInv'
  BY <1>1, <1>3 DEF ConfGood, ConfigInv, ParamInv
<1>5. FilesGood(db, dirs)' /\ status' \in {"up", "down"} /\ moved' \in BOOLEAN
  BY <1>1 DEF ConfigInv, StoreInv
<1>6. CASE table' = << >>
  <2>1. TableGood(table, db, conf.db_size)'
    BY <1>6, EmptyGood
  <2> QED
    BY <1>1, <1>4, <1>5, <1>6, <2>1 DEF ConfigInv, StoreInv, EntryOnDisk
<1>7. CASE \E q \in Opened(conf') : table' = <<q>>
  <2> DEFINE p == conf'.data_path
             size == conf'.db_size
             ids == {f[2] : f \in {g \in DOMAIN db : g[1] = p}}
  <2>1. PICK r \in ids, w \in ids :
          /\ \A i \in ids : r <= i /\ i <= w
          /\ db[<<p, r>>] = size /\ db[<<p, w>>] = size
          /\ table' = <<Entry(r, w, Mapping(<<p, r>>, size), Mapping(<<p, w>>, size))>>
    BY <1>7 DEF Opened
  <2>2. p \in DataPaths /\ size \in Sizes
    BY <1>3 DEF ConfGood
  <2>3. ASSUME NEW i \in ids
        PROVE  <<p, i>> \in DOMAIN db /\ i \in 1 .. MaxFile
    <3>1. PICK f \in DOMAIN db : f[1] = p /\ f[2] = i
      BY <2>3
    <3>2. f \in DbFiles
      BY <3>1 DEF ConfigInv, StoreInv, FilesGood
    <3> QED
      BY <3>1, <3>2 DEF DbFiles
  <2>4. /\ <<p, w>> \in DOMAIN db /\ w \in 1 .. MaxFile
        /\ r \in 1 .. MaxFile /\ r <= w
    BY <2>1, <2>3
  <2>5. p \in dirs
    <3>1. <<p, w>>[1] \in dirs
      BY <2>4 DEF ConfigInv, StoreInv, FilesGood
    <3> QED
      BY <3>1
  <2> DEFINE m1 == Mapping(<<p, r>>, size)
             m2 == Mapping(<<p, w>>, size)
             q == Entry(r, w, m1, m2)
  <2>6. /\ m1 \in MapType /\ MapGood(m1, r, db, size)
        /\ m2 \in MapType /\ MapGood(m2, w, db, size)
    <3> HIDE DEF p, size, ids
    <3> QED
      BY <2>1, <2>2, <2>4, MappingGood
  <2>7. table' = <<q>>
    BY <2>1
  <2> HIDE DEF p, size, ids, m1, m2
  <2>8. q \in EntryType /\ q.r = r /\ q.w = w /\ q.rmap = m1 /\ q.wmap = m2
    BY <2>4, <2>6, EntryTyped
  <2> HIDE DEF q
  <2>9. EntryGood(q, db, size)
    BY <2>4, <2>6, <2>8 DEF EntryGood
  <2>10. Len(<< >>) < MaxEntries
    BY ConfigAssumption
  <2>11. TableGood(<<q>> \o << >>, db, size)
    BY <2>8, <2>9, <2>10, EmptyGood, EntryAdded
  <2>12. <<q>> \o << >> = <<q>>
    OBVIOUS
  <2>13. Len(<<q>>) = 1 /\ <<q>>[1].w = w
    BY <2>8
  <2>14. TableGood(table, db, conf.db_size)'
    BY <1>1, <2>7, <2>11, <2>12 DEF size
  <2>15. EntryOnDisk'
    BY <1>1, <2>4, <2>5, <2>7, <2>13 DEF EntryOnDisk, Path, p
  <2> QED
    BY <1>1, <1>4, <1>5, <2>14, <2>15 DEF ConfigInv, StoreInv
<1> QED
  BY <1>1, <1>6, <1>7


\* Mappings that were there before a size was raised are old; the others are
\* as long as the new size, which is the old one or less.
LEMMA AgedGood ==
  ASSUME ConfigInv, NEW size \in Sizes
  PROVE  /\ TableGood(Aged(size), db, size)
         /\ Len(Aged(size)) = Len(table)
         /\ \A i \in 1 .. Len(table) : Aged(size)[i].w = table[i].w
<1> DEFINE Older(m) == [m EXCEPT !.old = @ \/ (m.len > 0 /\ size > conf.db_size)]
           aged(i) == Entry(table[i].r, table[i].w, Older(table[i].rmap), Older(table[i].wmap))
           new == Aged(size)
<1>1. /\ table \in Seq(EntryType) /\ Len(table) \in Nat /\ DOMAIN table = 1 .. Len(table)
      /\ Len(table) <= MaxEntries
      /\ conf.db_size \in Sizes
  BY DEF ConfigInv, StoreInv, ParamInv, TableGood
<1>2. ASSUME NEW m \in MapType, NEW n, MapGood(m, n, db, conf.db_size)
      PROVE  /\ Older(m) \in MapType /\ Older(m).len = m.len
             /\ MapGood(Older(m), n, db, size)
  <2>1. m.len \in 0 .. SizeLimit /\ m.old \in BOOLEAN
        /\ m.file \in DbFiles \cup {<<"null">>, <<"dangling">>}
    BY DEF MapType
  <2>2. /\ Older(m).file = m.file /\ Older(m).len = m.len
        /\ Older(m).old = (m.old \/ (m.len > 0 /\ size > conf.db_size))
        /\ Older(m) \in MapType
    BY <2>1 DEF MapType
  <2>3. m.len > 0 /\ (m.len >= conf.db_size \/ m.old) => Older(m).len >= size \/ Older(m).old
    <3>1. CASE m.old \/ (m.len > 0 /\ size > conf.db_size)
      BY <2>2, <3>1, Zenon
    <3>2. CASE ~m.old /\ ~(m.len > 0 /\ size > conf.db_size)
      <4>1. m.len > 0 /\ m.len >= conf.db_size => m.len >= size
        BY <1>1, <2>1, <3>2, ConfigAssumption DEF Sizes
      <4> HIDE DEF Older
      <4> QED
        BY <2>2, <3>2, <4>1
    <3> QED
      BY <3>1, <3>2
  <2> HIDE DEF Older
  <2> QED
    BY <1>2, <2>2, <2>3 DEF MapGood
<1>3. new = [i \in 1 .. Len(table) |-> aged(i)]
  BY <1>1 DEF Aged
<1> HIDE DEF new, Older
<1>4. ASSUME NEW i \in 1 .. Len(table)
      PROVE  /\ aged(i) \in EntryType /\ aged(i).w = table[i].w
             /\ EntryGood(aged(i), db, size)
             /\ i > 1 => Unmapped(aged(i))
  <2> DEFINE q == table[i]
             m1 == Older(q.rmap)
             m2 == Older(q.wmap)
  <2>1. q \in EntryType /\ EntryGood(q, db, conf.db_size) /\ (i > 1 => Unmapped(q))
    BY <1>1 DEF ConfigInv, StoreInv, TableGood
  <2> HIDE DEF q
  <2>2. /\ q.r \in 1 .. MaxFile /\ q.w \in 1 .. MaxFile
        /\ q.rmap \in MapType /\ q.wmap \in MapType
    BY <2>1 DEF EntryType
  <2>3. /\ m1 \in MapType /\ m1.len = q.rmap.len /\ MapGood(m1, q.r, db, size)
        /\ m2 \in MapType /\ m2.len = q.wmap.len /\ MapGood(m2, q.w, db, size)
    BY <1>2, <2>1, <2>2 DEF EntryGood
  <2> HIDE DEF m1, m2
  <2>4. LET e == Entry(q.r, q.w, m1, m2)
        IN  e \in EntryType /\ e.r = q.r /\ e.w = q.w /\ e.rmap = m1 /\ e.wmap = m2
    BY <2>2, <2>3, EntryTyped
  <2>5. aged(i) = Entry(q.r, q.w, m1, m2)
    BY DEF q, m1, m2
  <2> HIDE DEF aged
  <2>6. EntryGood(aged(i), db, size) /\ (i > 1 => Unmapped(aged(i)))
    BY <2>1, <2>3, <2>4, <2>5 DEF EntryGood, Unmapped
  <2> QED
    BY <2>4, <2>5, <2>6 DEF q
<1> HIDE DEF aged
<1>5. new \in Seq(EntryType) /\ Len(new) = Len(table)
  BY <1>1, <1>3, <1>4, IsASeq
<1>6. \A i \in 1 .. Len(table) : new[i] = aged(i)
  BY <1>3
<1>7. TableGood(new, db, size)
  BY <1>1, <1>4, <1>5, <1>6 DEF TableGood
<1> QED
  BY <1>4, <1>5, <1>6, <1>7 DEF new

\* A reload ends the process or takes parameters from a file that is there.
LEMMA ReloadStep ==
  ASSUME ConfigInv, NEW ip, Reload(ip)
  PROVE  ConfigInv'
<1> DEFINE t == LoadOf(conf.conf_file)
<1>1. UNCHANGED <<file, dirs, db, edits>> /\ status = "up"
  BY DEF Reload
<1>2. FilesGood(db, dirs)'
  BY <1>1 DEF ConfigInv, StoreInv
<1>3. CASE Aborts(t)
  <2>1. Gone /\ UNCHANGED conf
    BY <1>3 DEF Reload
  <2> QED
    BY <1>1, <1>2, <2>1, GoneStep
<1>4. CASE ~Aborts(t)
  <2>1. /\ conf' = IF t = NullTable THEN conf ELSE Read(t, conf)
        /\ table' = Aged(conf'.db_size)
        /\ moved' = (moved \/ conf'.data_path # Path)
        /\ UNCHANGED status
    BY <1>4 DEF Reload
  <2>2. ConfGood(conf)
    BY DEF ConfGood, ConfigInv, ParamInv
  <2>3. ConfGood(conf')
    <3>1. CASE t = NullTable
      BY <2>1, <2>2, <3>1
    <3>2. CASE t # NullTable
      <4>1. conf.sync_time \in Nat /\ conf.db_size \in Sizes /\ conf.data_path \in DataPaths
        BY <2>2 DEF ConfGood
      <4>2. conf' = Read(t, conf)
        BY <2>1, <3>2
      <4>3. ParamInv
        BY DEF ConfigInv
      <4> QED
        BY <1>4, <3>2, <4>1, <4>2, <4>3, ReadGood
    <3> QED
      BY <3>1, <3>2
  <2> HIDE DEF t
  <2>4. ParamInv'
    BY <1>1, <2>3 DEF ConfGood, ConfigInv, ParamInv
  <2>5. /\ TableGood(table, db, conf.db_size)'
        /\ Len(table') = Len(table)
        /\ \A i \in 1 .. Len(table) : table'[i].w = table[i].w
    <3>1. conf'.db_size \in Sizes
      BY <2>3 DEF ConfGood
    <3> QED
      BY <1>1, <2>1, <3>1, AgedGood
  <2>6. StoreInv'
    BY <1>1, <1>2, <2>1, <2>5 DEF ConfigInv, StoreInv
  <2>7. EntryOnDisk'
    <3> SUFFICES ASSUME ~moved', table' # << >>
                 PROVE  /\ Len(table') = 1
                        /\ conf'.data_path \in dirs
                        /\ <<conf'.data_path, table'[1].w>> \in DOMAIN db
      BY <1>1 DEF EntryOnDisk, Path
    <3>1. ~moved /\ conf'.data_path = Path
      BY <2>1 DEF ConfigInv, StoreInv
    <3>2. table \in Seq(EntryType) /\ table' \in Seq(EntryType)
      BY <2>5 DEF ConfigInv, StoreInv, TableGood
    <3>3. table # << >>
      BY <2>5, <3>2
    <3>4. Len(table) = 1 /\ Path \in dirs /\ <<Path, table[1].w>> \in DOMAIN db
      BY <3>1, <3>3 DEF ConfigInv, EntryOnDisk
    <3> QED
      BY <2>5, <3>1, <3>4
  <2> QED
    BY <2>4, <2>6, <2>7 DEF ConfigInv
<1> QED
  BY <1>3, <1>4

\* synctime changes nothing the files depend on.
LEMMA SetSyncTimeStep ==
  ASSUME ConfigInv, NEW n \in SyncTimes, SetSyncTime(n)
  PROVE  ConfigInv'
<1>1. /\ DOMAIN conf' = DOMAIN conf
      /\ conf'.sync_time = n
      /\ conf'.db_size = conf.db_size
      /\ conf'.data_path = conf.data_path
      /\ n \in Nat
  BY ConfigAssumption DEF SetSyncTime, ConfigInv, ParamInv
<1>2. UNCHANGED <<status, file, dirs, db, table, edits, moved>>
  BY DEF SetSyncTime
<1>3. ParamInv'
  BY <1>1, <1>2 DEF ConfigInv, ParamInv
<1>4. StoreInv' /\ EntryOnDisk'
  BY <1>1, <1>2 DEF ConfigInv, StoreInv, EntryOnDisk, Path
<1> QED
  BY <1>3, <1>4 DEF ConfigInv

\* A configuration file is changed.
LEMMA EditStep ==
  ASSUME ConfigInv, NEW p \in Paths, NEW f \in Edits, Edit(p, f)
  PROVE  ConfigInv'
<1>1. /\ file' = [file EXCEPT ![p] = f]
      /\ edits < MaxEdits /\ edits' = edits + 1
      /\ UNCHANGED <<status, conf, dirs, db, table, moved>>
  BY DEF Edit
<1>2. edits' \in 0 .. MaxEdits
  BY <1>1, ConfigAssumption DEF ConfigInv, ParamInv
<1>3. ParamInv'
  BY <1>1, <1>2 DEF ConfigInv, ParamInv
<1>4. StoreInv' /\ EntryOnDisk'
  BY <1>1 DEF ConfigInv, StoreInv, EntryOnDisk, Path
<1> QED
  BY <1>3, <1>4 DEF ConfigInv

\* What a step of the store leaves as it is.
LEMMA StoreStep ==
  ASSUME ConfigInv, status = "up", UNCHANGED <<status, file, conf, edits, moved>>,
         FilesGood(db, dirs)', TableGood(table', db', conf.db_size),
         ~moved /\ table' # << >> => /\ Len(table') = 1
                                     /\ Path \in dirs'
                                     /\ <<Path, table'[1].w>> \in DOMAIN db'
  PROVE  ConfigInv'
<1>1. StoreInv'
  BY DEF ConfigInv, StoreInv
<1>2. EntryOnDisk'
  BY DEF EntryOnDisk, Path
<1> QED
  BY <1>1, <1>2, ParamsKept DEF ConfigInv

\* mq_sm_creat_db before a table without mappings.
LEMMA MadeStep ==
  ASSUME ConfigInv, status = "up", UNCHANGED <<status, file, conf, edits, moved>>, Made,
         NEW rest, AllUnmapped(rest), Len(rest) < MaxEntries,
         rest = IF table = << >> THEN << >> ELSE Remaining,
         ~moved => Len(rest) = 0
  PROVE  ConfigInv'
<1> DEFINE size == conf.db_size
           map == Mapping(First, size)
           q == Entry(1, 1, map, map)
<1>1. /\ db' = Extended(Emptied, First, size)
      /\ dirs' = dirs \cup {Path}
      /\ table' = <<q>> \o rest
  BY DEF Made
<1>2. Path \in DataPaths /\ size \in Sizes /\ size \in 0 .. SizeLimit /\ 1 \in 1 .. MaxFile
  BY ConfigAssumption DEF ConfigInv, ParamInv, Path, Sizes
<1>3. First \in DbFiles /\ First = <<Path, 1>> /\ First[1] = Path
  BY <1>2 DEF First, DbFiles
<1>4. FilesGood(Emptied, dirs \cup {Path})
  BY EmptiedGood DEF FilesGood
<1>5. FilesGood(db', dirs') /\ First \in DOMAIN db' /\ db'[First] = size
  BY <1>1, <1>2, <1>3, <1>4, ExtendedGood
<1>6. map \in MapType /\ MapGood(map, 1, db', size)
  <2> HIDE DEF size
  <2> QED
    BY <1>2, <1>3, <1>5, MappingGood
<1> HIDE DEF map
<1>7. q \in EntryType /\ q.r = 1 /\ q.w = 1 /\ q.rmap = map /\ q.wmap = map
  BY <1>2, <1>6, EntryTyped
<1> HIDE DEF q
<1>8. EntryGood(q, db', size)
  BY <1>6, <1>7 DEF EntryGood
<1>9. TableGood(table', db', size) /\ Len(table') = Len(rest) + 1 /\ table'[1] = q
  BY <1>1, <1>7, <1>8, EntryAdded
<1>10. Path \in dirs' /\ <<Path, table'[1].w>> \in DOMAIN db'
  BY <1>1, <1>3, <1>5, <1>7, <1>9
<1>11. ~moved => Len(table') = 1
  BY <1>9
<1> QED
  BY <1>5, <1>9, <1>10, <1>11, StoreStep

\* A queue that was not in the table.
LEMMA CreateStep ==
  ASSUME ConfigInv, Create
  PROVE  ConfigInv'
<1>1. AllUnmapped(<< >>) /\ Len(<< >>) = 0 /\ Len(<< >>) < MaxEntries
  BY EmptyGood, ConfigAssumption
<1>2. << >> = IF table = << >> THEN << >> ELSE Remaining
  BY DEF Create
<1> QED
  BY <1>1, <1>2, MadeStep DEF Create

\* A removal, or a reset of which only the removal was done.
LEMMA DeleteStep ==
  ASSUME ConfigInv, Delete
  PROVE  ConfigInv'
<1>1. /\ table' = Remaining /\ db' = Emptied /\ dirs' = dirs \ {Path}
      /\ AllUnmapped(Remaining)
      /\ Path \in dirs /\ Len(table) = 1 => Len(Remaining) = 0
  BY RemainingGood DEF Delete
<1>2. FilesGood(db, dirs)'
  BY <1>1, EmptiedGood
<1>3. TableGood(table', db', conf.db_size)
  BY <1>1, UnmappedGood
<1>4. ~moved => table' = << >>
  <2>1. ~moved => Path \in dirs /\ Len(table) = 1
    BY DEF ConfigInv, EntryOnDisk, Delete
  <2>2. Remaining \in Seq(EntryType)
    BY <1>1 DEF AllUnmapped
  <2> QED
    BY <1>1, <2>1, <2>2
<1> QED
  BY <1>2, <1>3, <1>4, StoreStep DEF Delete

\* A reset puts a new entry before what the removal left.
LEMMA ResetStep ==
  ASSUME ConfigInv, Reset
  PROVE  ConfigInv'
<1>1. /\ AllUnmapped(Remaining)
      /\ Path \in dirs /\ Len(table) = 1 => Len(Remaining) = 0
  BY RemainingGood DEF Reset
<1>2. ~moved => Len(Remaining) = 0
  BY <1>1 DEF ConfigInv, EntryOnDisk, Reset
<1>3. Remaining = IF table = << >> THEN << >> ELSE Remaining
  BY DEF Reset
<1> QED
  BY <1>1, <1>2, <1>3, MadeStep DEF Reset


\* Crashes in the creation or the removal of a queue, or of a db file.
LEMMA CrashStep ==
  ASSUME ConfigInv,
         \/ CrashInCreate
         \/ \E left \in SUBSET DOMAIN db : CrashInDelete(left)
         \/ CrashInRotate
  PROVE  ConfigInv'
<1>1. Path \in DataPaths /\ 0 \in 0 .. SizeLimit
  BY ConfigAssumption DEF ConfigInv, ParamInv, Path
<1>2. CASE CrashInCreate
  <2>1. FilesGood(Emptied, dirs \cup {Path})
    BY EmptiedGood DEF FilesGood
  <2>2. First \in DbFiles /\ First[1] \in dirs \cup {Path}
    BY <1>1, ConfigAssumption DEF First, DbFiles
  <2>3. FilesGood(Extended(Emptied, First, 0), dirs \cup {Path})
    BY <1>1, <2>1, <2>2, ExtendedGood
  <2>4. /\ dirs' = dirs \cup {Path} /\ Gone /\ UNCHANGED <<file, conf, edits>>
        /\ db' = Emptied \/ db' = Extended(Emptied, First, 0)
    BY <1>2 DEF CrashInCreate
  <2>5. FilesGood(db', dirs')
    BY <2>1, <2>3, <2>4
  <2> QED
    BY <2>4, <2>5, GoneStep
<1>3. CASE \E left \in SUBSET DOMAIN db : CrashInDelete(left)
  <2>1. PICK left \in SUBSET DOMAIN db : CrashInDelete(left)
    BY <1>3
  <2>2. /\ db' = [f \in DOMAIN Emptied \cup (left \cap DOMAIN db) |-> db[f]]
        /\ Gone /\ UNCHANGED <<file, conf, dirs, edits>>
    BY <2>1 DEF CrashInDelete
  <2>3. DOMAIN Emptied \subseteq DOMAIN db
    BY EmptiedGood DEF Shrunk
  <2>4. Shrunk(db, db')
    BY <2>2, <2>3 DEF Shrunk
  <2>5. FilesGood(db', dirs')
    BY <2>2, <2>4, ShrunkGood DEF ConfigInv, StoreInv
  <2> QED
    BY <2>2, <2>5, GoneStep
<1>4. CASE CrashInRotate
  <2>1. table[1] \in EntryType
    BY <1>4 DEF CrashInRotate, MayRotate, ConfigInv, StoreInv, TableGood
  <2>2. table[1].w + 1 \in 1 .. MaxFile
    BY <1>4, <2>1, ConfigAssumption DEF CrashInRotate, MayRotate, EntryType
  <2>3. NextFile \in DbFiles /\ NextFile[1] = Path
    BY <1>1, <2>2 DEF NextFile, DbFiles
  <2>4. /\ db' = Extended(db, NextFile, 0) /\ Path \in dirs
        /\ Gone /\ UNCHANGED <<file, conf, dirs, edits>>
    BY <1>4 DEF CrashInRotate
  <2>5. FilesGood(Extended(db, NextFile, 0), dirs)
    BY <1>1, <2>3, <2>4, ExtendedGood DEF ConfigInv, StoreInv
  <2>6. FilesGood(db', dirs')
    BY <2>4, <2>5
  <2> QED
    BY <2>4, <2>6, GoneStep
<1> QED
  BY <1>2, <1>3, <1>4

\* What is known of the entry that is found.
LEMMA HeadFacts ==
  ASSUME ConfigInv, table # << >>
  PROVE  LET q == table[1]
         IN  /\ q \in EntryType
             /\ q.r \in 1 .. MaxFile /\ q.w \in 1 .. MaxFile
             /\ q.rmap \in MapType /\ q.wmap \in MapType
             /\ EntryGood(q, db, conf.db_size)
<1>1. table \in Seq(EntryType) /\ 1 \in 1 .. Len(table)
  BY DEF ConfigInv, StoreInv, TableGood
<1>2. table[1] \in EntryType /\ EntryGood(table[1], db, conf.db_size)
  BY <1>1 DEF ConfigInv, StoreInv, TableGood
<1> QED
  BY <1>2 DEF EntryType

\* The next write file has a higher number than any that is mapped.
LEMMA RotateStep ==
  ASSUME ConfigInv, Rotate
  PROVE  ConfigInv'
<1> DEFINE q == table[1]
           size == conf.db_size
           map == Mapping(NextFile, size)
           new == Entry(q.r, q.w + 1, q.rmap, map)
<1>1. /\ table # << >> /\ Path \in dirs /\ q.w < MaxFile /\ status = "up"
      /\ db' = Extended(db, NextFile, size)
      /\ table' = [table EXCEPT ![1] = new]
      /\ UNCHANGED <<status, file, conf, dirs, edits, moved>>
  BY DEF Rotate, MayRotate
<1>2. /\ q.r \in 1 .. MaxFile /\ q.w \in 1 .. MaxFile
      /\ q.rmap \in MapType /\ EntryGood(q, db, size)
  BY <1>1, HeadFacts
<1> HIDE DEF q
<1>3. q.w + 1 \in 1 .. MaxFile /\ q.r <= q.w + 1 /\ q.r < q.w + 1
  BY <1>1, <1>2, ConfigAssumption DEF EntryGood
<1>4. Path \in DataPaths /\ size \in Sizes /\ size \in 0 .. SizeLimit
  BY ConfigAssumption DEF ConfigInv, ParamInv, Path, Sizes
<1>5. NextFile = <<Path, q.w + 1>> /\ NextFile \in DbFiles /\ NextFile[1] = Path
      /\ NextFile[2] = q.w + 1
  BY <1>3, <1>4 DEF NextFile, DbFiles, q
<1>6. /\ FilesGood(db', dirs) /\ NextFile \in DOMAIN db' /\ db'[NextFile] = size
      /\ \A g \in DOMAIN db' : g # NextFile => g \in DOMAIN db /\ db'[g] = db[g]
  <2>1. FilesGood(db, dirs)
    BY DEF ConfigInv, StoreInv
  <2> QED
    BY <1>1, <1>4, <1>5, <2>1, ExtendedGood
<1>7. map \in MapType /\ MapGood(map, q.w + 1, db', size)
  <2> HIDE DEF size
  <2> QED
    BY <1>3, <1>4, <1>5, <1>6, MappingGood
<1> HIDE DEF map
<1>8. /\ new \in EntryType /\ new.r = q.r /\ new.w = q.w + 1
      /\ new.rmap = q.rmap /\ new.wmap = map
  BY <1>2, <1>3, <1>7, EntryTyped
<1> HIDE DEF new, size
<1>9. MapGood(q.rmap, q.r, db', size)
  <2>1. q.rmap.len > 0 => q.rmap.file # NextFile
    BY <1>2, <1>3, <1>5 DEF EntryGood, MapGood
  <2> QED
    BY <1>2, <1>6, <2>1 DEF EntryGood, MapGood
<1>10. EntryGood(new, db', size)
  BY <1>3, <1>7, <1>8, <1>9 DEF EntryGood
<1>11. /\ TableGood(table', db', size) /\ Len(table') = Len(table) /\ table'[1] = new
  <2>1. TableGood(table, db, size)
    BY DEF ConfigInv, StoreInv, size
  <2> QED
    BY <1>1, <1>8, <1>10, <2>1, HeadReplaced
<1>12. <<Path, table'[1].w>> \in DOMAIN db'
  BY <1>5, <1>6, <1>8, <1>11
<1>13. ~moved => Len(table') = 1 /\ Path \in dirs'
  BY <1>1, <1>11 DEF ConfigInv, EntryOnDisk
<1>14. TableGood(table', db', conf.db_size) /\ FilesGood(db', dirs')
  BY <1>1, <1>6, <1>11 DEF size
<1> QED
  BY <1>1, <1>12, <1>13, <1>14, StoreStep

\* A rotation that fails leaves the number of the write file.
LEMMA RotateFailsStep ==
  ASSUME ConfigInv, RotateFails
  PROVE  ConfigInv'
<1> DEFINE q == table[1]
           new == Entry(q.r, q.w, q.rmap, Dangling)
<1>1. /\ table # << >> /\ status = "up"
      /\ table' = [table EXCEPT ![1] = new]
      /\ UNCHANGED <<status, file, conf, dirs, db, edits, moved>>
  BY DEF RotateFails, MayRotate
<1>2. /\ q.r \in 1 .. MaxFile /\ q.w \in 1 .. MaxFile
      /\ q.rmap \in MapType /\ EntryGood(q, db, conf.db_size)
  BY <1>1, HeadFacts
<1>3. Dangling \in MapType /\ Dangling.len = 0
  BY ConfigAssumption DEF MapType, Dangling
<1> HIDE DEF q
<1>4. /\ new \in EntryType /\ new.r = q.r /\ new.w = q.w
      /\ new.rmap = q.rmap /\ new.wmap = Dangling
  BY <1>2, <1>3, EntryTyped
<1> HIDE DEF new
<1>5. EntryGood(new, db, conf.db_size)
  BY <1>2, <1>3, <1>4 DEF EntryGood, MapGood
<1>6. TableGood(table', db, conf.db_size) /\ Len(table') = Len(table) /\ table'[1] = new
  <2>1. TableGood(table, db, conf.db_size)
    BY DEF ConfigInv, StoreInv
  <2> QED
    BY <1>1, <1>4, <1>5, <2>1, HeadReplaced
<1>7. ~moved => Len(table) = 1 /\ Path \in dirs /\ <<Path, q.w>> \in DOMAIN db
  BY <1>1 DEF ConfigInv, EntryOnDisk, q
<1>8. FilesGood(db', dirs')
  BY <1>1 DEF ConfigInv, StoreInv
<1> QED
  BY <1>1, <1>4, <1>6, <1>7, <1>8, StoreStep

\* The file that is unlinked is not the one that is written, and the next is
\* mapped only if it has the size in use.
LEMMA HopStep ==
  ASSUME ConfigInv, Hop
  PROVE  ConfigInv'
<1> DEFINE q == table[1]
           size == conf.db_size
           next == <<Path, q.r + 1>>
           map == Mapping(next, size)
           rmap == IF q.r + 1 = q.w THEN q.wmap
                   ELSE IF next \in DOMAIN db /\ db[next] = size THEN map ELSE NoMap
           new == Entry(q.r + 1, q.w, rmap, q.wmap)
<1>1. /\ table # << >> /\ Path \in dirs /\ q.r < q.w /\ status = "up"
      /\ db' = Unlinked
      /\ table' = [table EXCEPT ![1] = new]
      /\ UNCHANGED <<status, file, conf, dirs, edits, moved>>
  BY DEF Hop
<1>2. /\ q.r \in 1 .. MaxFile /\ q.w \in 1 .. MaxFile
      /\ q.wmap \in MapType /\ EntryGood(q, db, size)
  BY <1>1, HeadFacts
<1>3. /\ DOMAIN db' = DOMAIN db \ {<<Path, q.r>>}
      /\ \A f \in DOMAIN db' : db'[f] = db[f]
  BY <1>1 DEF Unlinked
<1> HIDE DEF q
<1>4. q.r + 1 \in 1 .. MaxFile /\ q.r + 1 <= q.w
  BY <1>1, <1>2, ConfigAssumption
<1>5. Path \in DataPaths /\ size \in Sizes
  BY DEF ConfigInv, ParamInv, Path
<1>6. Shrunk(db, db')
  BY <1>3 DEF Shrunk
<1>7. FilesGood(db', dirs')
  BY <1>1, <1>6, ShrunkGood DEF ConfigInv, StoreInv
<1>8. EntryGood(q, db', size)
  BY <1>2, <1>6, ShrunkGood
<1>9. rmap \in MapType /\ MapGood(rmap, q.r + 1, db', size)
  <2> HIDE DEF size
  <2>1. CASE q.r + 1 = q.w
    BY <1>2, <1>8, <2>1 DEF EntryGood
  <2>2. CASE q.r + 1 # q.w /\ next \in DOMAIN db /\ db[next] = size
    <3>1. next \in DOMAIN db' => db'[next] = size
      BY <1>3, <2>2
    <3>2. map \in MapType /\ MapGood(map, q.r + 1, db', size)
      BY <1>4, <1>5, <3>1, MappingGood
    <3> QED
      BY <2>2, <3>2
  <2>3. CASE q.r + 1 # q.w /\ ~(next \in DOMAIN db /\ db[next] = size)
    <3>1. rmap = NoMap
      BY <2>3
    <3>2. NoMap \in MapType /\ NoMap.len = 0
      BY ConfigAssumption DEF NoMap, MapType
    <3>3. MapGood(NoMap, q.r + 1, db', size)
      BY <3>2 DEF MapGood
    <3> QED
      BY <3>1, <3>2, <3>3
  <2> QED
    BY <2>1, <2>2, <2>3
<1> HIDE DEF rmap
<1>10. /\ new \in EntryType /\ new.r = q.r + 1 /\ new.w = q.w
       /\ new.rmap = rmap /\ new.wmap = q.wmap
  BY <1>2, <1>4, <1>9, EntryTyped
<1> HIDE DEF new, size
<1>11. EntryGood(new, db', size)
  BY <1>4, <1>8, <1>9, <1>10 DEF EntryGood
<1>12. TableGood(table', db', size) /\ Len(table') = Len(table) /\ table'[1] = new
  <2>1. TableGood(table, db, size)
    BY DEF ConfigInv, StoreInv, size
  <2> QED
    BY <1>1, <1>10, <1>11, <2>1, HeadReplaced
<1>13. ~moved => Len(table) = 1 /\ Path \in dirs /\ <<Path, q.w>> \in DOMAIN db
  BY <1>1 DEF ConfigInv, EntryOnDisk, q
<1>14. <<Path, q.w>> # <<Path, q.r>>
  BY <1>1, <1>2
<1>15. ~moved => Len(table') = 1 /\ Path \in dirs' /\ <<Path, table'[1].w>> \in DOMAIN db'
  BY <1>1, <1>3, <1>10, <1>12, <1>13, <1>14
<1>16. TableGood(table', db', conf.db_size)
  BY <1>12 DEF size
<1> QED
  BY <1>1, <1>7, <1>15, <1>16, StoreStep

\* Every step keeps the inductive invariant.
LEMMA NextInv ==
  ASSUME ConfigInv, [Next]_vars
  PROVE  ConfigInv'
<1>1. CASE Stop
  <2>1. FilesGood(db, dirs)'
    BY <1>1 DEF Stop, ConfigInv, StoreInv
  <2> QED
    BY <1>1, <2>1, GoneStep DEF Stop
<1>2. CASE UNCHANGED vars
  BY <1>2 DEF vars, ConfigInv, ParamInv, StoreInv, EntryOnDisk, Path
<1> QED
  BY <1>1, <1>2, StartStep, ReloadStep, SetSyncTimeStep, CreateStep, DeleteStep, ResetStep,
     CrashStep, RotateStep, RotateFailsStep, HopStep, EditStep, Zenon DEF Next

-----------------------------------------------------------------------------
\* The theorems

\* The inductive invariant: parameters keep their types, db files are in
\* directories that are there, only the entry that is found has mappings, each
\* of the file with the number its cursor has, inside the file and, if no
\* reload has raised the size since it was made, of the size in use; and
\* without a change of the data path the entry is alone and on disk.
THEOREM ConfigInvHolds == Spec => []ConfigInv
<1>1. Init => ConfigInv
  BY InitInv
<1>2. ConfigInv /\ [Next]_vars => ConfigInv'
  BY NextInv
<1> QED
  BY <1>1, <1>2, PTL DEF Spec

\* The parameters keep their types through every start, reload and synctime
\* request, the size in use never exceeds MAX_DB_FILE_SIZE_LIMIT, and the
\* cursors of every entry are in order.
THEOREM ConfigTypeCorrect == Spec => []ConfigTypeOK
<1>1. ConfigInv => ConfigTypeOK
  <2> SUFFICES ASSUME ConfigInv
               PROVE  ConfigTypeOK
    OBVIOUS
  <2>1. /\ DOMAIN conf = DOMAIN DefConf /\ conf.sync_time \in Nat
        /\ conf.db_size \in 1 .. SizeLimit
        /\ DOMAIN file = Paths /\ edits \in 0 .. MaxEdits
    BY DEF ConfigInv, ParamInv, Sizes
  <2>2. \A f \in DOMAIN db : f[1] \in dirs /\ f[2] \in 1 .. MaxFile /\ db[f] \in 0 .. SizeLimit
    BY DEF ConfigInv, StoreInv, FilesGood, DbFiles
  <2>3. /\ status \in {"up", "down"} /\ moved \in BOOLEAN
        /\ Len(table) <= MaxEntries /\ (table # << >> => status = "up")
    BY DEF ConfigInv, StoreInv, TableGood
  <2>4. ASSUME NEW i \in DOMAIN table
        PROVE  1 <= table[i].r /\ table[i].r <= table[i].w /\ table[i].w <= MaxFile
    <3>1. table \in Seq(EntryType) /\ i \in 1 .. Len(table)
      BY DEF ConfigInv, StoreInv, TableGood
    <3>2. table[i] \in EntryType /\ EntryGood(table[i], db, conf.db_size)
      BY <3>1 DEF ConfigInv, StoreInv, TableGood
    <3> QED
      BY <3>2, ConfigAssumption DEF EntryType, EntryGood
  <2> QED
    BY <2>1, <2>2, <2>3, <2>4, Zenon DEF ConfigTypeOK
<1> QED
  BY <1>1, ConfigInvHolds, PTL

\* Whatever sizes and data paths the configuration files bring, at reloads and
\* at restarts, and whatever crashes have left, no mapping reaches behind the
\* end of its file, and one that is shorter than what the store computes with
\* was there before a reload raised the size.
THEOREM MappingsAlwaysFit == Spec => []MappingsFit
<1>1. ConfigInv => MappingsFit
  <2> SUFFICES ASSUME ConfigInv, NEW m \in Mappings
               PROVE  /\ m.file \in DOMAIN db => m.len <= db[m.file]
                      /\ m.len >= conf.db_size \/ m.old
    BY DEF MappingsFit
  <2>1. PICK i \in DOMAIN table : m \in {table[i].rmap, table[i].wmap} /\ m.len > 0
    BY DEF Mappings
  <2>2. EntryGood(table[i], db, conf.db_size)
    BY DEF ConfigInv, StoreInv, TableGood
  <2> QED
    BY <2>1, <2>2 DEF EntryGood, MapGood
<1> QED
  BY <1>1, ConfigInvHolds, PTL

\* Until a reload changes the data path, a name has one entry, the directory
\* that a removal needs is there, and so is the file that is written.
THEOREM EntriesOnDisk == Spec => []EntryOnDisk
<1>1. ConfigInv => EntryOnDisk
  BY DEF ConfigInv
<1> QED
  BY <1>1, ConfigInvHolds, PTL

\* Whatever is written to the configuration files, ini_load gives each value in
\* them its full expansion, refuses a file with a bad reference, and refuses a
\* good one only at its limits.
THEOREM LoadsMeanExpansion == Spec => []LoadMeansExpansion
<1>1. ConfigInv => LoadMeansExpansion
  <2> SUFFICES ASSUME ConfigInv, NEW p \in Paths, file[p] # NoFile
               PROVE  LET f == file[p]
                          raw == Table(f)
                          t == ini_load(f)
                      IN  IF t = NullTable
                          THEN Resolvable(f) => ~Small(f)
                          ELSE /\ Resolvable(f)
                               /\ \A k \in Keys : \A i \in DOMAIN raw[k] :
                                    t[k][i] = Substituted(t, raw[k][i])
    BY Zenon DEF LoadMeansExpansion
  <2>1. file[p] \in (Files \cup Edits) \ {NoFile}
    BY Zenon DEF ConfigInv, ParamInv
  <2>2. file[p] \in Seq(Lines)
    BY <2>1, FilesAssumption
  <2> QED
    BY <2>2, LoadExpands
<1> QED
  BY <1>1, ConfigInvHolds, PTL

=============================================================================
