----------------------------- MODULE MCMqConfig -----------------------------
(* Instances of MqConfig for TLC: all small files, and files an operator may *)
(* change one into another.                                                  *)
EXTENDS MqConfig, TLC

IniKeys == {"conf_file", "exec_ip", "sync_time", "data_path", "db_size", "v"}

DigitValues == [d \in {"0", "1", "2"} |-> CASE d = "0" -> 0 [] d = "1" -> 1 [] d = "2" -> 2]

Defaults ==
  [conf_file |-> <<"p1">>, exec_ip |-> <<"0">>, sync_time |-> 2, data_path |-> <<"d1">>,
   db_size |-> 1]

\* Values over a digit and two references, alone or in pairs.
SmallValues == UNION {[1 .. n -> {"1", "v", "sync_time"}] : n \in 0 .. 2}

Line(k, val) == [key |-> k, val |-> val]

\* All files of two lines, and files with one line for each of three keys, the
\* one that refers to the others first or last.
SmallFiles ==
  {<<Line(k, a), Line(l, b)>> : k, l \in {"v", "sync_time"}, a, b \in SmallValues}
  \cup {<<Line("v", a), Line("sync_time", b), Line("exec_ip", c)>> : a, b, c \in SmallValues}
  \cup {<<Line("exec_ip", c), Line("v", a), Line("sync_time", b)>> : a, b, c \in SmallValues}

FullFile(path, ip, data, size) ==
  <<Line("conf_file", path), Line("exec_ip", ip), Line("v", size), Line("sync_time", <<"1">>),
    Line("data_path", data), Line("db_size", <<"v">>)>>

\* Complete files, one that names another and locks all but one address out but
\* says nothing else, one with too large a size, and a bad one.
EditedFiles ==
  {FullFile(<<"p1">>, <<"0">>, <<"d1">>, <<"1">>), FullFile(<<"p1">>, <<"0">>, <<"d1">>, <<"2">>),
   FullFile(<<"p1">>, <<"0">>, <<"d2">>, <<"2">>)}
  \cup {<<Line("conf_file", <<"p2">>), Line("exec_ip", <<"w">>)>>,
        <<Line("db_size", <<"2", "2">>)>>, <<Line("v", <<"v">>)>>}
==============================================================================
