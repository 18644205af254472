------------------------------- MODULE IniFile -------------------------------
(***************************************************************************)
(* ini.c: a file of "key=value" lines is read into a table that keeps all  *)
(* values of a key, then every $(key) in every value is replaced, in       *)
(* place, key after key, the replaced text being scanned again.            *)
(*                                                                         *)
(* A value is a sequence of words; a word that is a key stands for $(key). *)
(* Section and key are one name.  Comments, blanks and empty lines have no *)
(* part in it, nor have keys that are put together from other values       *)
(* ("$(a$(b))").                                                           *)
(***************************************************************************)
EXTENDS Integers, Sequences, FiniteSets, FiniteSetsExt, SequencesExt

CONSTANTS
  Keys,       \* the names of keys
  MaxTokens,  \* MAX_TOKENS: how often find_token may be called for a value
  MaxSize     \* 4 * TOKEN_SIZE + 1: the buffer a value is replaced in

ASSUME IniAssumption ==
  /\ IsFiniteSet(Keys) /\ Keys # {}
  /\ MaxTokens \in Nat \ {0} /\ MaxSize \in Nat

\* A value that cannot be replaced, and what ini_load then returns.
Null == <<"null">>
NullTable == [k \in Keys |-> <<Null>>]

\* The contents of files.  No word is the one that Null is made of.
Text == Seq(STRING \ {"null"})
Lines == [key: Keys, val: Text]

\* The sum over the words of val: weight[k] for a reference to k, word for any
\* other word.
Total(val, word, weight) ==
  LET sum[i \in 0 .. Len(val)] ==
        IF i = 0 THEN 0
        ELSE sum[i - 1] + IF val[i] \in Keys THEN weight[val[i]] ELSE word
  IN  sum[Len(val)]

\* A word is one character long, a reference has "$(" and ")" around it.
TextLen(val) == Total(val, 1, [k \in Keys |-> 4])

HasRef(val) == \E i \in DOMAIN val : val[i] \in Keys

(***************************************************************************)
(* Loading                                                                 *)
(***************************************************************************)

\* add_key_value: line after line, each value behind the others of its key.
Table(file) ==
  LET table[n \in 0 .. Len(file)] ==
        IF n = 0 THEN [k \in Keys |-> << >>]
        ELSE [table[n - 1] EXCEPT ![file[n].key] = Append(@, file[n].val)]
  IN  table[Len(file)]

\* Mutant of Expanded: a key that has several values is replaced by its first.
ExpandedFirst(table, val) ==
  LET i == SelectInSeq(val, LAMBDA w : w \in Keys)
      vals == table[val[i]]
  IN  IF vals = << >> THEN Null
      ELSE SubSeq(val, 1, i - 1) \o vals[1] \o SubSeq(val, i + 1, Len(val))

\* find_token: the first reference in val gives way to the value of its key,
\* which must have exactly one.
Expanded(table, val) ==
  LET i == SelectInSeq(val, LAMBDA w : w \in Keys)
      vals == table[val[i]]
  IN  IF Len(vals) # 1 THEN Null
      ELSE SubSeq(val, 1, i - 1) \o vals[1] \o SubSeq(val, i + 1, Len(val))

\* replace_in_line: text[n] is the text after n replacements.  The first call of
\* find_token counts as well, and the last is never made.
Replaced(table, val) ==
  LET text[n \in 0 .. MaxTokens] ==
        IF n = 0 THEN val
        ELSE LET before == text[n - 1]
                 after == Expanded(table, before)
             IN  IF before = Null \/ ~HasRef(before) THEN before
                 ELSE IF n > MaxTokens - 2 \/ after = Null THEN Null
                 ELSE IF TextLen(after) >= MaxSize THEN Null
                 ELSE after
  IN  text[MaxTokens]

\* The loop of replace_var over the values of a key, which it replaces in place;
\* one that fails ends it.
ReplaceKey(table, k) ==
  LET done[i \in 0 .. Len(table[k])] ==
        IF i = 0 THEN table
        ELSE LET before == done[i - 1]
                 val == Replaced(before, before[k][i])
             IN  IF before = NullTable \/ val = Null THEN NullTable
                 ELSE [before EXCEPT ![k][i] = val]
  IN  done[Len(table[k])]

\* replace_var: HASH_ITER visits the keys in the order of their first lines.
ReplaceVar(file) ==
  LET done[n \in 0 .. Len(file)] ==
        IF n = 0 THEN Table(file)
        ELSE LET before == done[n - 1]
                 seen == \E m \in 1 .. (n - 1) : file[m].key = file[n].key
             IN  IF before = NullTable \/ seen THEN before
                 ELSE ReplaceKey(before, file[n].key)
  IN  done[Len(file)]

ini_load(file) == ReplaceVar(file)

\* ini_find with index 0.
Found(table, k) == table[k] # << >>
ini_find(table, k) == table[k][1]

(***************************************************************************)
(* What a file means                                                       *)
(***************************************************************************)

References(val) == {val[i] : i \in DOMAIN val} \cap Keys

\* Every reference is to a key with one value, and no set of keys refers only
\* to itself all the way round.
Resolvable(file) ==
  LET table == Table(file)
      refs == [k \in Keys |-> UNION {References(table[k][i]) : i \in DOMAIN table[k]}]
  IN  /\ \A k \in Keys : \A r \in refs[k] : Len(table[r]) = 1
      /\ \A C \in (SUBSET Keys) \ {{}} : \E k \in C : refs[k] \cap C = {}

\* val with every reference replaced by what table says.
Substituted(table, val) ==
  FlattenSeq([i \in DOMAIN val |-> IF val[i] \in Keys THEN table[val[i]][1] ELSE <<val[i]>>])

\* How many references it takes to write val out, if those in the value of k
\* take cost[k].
Steps(val, cost) == Total(val, 0, [k \in Keys |-> 1 + cost[k]])

\* Far enough from the limits, whatever the order of the lines: a value of k is
\* written out in cost[k] steps, each of which adds no more than a line has.
Small(file) ==
  \E cost \in [Keys -> 0 .. (MaxTokens - 2)] :
    \A k \in Keys :
      /\ \A i \in DOMAIN Table(file)[k] : Steps(Table(file)[k][i], cost) <= cost[k]
      /\ \A j \in DOMAIN file : TextLen(file[j].val) * (cost[k] + 1) < MaxSize
==============================================================================
