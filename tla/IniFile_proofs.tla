---------------------------- MODULE IniFile_proofs ----------------------------
(***************************************************************************)
(* Theorems about ini_load for every file: a table that it returns has     *)
(* every value written out in full, a file it accepts has no missing,      *)
(* ambiguous or circular reference, and a file without any, that is far    *)
(* enough from the limits, is accepted.                                    *)
(***************************************************************************)
EXTENDS IniFile, FiniteSetTheorems, SequenceTheorems, WellFoundedInduction, TLAPS

\* The words of a file.
Words == STRING \ {"null"}

-----------------------------------------------------------------------------
\* Induction and recursion up to a number

\* A set of numbers that is not empty has a least one.
LEMMA NatMin ==
  ASSUME NEW P \in SUBSET Nat, P # {}
  PROVE  \E n \in P : \A m \in P : n <= m
<1> DEFINE R == {p \in Nat \X Nat : p[1] < p[2]}
<1>1. IsWellFoundedOn(R, Nat)
  BY NatLessThanWellFounded, Zenon DEF OpToRel
<1>2. PICK n \in P : \A m \in P : ~(<<m, n>> \in R)
  <2> HIDE DEF R
  <2> QED
    BY <1>1, WFMin
<1>3. \A m \in P : n <= m
  <2> TAKE m \in P
  <2>1. n \in Nat /\ m \in Nat
    OBVIOUS
  <2>2. m < n => <<m, n>> \in R
    BY <2>1
  <2> QED
    BY <1>2, <2>1, <2>2
<1> QED
  BY <1>3

\* Induction up to N, over the members of a set.
LEMMA Induct ==
  ASSUME NEW N \in Nat, NEW P, 0 \in P, \A n \in 1 .. N : n - 1 \in P => n \in P
  PROVE  \A n \in 0 .. N : n \in P
<1> SUFFICES ASSUME NEW n \in 0 .. N, n \notin P PROVE FALSE
  OBVIOUS
<1> DEFINE B == {m \in 0 .. N : m \notin P}
<1>1. PICK m \in B : \A k \in B : m <= k
  <2>1. B \in SUBSET Nat /\ B # {}
    OBVIOUS
  <2> HIDE DEF B
  <2> QED BY <2>1, NatMin
<1>2. m # 0 /\ m \in 1 .. N /\ m - 1 \in 0 .. N
  BY <1>1
<1>3. m - 1 \in P
  BY <1>1, <1>2
<1> QED
  BY <1>1, <1>2, <1>3

\* A function that is defined by recursion up to N, each value in its set.
Recursion(N, b, g, S) ==
  N \in Nat /\ b \in S[0] /\ \A n \in 1 .. N : \A x \in S[n - 1] : g[n][x] \in S[n]

Solution(f, N, b, g, S) ==
  /\ f = [n \in 0 .. N |-> f[n]]
  /\ f[0] = b
  /\ \A n \in 1 .. N : f[n] = g[n][f[n - 1]]
  /\ \A n \in 0 .. N : f[n] \in S[n]

\* A recursion that stays in its sets has a solution.
LEMMA RecSolved ==
  ASSUME NEW N, NEW b, NEW g, NEW S, Recursion(N, b, g, S)
  PROVE  \E f : Solution(f, N, b, g, S)
<1>0. /\ N \in Nat
      /\ b \in S[0]
      /\ \A n \in 1 .. N : \A x \in S[n - 1] : g[n][x] \in S[n]
  BY DEF Recursion
<1> DEFINE P == {k \in 0 .. N : \E f : /\ DOMAIN f = 0 .. k /\ f[0] = b
                                       /\ \A n \in 1 .. k : f[n] = g[n][f[n - 1]]
                                       /\ \A n \in 0 .. k : f[n] \in S[n]}
<1>1. 0 \in P
  <2> DEFINE f == [n \in {0} |-> b]
  <2>1. DOMAIN f = 0 .. 0 /\ f[0] = b /\ (\A n \in 1 .. 0 : FALSE) /\ \A n \in 0 .. 0 : f[n] \in S[n]
    BY <1>0
  <2>2. 0 \in 0 .. N
    BY <1>0
  <2> HIDE DEF f
  <2> QED BY <2>1, <2>2
<1>2. ASSUME NEW k \in 1 .. N, k - 1 \in P
      PROVE  k \in P
  <2>1. PICK f : /\ DOMAIN f = 0 .. (k - 1) /\ f[0] = b
                 /\ \A n \in 1 .. (k - 1) : f[n] = g[n][f[n - 1]]
                 /\ \A n \in 0 .. (k - 1) : f[n] \in S[n]
    BY <1>2
  <2> DEFINE h == [n \in 0 .. k |-> IF n = k THEN g[k][f[k - 1]] ELSE f[n]]
  <2>2. k \in Nat /\ k # 0 /\ k - 1 \in 0 .. (k - 1) /\ k \in 0 .. N
    OBVIOUS
  <2>3. DOMAIN h = 0 .. k /\ h[0] = b /\ h[k] = g[k][f[k - 1]] /\ \A n \in 0 .. (k - 1) : h[n] = f[n]
    BY <2>1, <2>2
  <2> HIDE DEF h
  <2>4. \A n \in 1 .. k : h[n] = g[n][h[n - 1]]
    <3> SUFFICES ASSUME NEW n \in 1 .. k PROVE h[n] = g[n][h[n - 1]]
      OBVIOUS
    <3>1. n - 1 \in 0 .. (k - 1) /\ h[n - 1] = f[n - 1]
      BY <2>2, <2>3
    <3>2. CASE n = k
      BY <3>1, <3>2, <2>3
    <3>3. CASE n # k
      <4>1. n \in 1 .. (k - 1) /\ n \in 0 .. (k - 1)
        BY <3>3, <2>2
      <4> QED BY <4>1, <3>1, <2>3, <2>1
    <3> QED BY <3>2, <3>3
  <2>5. \A n \in 0 .. k : h[n] \in S[n]
    <3> SUFFICES ASSUME NEW n \in 0 .. k PROVE h[n] \in S[n]
      OBVIOUS
    <3>1. CASE n = k
      <4>1. f[k - 1] \in S[k - 1]
        BY <2>1, <2>2
      <4> QED BY <1>0, <3>1, <4>1, <2>3
    <3>2. CASE n # k
      <4>1. n \in 0 .. (k - 1)
        BY <3>2, <2>2
      <4> QED BY <4>1, <2>3, <2>1
    <3> QED BY <3>1, <3>2
  <2> QED
    BY <2>2, <2>3, <2>4, <2>5
<1>3. N \in P
  <2> HIDE DEF P
  <2>1. \A n \in 0 .. N : n \in P
    BY <1>0, <1>1, <1>2, Induct
  <2> QED BY <1>0, <2>1
<1>4. PICK f : /\ DOMAIN f = 0 .. N /\ f[0] = b
               /\ \A n \in 1 .. N : f[n] = g[n][f[n - 1]]
               /\ \A n \in 0 .. N : f[n] \in S[n]
  BY <1>3
<1> DEFINE h == [n \in 0 .. N |-> f[n]]
<1>5. DOMAIN h = 0 .. N /\ \A n \in 0 .. N : h[n] = f[n]
  OBVIOUS
<1>6. h = [n \in 0 .. N |-> h[n]]
  OBVIOUS
<1> HIDE DEF h
<1>7. h[0] = b
  BY <1>0, <1>4, <1>5
<1>8. \A n \in 1 .. N : h[n] = g[n][h[n - 1]]
  <2> SUFFICES ASSUME NEW n \in 1 .. N PROVE h[n] = g[n][h[n - 1]]
    OBVIOUS
  <2>1. n \in 0 .. N /\ n - 1 \in 0 .. N
    BY <1>0
  <2> QED
    BY <2>1, <1>4, <1>5
<1>9. \A n \in 0 .. N : h[n] \in S[n]
  BY <1>4, <1>5
<1> QED
  BY <1>6, <1>7, <1>8, <1>9 DEF Solution

\* Two such functions agree as far as their steps do.
Agree(f, h, N) == f[0] = h[0] /\ \A n \in 1 .. N : f[n - 1] = h[n - 1] => f[n] = h[n]

\* They are the same as far as they go.
LEMMA RecAgree ==
  ASSUME NEW N \in Nat, NEW f, NEW h, Agree(f, h, N)
  PROVE  \A n \in 0 .. N : f[n] = h[n]
<1>0. f[0] = h[0] /\ \A n \in 1 .. N : f[n - 1] = h[n - 1] => f[n] = h[n]
  BY DEF Agree
<1> DEFINE P == {n \in 0 .. N : f[n] = h[n]}
<1>1. 0 \in P
  BY <1>0
<1>2. \A n \in 1 .. N : n - 1 \in P => n \in P
  BY <1>0
<1>3. \A n \in 0 .. N : n \in P
  <2> HIDE DEF P
  <2> QED
    BY <1>1, <1>2, Induct
<1> QED
  BY <1>3

-----------------------------------------------------------------------------
\* Texts

\* Null is no text, and texts are the sequences of words.
LEMMA TextIs == Text = Seq(Words) /\ Null \notin Text
<1>1. Text = Seq(Words)
  BY DEF Text, Words
<1>2. Null \notin Seq(Words)
  <2> SUFFICES ASSUME Null \in Seq(Words) PROVE FALSE
    OBVIOUS
  <2>1. Len(Null) = 1 /\ Null[1] = "null"
    BY DEF Null
  <2>2. Null[1] \in Words
    <3>1. 1 \in 1 .. Len(Null)
      BY <2>1
    <3> HIDE DEF Null
    <3> QED
      BY <3>1, ElementOfSeq
  <2>3. "null" \notin Words
    BY DEF Words
  <2> QED
    BY <2>1, <2>2, <2>3, Zenon
<1> QED
  BY <1>1, <1>2

\* Induction over texts that grow at the end.
LEMMA TextInduct ==
  ASSUME NEW P, << >> \in P, \A v \in Text : \A w \in Words : v \in P => v \o <<w>> \in P
  PROVE  Text \subseteq P
<1> SUFFICES ASSUME NEW v \in Text PROVE v \in P
  OBVIOUS
<1>0. v \in Seq(Words) /\ Len(v) \in Nat /\ DOMAIN v = 1 .. Len(v)
  BY TextIs, LenProperties
<1> DEFINE Q == {n \in 0 .. Len(v) : SubSeq(v, 1, n) \in P}
<1>1. 0 \in Q
  <2>1. SubSeq(v, 1, 0) = << >>
    <3>1. 1 \in Int /\ 0 \in Int /\ 0 < 1
      OBVIOUS
    <3> QED
      BY <3>1, SubSeqEmpty
  <2>2. 0 \in 0 .. Len(v)
    BY <1>0
  <2> QED
    BY <2>1, <2>2, Zenon
<1>2. ASSUME NEW n \in 1 .. Len(v), n - 1 \in Q
      PROVE  n \in Q
  <2>1. SubSeq(v, 1, n - 1) \in Seq(Words)
    <3>1. \A i \in 1 .. (n - 1) : v[i] \in Words
      <4>1. \A i \in 1 .. (n - 1) : i \in 1 .. Len(v)
        BY <1>0
      <4> QED
        BY <1>0, <4>1, ElementOfSeq
    <3>2. 1 \in Int /\ n - 1 \in Int
      BY <1>0
    <3> QED
      BY <3>1, <3>2, SubSeqProperties
  <2>2. v[n] \in Words
    BY <1>0, ElementOfSeq
  <2>3. SubSeq(v, 1, n) = SubSeq(v, 1, n - 1) \o <<v[n]>>
    <3>1. 1 \in 1 .. Len(v) /\ n \in 1 .. Len(v)
      BY <1>0
    <3> QED
      BY <1>0, <3>1, SubSeqRecursiveSecond
  <2>4. SubSeq(v, 1, n - 1) \in P
    BY <1>2
  <2>5. SubSeq(v, 1, n) \in P
    BY <2>1, <2>2, <2>3, <2>4, TextIs
  <2> QED
    BY <1>0, <2>5
<1>3. Len(v) \in Q
  <2> HIDE DEF Q
  <2>1. \A n \in 0 .. Len(v) : n \in Q
    BY <1>0, <1>1, <1>2, Induct
  <2> QED
    BY <1>0, <2>1
<1>4. SubSeq(v, 1, Len(v)) = v
  BY <1>0, SubSeqFull
<1> QED
  BY <1>3, <1>4

\* Texts are put together from words and from each other.
LEMMA WordText ==
  ASSUME NEW w \in Words
  PROVE  <<w>> \in Text /\ Len(<<w>>) = 1 /\ <<w>>[1] = w
BY TextIs

\* The empty text has no word,
LEMMA EmptyText == << >> \in Text /\ Len(<< >>) = 0
BY TextIs

\* and two texts are one behind the other.
LEMMA ConcatText ==
  ASSUME NEW u \in Text, NEW v \in Text
  PROVE  /\ u \o v \in Text
         /\ Len(u) \in Nat /\ Len(v) \in Nat
         /\ Len(u \o v) = Len(u) + Len(v)
         /\ \A i \in 1 .. Len(u) : (u \o v)[i] = u[i]
         /\ \A i \in 1 .. Len(v) : (u \o v)[Len(u) + i] = v[i]
<1>1. u \in Seq(Words) /\ v \in Seq(Words) /\ Len(u) \in Nat /\ Len(v) \in Nat
  BY TextIs, LenProperties
<1>2. u \o v \in Seq(Words) /\ Len(u \o v) = Len(u) + Len(v)
  BY <1>1, ConcatProperties
<1>3. \A i \in 1 .. Len(u) + Len(v) : (u \o v)[i] = IF i <= Len(u) THEN u[i] ELSE v[i - Len(u)]
  BY <1>1, ConcatProperties
<1>4. \A i \in 1 .. Len(u) : (u \o v)[i] = u[i]
  <2> SUFFICES ASSUME NEW i \in 1 .. Len(u) PROVE (u \o v)[i] = u[i]
    OBVIOUS
  <2>1. i \in 1 .. Len(u) + Len(v) /\ i <= Len(u)
    BY <1>1
  <2> QED
    BY <2>1, <1>3
<1>5. \A i \in 1 .. Len(v) : (u \o v)[Len(u) + i] = v[i]
  <2> SUFFICES ASSUME NEW i \in 1 .. Len(v) PROVE (u \o v)[Len(u) + i] = v[i]
    OBVIOUS
  <2> DEFINE j == Len(u) + i
  <2>1. j \in 1 .. Len(u) + Len(v) /\ ~(j <= Len(u)) /\ j - Len(u) = i
    BY <1>1
  <2> HIDE DEF j
  <2>2. (u \o v)[j] = v[i]
    BY <2>1, <1>3
  <2> QED
    BY <2>2 DEF j
<1> QED
  BY <1>1, <1>2, <1>4, <1>5, TextIs

\* The words of a text that another one or a word was put behind.
LEMMA AppendText ==
  ASSUME NEW v \in Text, NEW w \in Words
  PROVE  /\ v \o <<w>> \in Text
         /\ Len(v) \in Nat
         /\ Len(v \o <<w>>) = Len(v) + 1
         /\ \A i \in 1 .. Len(v) : (v \o <<w>>)[i] = v[i]
         /\ (v \o <<w>>)[Len(v) + 1] = w
<1>1. <<w>> \in Text /\ Len(<<w>>) = 1 /\ <<w>>[1] = w
  BY WordText
<1>2. 1 \in 1 .. Len(<<w>>)
  BY <1>1
<1> QED
  BY <1>1, <1>2, ConcatText

-----------------------------------------------------------------------------
\* Sums over the words of a text

\* What a word adds to a sum.
Weight(w, word, weight) == IF w \in Keys THEN weight[w] ELSE word

\* The recursion of Total has its solution, in numbers.
LEMMA TotalRec ==
  ASSUME NEW val \in Text, NEW word \in Nat, NEW weight \in [Keys -> Nat]
  PROVE  \E f : /\ f[0] = 0
                /\ \A n \in 1 .. Len(val) : f[n] = f[n - 1] + Weight(val[n], word, weight)
                /\ \A n \in 0 .. Len(val) : f[n] \in Nat
                /\ Total(val, word, weight) = f[Len(val)]
<1> DEFINE N == Len(val)
           S == [n \in 0 .. N |-> Nat]
           g == [n \in 1 .. N |-> [x \in Nat |-> x + Weight(val[n], word, weight)]]
           sum[i \in 0 .. N] ==
             IF i = 0 THEN 0
             ELSE sum[i - 1] + IF val[i] \in Keys THEN weight[val[i]] ELSE word
<1>1. N \in Nat
  BY TextIs, LenProperties
<1>2. \A n \in 1 .. N : Weight(val[n], word, weight) \in Nat
  BY DEF Weight
<1> HIDE DEF N
<1>3. PICK f : Solution(f, N, 0, g, S)
  <2>1. 0 \in S[0]
    BY <1>1
  <2>2. \A n \in 1 .. N : \A x \in S[n - 1] : g[n][x] \in S[n]
    <3> SUFFICES ASSUME NEW n \in 1 .. N, NEW x \in S[n - 1] PROVE g[n][x] \in S[n]
      OBVIOUS
    <3>1. S[n - 1] = Nat /\ S[n] = Nat
      BY <1>1
    <3>2. g[n][x] = x + Weight(val[n], word, weight)
      BY <3>1
    <3>3. x \in Nat /\ Weight(val[n], word, weight) \in Nat
      BY <3>1, <1>2, Zenon
    <3>4. x + Weight(val[n], word, weight) \in Nat
      BY <3>3
    <3> QED
      BY <3>1, <3>2, <3>4, Zenon
  <2>3. Recursion(N, 0, g, S)
    BY <1>1, <2>1, <2>2, Zenon DEF Recursion
  <2> HIDE DEF S, g, sum
  <2> QED
    BY <2>3, RecSolved
<1>4. \A n \in 0 .. N : f[n] \in Nat
  BY <1>3 DEF Solution
<1>5. \A n \in 1 .. N : f[n] = f[n - 1] + Weight(val[n], word, weight)
  <2> SUFFICES ASSUME NEW n \in 1 .. N PROVE f[n] = f[n - 1] + Weight(val[n], word, weight)
    OBVIOUS
  <2>1. n \in 0 .. N /\ n - 1 \in 0 .. N /\ n # 0
    BY <1>1
  <2>2. f[n - 1] \in Nat
    BY <2>1, <1>4
  <2>3. f[n] = g[n][f[n - 1]]
    <3> HIDE DEF g
    <3> QED
      BY <1>3, <2>1 DEF Solution
  <2> QED
    BY <2>2, <2>3
<1>6. f[0] = 0
  BY <1>1, <1>3 DEF Solution
<1> HIDE DEF g, S
<1>7. f = [i \in 0 .. N |-> IF i = 0 THEN 0
                            ELSE f[i - 1] + IF val[i] \in Keys THEN weight[val[i]] ELSE word]
  <2>1. \A i \in 0 .. N : f[i] = IF i = 0 THEN 0
                            ELSE f[i - 1] + IF val[i] \in Keys THEN weight[val[i]] ELSE word
    <3> SUFFICES ASSUME NEW i \in 0 .. N, i # 0
                 PROVE  f[i] = f[i - 1] + IF val[i] \in Keys THEN weight[val[i]] ELSE word
      BY <1>6
    <3>1. i \in 1 .. N
      BY <1>1
    <3> QED
      BY <3>1, <1>5 DEF Weight
  <2>2. f = [i \in 0 .. N |-> f[i]]
    BY <1>3 DEF Solution
  <2> QED
    BY <2>1, <2>2
<1>8. sum = [i \in 0 .. N |-> IF i = 0 THEN 0
                            ELSE sum[i - 1] + IF val[i] \in Keys THEN weight[val[i]] ELSE word]
  BY <1>7, Zenon
<1> HIDE DEF sum
<1>9. \A n \in 0 .. N : sum[n] = f[n]
  <2>1. sum[0] = f[0]
    BY <1>1, <1>6, <1>8
  <2>2. \A n \in 1 .. N : sum[n - 1] = f[n - 1] => sum[n] = f[n]
    <3> SUFFICES ASSUME NEW n \in 1 .. N, sum[n - 1] = f[n - 1] PROVE sum[n] = f[n]
      OBVIOUS
    <3>1. n \in 0 .. N /\ n # 0
      BY <1>1
    <3>2. sum[n] = sum[n - 1] + IF val[n] \in Keys THEN weight[val[n]] ELSE word
      BY <3>1, <1>8
    <3> QED
      BY <3>2, <1>5 DEF Weight
  <2>3. Agree(sum, f, N)
    BY <2>1, <2>2, Zenon DEF Agree
  <2> QED
    BY <1>1, <2>3, RecAgree
<1>10. Total(val, word, weight) = sum[N]
  BY Zenon DEF Total, sum, N
<1>11. Total(val, word, weight) = f[N]
  BY <1>1, <1>9, <1>10
<1> QED
  BY <1>4, <1>5, <1>6, <1>11 DEF N

\* What a word counts for is a number.
LEMMA WeightNat ==
  ASSUME NEW w, NEW word \in Nat, NEW weight \in [Keys -> Nat]
  PROVE  Weight(w, word, weight) \in Nat
BY DEF Weight

\* Total of no word, of one more word, of two texts one behind the other.
LEMMA TotalNat ==
  ASSUME NEW val \in Text, NEW word \in Nat, NEW weight \in [Keys -> Nat]
  PROVE  Total(val, word, weight) \in Nat
<1>1. Len(val) \in Nat
  BY TextIs, LenProperties
<1>2. PICK f : /\ \A n \in 0 .. Len(val) : f[n] \in Nat
               /\ Total(val, word, weight) = f[Len(val)]
  BY TotalRec
<1> QED
  BY <1>1, <1>2

\* Nothing in the empty text to add up,
LEMMA TotalEmpty ==
  ASSUME NEW word \in Nat, NEW weight \in [Keys -> Nat]
  PROVE  Total(<< >>, word, weight) = 0
<1>1. << >> \in Text /\ Len(<< >>) = 0
  BY EmptyText
<1>2. PICK f : f[0] = 0 /\ Total(<< >>, word, weight) = f[Len(<< >>)]
  BY <1>1, TotalRec
<1> QED
  BY <1>1, <1>2

\* one more word adds its weight,
LEMMA TotalAppend ==
  ASSUME NEW v \in Text, NEW w \in Words, NEW word \in Nat, NEW weight \in [Keys -> Nat]
  PROVE  Total(v \o <<w>>, word, weight) = Total(v, word, weight) + Weight(w, word, weight)
<1> DEFINE u == v \o <<w>>
           N == Len(v)
<1>1. /\ u \in Text
      /\ N \in Nat
      /\ Len(u) = N + 1
      /\ \A i \in 1 .. N : u[i] = v[i]
      /\ u[N + 1] = w
  BY AppendText
<1>2. PICK f : /\ f[0] = 0
               /\ \A n \in 1 .. N : f[n] = f[n - 1] + Weight(v[n], word, weight)
               /\ \A n \in 0 .. N : f[n] \in Nat
               /\ Total(v, word, weight) = f[N]
  BY TotalRec
<1> HIDE DEF u, N
<1>3. PICK h : /\ h[0] = 0
               /\ \A n \in 1 .. Len(u) : h[n] = h[n - 1] + Weight(u[n], word, weight)
               /\ \A n \in 0 .. Len(u) : h[n] \in Nat
               /\ Total(u, word, weight) = h[Len(u)]
  BY <1>1, TotalRec
<1>4. \A n \in 0 .. N : f[n] = h[n]
  <2>1. \A n \in 1 .. N : f[n - 1] = h[n - 1] => f[n] = h[n]
    <3> SUFFICES ASSUME NEW n \in 1 .. N, f[n - 1] = h[n - 1] PROVE f[n] = h[n]
      OBVIOUS
    <3>1. n \in 1 .. Len(u) /\ u[n] = v[n]
      BY <1>1
    <3> QED
      BY <3>1, <1>2, <1>3
  <2>2. f[0] = h[0] /\ N \in Nat
    BY <1>1, <1>2, <1>3
  <2>3. Agree(f, h, N)
    BY <2>1, <2>2, Zenon DEF Agree
  <2> QED
    BY <2>2, <2>3, RecAgree
<1>5. h[N + 1] = h[(N + 1) - 1] + Weight(w, word, weight)
  BY <1>1, <1>3
<1>6. (N + 1) - 1 = N /\ N \in 0 .. N
  BY <1>1
<1>7. h[N + 1] = f[N] + Weight(w, word, weight)
  BY <1>4, <1>5, <1>6
<1> QED
  BY <1>1, <1>2, <1>3, <1>7 DEF u

\* one word is its weight,
LEMMA TotalWord ==
  ASSUME NEW w \in Words, NEW word \in Nat, NEW weight \in [Keys -> Nat]
  PROVE  Total(<<w>>, word, weight) = Weight(w, word, weight)
<1>1. << >> \o <<w>> = <<w>>
  BY WordText, TextIs, ConcatEmptySeq
<1>2. Total(<< >> \o <<w>>, word, weight) = Total(<< >>, word, weight) + Weight(w, word, weight)
  BY EmptyText, TotalAppend
<1>3. Total(<< >>, word, weight) = 0 /\ Weight(w, word, weight) \in Nat
  BY TotalEmpty, WeightNat
<1> QED
  BY <1>1, <1>2, <1>3

\* and two texts have the sum of theirs.
LEMMA TotalConcat ==
  ASSUME NEW u \in Text, NEW v \in Text, NEW word \in Nat, NEW weight \in [Keys -> Nat]
  PROVE  Total(u \o v, word, weight) = Total(u, word, weight) + Total(v, word, weight)
<1> DEFINE T(t) == Total(t, word, weight)
           P == {t \in Text : T(u \o t) = T(u) + T(t)}
<1>1. << >> \in P
  <2>1. u \o << >> = u
    BY TextIs, ConcatEmptySeq
  <2>2. T(<< >>) = 0 /\ T(u) \in Nat
    BY TotalEmpty, TotalNat
  <2>3. T(u \o << >>) = T(u) + T(<< >>)
    BY <2>1, <2>2
  <2> QED
    BY <2>3, EmptyText, Zenon
<1>2. ASSUME NEW t \in Text, NEW w \in Words, t \in P
      PROVE  t \o <<w>> \in P
  <2>1. t \o <<w>> \in Text /\ u \o t \in Text
    BY AppendText, ConcatText
  <2>2. u \o (t \o <<w>>) = (u \o t) \o <<w>>
    <3>1. u \in Seq(Words) /\ t \in Seq(Words) /\ <<w>> \in Seq(Words)
      BY WordText, TextIs
    <3> QED
      BY <3>1, ConcatAssociative
  <2>3. T((u \o t) \o <<w>>) = T(u \o t) + Weight(w, word, weight)
    BY <2>1, TotalAppend
  <2>4. T(t \o <<w>>) = T(t) + Weight(w, word, weight)
    BY TotalAppend
  <2>5. T(u) \in Nat /\ T(t) \in Nat /\ Weight(w, word, weight) \in Nat
    BY TotalNat, WeightNat
  <2>6. T(u \o t) = T(u) + T(t)
    BY <1>2, Zenon
  <2> HIDE DEF T
  <2>7. (T(u) + T(t)) + Weight(w, word, weight) = T(u) + (T(t) + Weight(w, word, weight))
    BY <2>5
  <2>8. T(u \o (t \o <<w>>)) = T(u) + T(t \o <<w>>)
    BY <2>2, <2>3, <2>4, <2>6, <2>7, Zenon
  <2> QED
    BY <2>1, <2>8, Zenon
<1>3. Text \subseteq P
  <2> HIDE DEF P
  <2> QED
    BY <1>1, <1>2, TextInduct
<1> QED
  BY <1>3

-----------------------------------------------------------------------------
\* Substitution

\* The recursion of FlattenSeq, begun one step earlier.
LEMMA FlattenRec ==
  ASSUME NEW s \in Seq(Text)
  PROVE  \E h : /\ h[0] = << >>
                /\ \A n \in 1 .. Len(s) : h[n] = h[n - 1] \o s[n]
                /\ \A n \in 0 .. Len(s) : h[n] \in Text
                /\ FlattenSeq(s) = h[Len(s)]
<1> DEFINE N == Len(s)
           S == [n \in 0 .. N |-> Text]
           g == [n \in 1 .. N |-> [x \in Text |-> x \o s[n]]]
           flatten[i \in 1 .. N] == IF i = 1 THEN s[i] ELSE flatten[i - 1] \o s[i]
<1>1. N \in Nat /\ \A n \in 1 .. N : s[n] \in Text
  BY LenProperties, ElementOfSeq
<1> HIDE DEF N
<1>2. PICK h : Solution(h, N, << >>, g, S)
  <2>1. << >> \in S[0]
    BY <1>1, EmptyText
  <2>2. \A n \in 1 .. N : \A x \in S[n - 1] : g[n][x] \in S[n]
    <3> SUFFICES ASSUME NEW n \in 1 .. N, NEW x \in S[n - 1] PROVE g[n][x] \in S[n]
      OBVIOUS
    <3>1. S[n - 1] = Text /\ S[n] = Text
      BY <1>1
    <3>2. g[n][x] = x \o s[n]
      BY <3>1
    <3>3. x \o s[n] \in Text
      BY <3>1, <1>1, ConcatText
    <3> QED
      BY <3>1, <3>2, <3>3, Zenon
  <2>3. Recursion(N, << >>, g, S)
    BY <1>1, <2>1, <2>2, Zenon DEF Recursion
  <2> HIDE DEF S, g, flatten
  <2> QED
    BY <2>3, RecSolved
<1>3. \A n \in 0 .. N : h[n] \in Text
  BY <1>2 DEF Solution
<1>4. \A n \in 1 .. N : h[n] = h[n - 1] \o s[n]
  <2> SUFFICES ASSUME NEW n \in 1 .. N PROVE h[n] = h[n - 1] \o s[n]
    OBVIOUS
  <2>1. n \in 0 .. N /\ n - 1 \in 0 .. N /\ n # 0
    BY <1>1
  <2>2. h[n - 1] \in Text
    BY <2>1, <1>3
  <2>3. h[n] = g[n][h[n - 1]]
    <3> HIDE DEF g
    <3> QED
      BY <1>2, <2>1 DEF Solution
  <2> QED
    BY <2>2, <2>3
<1>5. h[0] = << >>
  BY <1>2 DEF Solution
<1> HIDE DEF g, S
<1>6. CASE N = 0
  <2>1. s = << >>
    BY <1>6 DEF N
  <2>2. FlattenSeq(s) = s
    BY <1>6, Zenon DEF FlattenSeq, N
  <2>3. FlattenSeq(s) = h[N]
    BY <2>1, <2>2, <1>6, <1>5
  <2> QED
    BY <1>3, <1>4, <1>5, <2>3 DEF N
<1>7. CASE N # 0
  <2>0. h[1] = s[1]
    <3>1. 1 \in 1 .. N /\ 1 - 1 = 0
      BY <1>1, <1>7
    <3>2. s[1] \in Text
      BY <3>1, <1>1
    <3>3. << >> \o s[1] = s[1]
      BY <3>2, TextIs, ConcatEmptySeq
    <3>4. h[1] = h[1 - 1] \o s[1]
      BY <3>1, <1>4
    <3> QED
      BY <3>1, <3>3, <3>4, <1>5
  <2> DEFINE f == [i \in 1 .. N |-> h[i]]
  <2>1. f = [i \in 1 .. N |-> IF i = 1 THEN s[i] ELSE f[i - 1] \o s[i]]
    <3>1. \A i \in 1 .. N : f[i] = IF i = 1 THEN s[i] ELSE f[i - 1] \o s[i]
      <4> SUFFICES ASSUME NEW i \in 1 .. N PROVE f[i] = IF i = 1 THEN s[i] ELSE f[i - 1] \o s[i]
        OBVIOUS
      <4>1. f[i] = h[i]
        OBVIOUS
      <4>2. CASE i = 1
        BY <4>1, <4>2, <2>0
      <4>3. CASE i # 1
        <5>1. i - 1 \in 1 .. N
          BY <4>3, <1>1
        <5>2. f[i - 1] = h[i - 1]
          BY <5>1
        <5> QED
          BY <4>1, <4>3, <5>2, <1>4, Zenon
      <4> QED
        BY <4>2, <4>3
    <3> QED
      BY <3>1
  <2>2. flatten = [i \in 1 .. N |-> IF i = 1 THEN s[i] ELSE flatten[i - 1] \o s[i]]
    <3> HIDE DEF f
    <3> QED
      BY <2>1, Zenon
  <2> HIDE DEF f, flatten
  <2> DEFINE P == {n \in 0 .. N : n # 0 => flatten[n] = h[n]}
  <2>3. 0 \in P
    BY <1>1
  <2>4. \A n \in 1 .. N : n - 1 \in P => n \in P
    <3> SUFFICES ASSUME NEW n \in 1 .. N, n - 1 \in P PROVE n \in P
      OBVIOUS
    <3>1. n \in 0 .. N
      BY <1>1
    <3>2. flatten[n] = IF n = 1 THEN s[n] ELSE flatten[n - 1] \o s[n]
      BY <2>2
    <3>3. flatten[n] = h[n]
      <4>1. CASE n = 1
        BY <4>1, <3>2, <2>0
      <4>2. CASE n # 1
        <5>1. n - 1 # 0
          BY <4>2
        <5> QED
          BY <4>2, <5>1, <3>2, <1>4
      <4> QED
        BY <4>1, <4>2
    <3> QED
      BY <3>1, <3>3
  <2>5. \A n \in 0 .. N : n \in P
    <3> HIDE DEF P
    <3> QED
      BY <1>1, <2>3, <2>4, Induct
  <2>6. flatten[N] = h[N]
    BY <1>1, <1>7, <2>5
  <2>7. FlattenSeq(s) = flatten[N]
    BY <1>7, Zenon DEF FlattenSeq, flatten, N
  <2> QED
    BY <1>3, <1>4, <1>5, <2>6, <2>7 DEF N
<1> QED
  BY <1>6, <1>7

\* Substitution with one text for each key, and what it makes of a word.
Subst(m, v) == Substituted([k \in Keys |-> <<m[k]>>], v)

Piece(m, w) == IF w \in Keys THEN m[w] ELSE <<w>>

\* It makes a text of a word.
LEMMA PieceText ==
  ASSUME NEW m \in [Keys -> Text], NEW w \in Words
  PROVE  Piece(m, w) \in Text
BY WordText DEF Piece

\* The recursion of Substituted has its solution, in texts.
LEMMA SubstRec ==
  ASSUME NEW m \in [Keys -> Text], NEW v \in Text
  PROVE  \E h : /\ h[0] = << >>
                /\ \A n \in 1 .. Len(v) : h[n] = h[n - 1] \o Piece(m, v[n])
                /\ \A n \in 0 .. Len(v) : h[n] \in Text
                /\ Subst(m, v) = h[Len(v)]
<1> DEFINE t == [k \in Keys |-> <<m[k]>>]
           s == [i \in DOMAIN v |-> IF v[i] \in Keys THEN t[v[i]][1] ELSE <<v[i]>>]
           e == [i \in 1 .. Len(v) |-> Piece(m, v[i])]
<1>1. Len(v) \in Nat /\ DOMAIN v = 1 .. Len(v) /\ \A i \in 1 .. Len(v) : v[i] \in Words
  BY TextIs, LenProperties, ElementOfSeq
<1>2. \A i \in 1 .. Len(v) : Piece(m, v[i]) \in Text
  BY <1>1, PieceText
<1>3. e \in Seq(Text) /\ Len(e) = Len(v) /\ \A n \in 1 .. Len(v) : e[n] = Piece(m, v[n])
  BY <1>1, <1>2
<1>4. s = e
  <2>1. \A i \in 1 .. Len(v) : (IF v[i] \in Keys THEN t[v[i]][1] ELSE <<v[i]>>) = Piece(m, v[i])
    BY DEF Piece
  <2> HIDE DEF t
  <2> QED
    BY <1>1, <2>1
<1>5. Subst(m, v) = FlattenSeq(s)
  BY Zenon DEF Subst, Substituted
<1> HIDE DEF t, s, e
<1>6. PICK h : /\ h[0] = << >>
               /\ \A n \in 1 .. Len(e) : h[n] = h[n - 1] \o e[n]
               /\ \A n \in 0 .. Len(e) : h[n] \in Text
               /\ FlattenSeq(e) = h[Len(e)]
  BY <1>3, FlattenRec
<1>7. \A n \in 1 .. Len(v) : h[n] = h[n - 1] \o Piece(m, v[n])
  BY <1>3, <1>6
<1>8. \A n \in 0 .. Len(v) : h[n] \in Text
  BY <1>3, <1>6
<1>9. Subst(m, v) = h[Len(v)]
  BY <1>3, <1>4, <1>5, <1>6
<1> QED
  BY <1>6, <1>7, <1>8, <1>9

\* Substitution makes texts of texts, piece by piece.
LEMMA SubstText ==
  ASSUME NEW m \in [Keys -> Text], NEW v \in Text
  PROVE  Subst(m, v) \in Text
<1>1. Len(v) \in Nat
  BY TextIs, LenProperties
<1>2. PICK h : /\ \A n \in 0 .. Len(v) : h[n] \in Text
               /\ Subst(m, v) = h[Len(v)]
  BY SubstRec
<1> QED
  BY <1>1, <1>2

\* Nothing is put for nothing,
LEMMA SubstEmpty ==
  ASSUME NEW m \in [Keys -> Text]
  PROVE  Subst(m, << >>) = << >>
<1>1. << >> \in Text /\ Len(<< >>) = 0
  BY EmptyText
<1>2. PICK h : h[0] = << >> /\ Subst(m, << >>) = h[Len(<< >>)]
  BY <1>1, SubstRec
<1> QED
  BY <1>1, <1>2

\* one more word adds its piece,
LEMMA SubstAppend ==
  ASSUME NEW m \in [Keys -> Text], NEW v \in Text, NEW w \in Words
  PROVE  Subst(m, v \o <<w>>) = Subst(m, v) \o Piece(m, w)
<1> DEFINE u == v \o <<w>>
           N == Len(v)
<1>1. /\ u \in Text
      /\ N \in Nat
      /\ Len(u) = N + 1
      /\ \A i \in 1 .. N : u[i] = v[i]
      /\ u[N + 1] = w
  BY AppendText
<1>2. PICK f : /\ f[0] = << >>
               /\ \A n \in 1 .. N : f[n] = f[n - 1] \o Piece(m, v[n])
               /\ Subst(m, v) = f[N]
  BY SubstRec
<1> HIDE DEF u, N
<1>3. PICK h : /\ h[0] = << >>
               /\ \A n \in 1 .. Len(u) : h[n] = h[n - 1] \o Piece(m, u[n])
               /\ Subst(m, u) = h[Len(u)]
  BY <1>1, SubstRec
<1>4. \A n \in 0 .. N : f[n] = h[n]
  <2>1. \A n \in 1 .. N : f[n - 1] = h[n - 1] => f[n] = h[n]
    <3> SUFFICES ASSUME NEW n \in 1 .. N, f[n - 1] = h[n - 1] PROVE f[n] = h[n]
      OBVIOUS
    <3>1. n \in 1 .. Len(u) /\ u[n] = v[n]
      BY <1>1
    <3> QED
      BY <3>1, <1>2, <1>3
  <2>2. f[0] = h[0] /\ N \in Nat
    BY <1>1, <1>2, <1>3
  <2>3. Agree(f, h, N)
    BY <2>1, <2>2, Zenon DEF Agree
  <2> QED
    BY <2>2, <2>3, RecAgree
<1>5. h[N + 1] = h[(N + 1) - 1] \o Piece(m, w)
  <2>1. N + 1 \in 1 .. Len(u)
    BY <1>1
  <2> QED
    BY <2>1, <1>1, <1>3, Zenon
<1>6. (N + 1) - 1 = N /\ N \in 0 .. N
  BY <1>1
<1>7. h[N + 1] = f[N] \o Piece(m, w)
  BY <1>4, <1>5, <1>6
<1> QED
  BY <1>1, <1>2, <1>3, <1>7 DEF u

\* one word becomes its piece,
LEMMA SubstWord ==
  ASSUME NEW m \in [Keys -> Text], NEW w \in Words
  PROVE  Subst(m, <<w>>) = Piece(m, w)
<1>1. << >> \o <<w>> = <<w>>
  BY WordText, TextIs, ConcatEmptySeq
<1>2. Subst(m, << >> \o <<w>>) = Subst(m, << >>) \o Piece(m, w)
  BY EmptyText, SubstAppend
<1>3. Piece(m, w) \in Seq(Words)
  BY PieceText, TextIs
<1>4. << >> \o Piece(m, w) = Piece(m, w)
  BY <1>3, ConcatEmptySeq
<1> QED
  BY <1>1, <1>2, <1>4, SubstEmpty

\* and two texts are substituted one after the other.
LEMMA SubstConcat ==
  ASSUME NEW m \in [Keys -> Text], NEW u \in Text, NEW v \in Text
  PROVE  Subst(m, u \o v) = Subst(m, u) \o Subst(m, v)
<1> DEFINE P == {t \in Text : Subst(m, u \o t) = Subst(m, u) \o Subst(m, t)}
<1>1. << >> \in P
  <2>1. u \o << >> = u
    BY TextIs, ConcatEmptySeq
  <2>2. Subst(m, u) \in Seq(Words)
    BY SubstText, TextIs
  <2>3. Subst(m, u) \o << >> = Subst(m, u)
    BY <2>2, ConcatEmptySeq
  <2>4. Subst(m, u \o << >>) = Subst(m, u) \o Subst(m, << >>)
    BY <2>1, <2>3, SubstEmpty
  <2> QED
    BY <2>4, EmptyText, Zenon
<1>2. ASSUME NEW t \in Text, NEW w \in Words, t \in P
      PROVE  t \o <<w>> \in P
  <2>1. t \o <<w>> \in Text /\ u \o t \in Text
    BY AppendText, ConcatText
  <2>2. u \o (t \o <<w>>) = (u \o t) \o <<w>>
    <3>1. u \in Seq(Words) /\ t \in Seq(Words) /\ <<w>> \in Seq(Words)
      BY WordText, TextIs
    <3> QED
      BY <3>1, ConcatAssociative
  <2>3. Subst(m, (u \o t) \o <<w>>) = Subst(m, u \o t) \o Piece(m, w)
    BY <2>1, SubstAppend
  <2>4. Subst(m, t \o <<w>>) = Subst(m, t) \o Piece(m, w)
    BY SubstAppend
  <2>5. Subst(m, u \o t) = Subst(m, u) \o Subst(m, t)
    BY <1>2, Zenon
  <2>6. (Subst(m, u) \o Subst(m, t)) \o Piece(m, w) = Subst(m, u) \o (Subst(m, t) \o Piece(m, w))
    <3>1. Subst(m, u) \in Seq(Words) /\ Subst(m, t) \in Seq(Words) /\ Piece(m, w) \in Seq(Words)
      BY SubstText, PieceText, TextIs
    <3> QED
      BY <3>1, ConcatAssociative
  <2>7. Subst(m, u \o (t \o <<w>>)) = Subst(m, u) \o Subst(m, t \o <<w>>)
    BY <2>2, <2>3, <2>4, <2>5, <2>6, Zenon
  <2> QED
    BY <2>1, <2>7, Zenon
<1>3. Text \subseteq P
  <2> HIDE DEF P
  <2> QED
    BY <1>1, <1>2, TextInduct
<1> QED
  BY <1>3

\* A text without references stays as it is.
LEMMA SubstPlain ==
  ASSUME NEW m \in [Keys -> Text], NEW v \in Text, ~HasRef(v)
  PROVE  Subst(m, v) = v
<1> DEFINE P == {t \in Text : ~HasRef(t) => Subst(m, t) = t}
<1>1. << >> \in P
  BY EmptyText, SubstEmpty, Zenon
<1>2. ASSUME NEW t \in Text, NEW w \in Words, t \in P
      PROVE  t \o <<w>> \in P
  <2> SUFFICES ASSUME ~HasRef(t \o <<w>>) PROVE Subst(m, t \o <<w>>) = t \o <<w>>
    BY AppendText, Zenon
  <2>1. /\ Len(t) \in Nat /\ Len(t \o <<w>>) = Len(t) + 1
        /\ \A i \in 1 .. Len(t) : (t \o <<w>>)[i] = t[i]
        /\ (t \o <<w>>)[Len(t) + 1] = w
    BY AppendText
  <2>2. DOMAIN t = 1 .. Len(t) /\ DOMAIN (t \o <<w>>) = 1 .. (Len(t) + 1)
    BY <2>1, AppendText, TextIs, LenProperties
  <2>3. ~HasRef(t) /\ w \notin Keys
    BY <2>1, <2>2 DEF HasRef
  <2>4. Subst(m, t) = t
    BY <1>2, <2>3
  <2>5. Subst(m, t \o <<w>>) = Subst(m, t) \o Piece(m, w)
    BY SubstAppend
  <2> QED
    BY <2>3, <2>4, <2>5 DEF Piece
<1>3. Text \subseteq P
  <2> HIDE DEF P
  <2> QED
    BY <1>1, <1>2, TextInduct
<1> QED
  BY <1>3

\* Only the texts of the keys that are referred to count.
LEMMA SubstSame ==
  ASSUME NEW v \in Text, NEW t, NEW u, \A r \in References(v) : t[r][1] = u[r][1]
  PROVE  Substituted(t, v) = Substituted(u, v)
<1>1. \A i \in DOMAIN v : v[i] \in Keys => t[v[i]][1] = u[v[i]][1]
  BY Zenon DEF References
<1>2. [i \in DOMAIN v |-> IF v[i] \in Keys THEN t[v[i]][1] ELSE <<v[i]>>]
        = [i \in DOMAIN v |-> IF v[i] \in Keys THEN u[v[i]][1] ELSE <<v[i]>>]
  BY <1>1
<1> QED
  BY <1>2, Zenon DEF Substituted

-----------------------------------------------------------------------------
\* References, and find_token

LEMMA RefsOf ==
  ASSUME NEW v \in Text
  PROVE  /\ \A r : r \in References(v) <=> (r \in Keys /\ \E i \in 1 .. Len(v) : v[i] = r)
         /\ HasRef(v) <=> References(v) # {}
<1>1. DOMAIN v = 1 .. Len(v)
  BY TextIs, LenProperties
<1>2. \A r : r \in References(v) <=> (r \in Keys /\ \E i \in 1 .. Len(v) : v[i] = r)
  BY <1>1, Zenon DEF References
<1>3. HasRef(v) <=> \E i \in 1 .. Len(v) : v[i] \in Keys
  BY <1>1, Zenon DEF HasRef
<1> QED
  BY <1>2, <1>3, Zenon

\* Two texts refer to what each of them refers to,
LEMMA RefsConcat ==
  ASSUME NEW u \in Text, NEW v \in Text
  PROVE  References(u \o v) = References(u) \cup References(v)
<1>1. /\ u \o v \in Text
      /\ Len(u) \in Nat /\ Len(v) \in Nat
      /\ Len(u \o v) = Len(u) + Len(v)
      /\ \A i \in 1 .. Len(u) : (u \o v)[i] = u[i]
      /\ \A i \in 1 .. Len(v) : (u \o v)[Len(u) + i] = v[i]
  BY ConcatText
<1> DEFINE w == u \o v
<1> HIDE DEF w
<1>2. ASSUME NEW r \in References(w)
      PROVE  r \in References(u) \cup References(v)
  <2>1. PICK i \in 1 .. Len(w) : w[i] = r
    BY <1>1, RefsOf DEF w
  <2>2. r \in Keys
    BY <1>1, RefsOf DEF w
  <2>3. CASE i <= Len(u)
    <3>1. i \in 1 .. Len(u)
      BY <2>3, <1>1 DEF w
    <3>2. u[i] = r
      BY <2>1, <3>1, <1>1 DEF w
    <3> QED
      BY <3>1, <3>2, <2>2, RefsOf
  <2>4. CASE ~(i <= Len(u))
    <3>1. i - Len(u) \in 1 .. Len(v) /\ Len(u) + (i - Len(u)) = i
      BY <2>4, <1>1 DEF w
    <3>2. v[i - Len(u)] = r
      BY <2>1, <3>1, <1>1, Zenon DEF w
    <3> QED
      BY <3>1, <3>2, <2>2, RefsOf
  <2> QED
    BY <2>3, <2>4
<1>3. ASSUME NEW r \in References(u)
      PROVE  r \in References(w)
  <2>1. PICK i \in 1 .. Len(u) : u[i] = r
    BY RefsOf
  <2>2. r \in Keys
    BY RefsOf
  <2>3. i \in 1 .. Len(w) /\ w[i] = r
    BY <2>1, <1>1 DEF w
  <2> QED
    BY <2>2, <2>3, <1>1, RefsOf DEF w
<1>4. ASSUME NEW r \in References(v)
      PROVE  r \in References(w)
  <2>1. PICK i \in 1 .. Len(v) : v[i] = r
    BY RefsOf
  <2>2. r \in Keys
    BY RefsOf
  <2>3. Len(u) + i \in 1 .. Len(w)
    BY <1>1 DEF w
  <2>4. w[Len(u) + i] = r
    BY <2>1, <1>1, Zenon DEF w
  <2> QED
    BY <2>2, <2>3, <2>4, <1>1, RefsOf DEF w
<1> QED
  BY <1>2, <1>3, <1>4, Zenon DEF w

\* and a word to itself if it is a key.
LEMMA RefsWord ==
  ASSUME NEW w \in Words
  PROVE  References(<<w>>) = {w} \cap Keys
<1>1. <<w>> \in Text /\ Len(<<w>>) = 1 /\ <<w>>[1] = w
  BY WordText
<1>2. \A i \in 1 .. Len(<<w>>) : i = 1
  BY <1>1
<1>3. 1 \in 1 .. Len(<<w>>)
  BY <1>1
<1>4. \A r : r \in References(<<w>>) <=> (r \in Keys /\ \E i \in 1 .. Len(<<w>>) : <<w>>[i] = r)
  BY <1>1, RefsOf
<1> QED
  BY <1>1, <1>2, <1>3, <1>4, Zenon

\* What the tables of values are made of.
TableType == [Keys -> Seq(Text)]

\* The value of a key that has exactly one.
LEMMA OneValue ==
  ASSUME NEW t \in TableType, NEW k \in Keys
  PROVE  /\ Len(t[k]) \in Nat
         /\ DOMAIN t[k] = 1 .. Len(t[k])
         /\ \A i \in 1 .. Len(t[k]) : t[k][i] \in Text
         /\ Len(t[k]) = 1 => t[k][1] \in Text
<1>1. t[k] \in Seq(Text)
  BY DEF TableType
<1>2. Len(t[k]) \in Nat /\ DOMAIN t[k] = 1 .. Len(t[k])
  BY <1>1, LenProperties
<1>3. \A i \in 1 .. Len(t[k]) : t[k][i] \in Text
  BY <1>1, ElementOfSeq
<1>4. Len(t[k]) = 1 => 1 \in 1 .. Len(t[k])
  OBVIOUS
<1> QED
  BY <1>2, <1>3, <1>4, Zenon

\* find_token finds the first reference; its key's value takes its place.
LEMMA ExpandedIs ==
  ASSUME NEW t \in TableType, NEW v \in Text, HasRef(v)
  PROVE  \E a \in Text, b \in Text, r \in Keys \cap Words :
           /\ v = (a \o <<r>>) \o b
           /\ ~HasRef(a)
           /\ Expanded(t, v) = IF Len(t[r]) # 1 THEN Null ELSE (a \o t[r][1]) \o b
<1> DEFINE N == Len(v)
           I == {i \in 1 .. N : v[i] \in Keys}
           i == Min(I)
           a == SubSeq(v, 1, i - 1)
           b == SubSeq(v, i + 1, N)
           r == v[i]
<1>1. v \in Seq(Words) /\ N \in Nat /\ DOMAIN v = 1 .. N /\ \A j \in 1 .. N : v[j] \in Words
  BY TextIs, LenProperties, ElementOfSeq
<1>2. I # {} /\ I \in SUBSET Nat
  BY <1>1 DEF HasRef
<1>3. i \in I /\ \A j \in I : i <= j
  <2> HIDE DEF I
  <2>1. \E x \in I : \A y \in I : x <= y
    BY <1>2, NatMin
  <2> QED
    BY <2>1, Zenon DEF Min
<1>4. i \in 1 .. N /\ r \in Keys /\ r \in Words
  BY <1>1, <1>3
<1>5. SelectInSeq(v, LAMBDA w : w \in Keys) = i
  BY <1>2, Zenon DEF SelectInSeq
<1> HIDE DEF i, N
<1>6. a \in Seq(Words) /\ Len(a) = i - 1 /\ \A j \in 1 .. (i - 1) : a[j] = v[j]
  <2>1. \A j \in 1 .. (i - 1) : v[j] \in Words
    BY <1>1, <1>4
  <2>2. 1 \in Int /\ i - 1 \in Int
    BY <1>4
  <2>3. a \in Seq(Words) /\ Len(a) = IF 1 <= i - 1 THEN (i - 1) - 1 + 1 ELSE 0
    BY <2>1, <2>2, SubSeqProperties
  <2>4. \A j \in 1 .. (i - 1) - 1 + 1 : a[j] = v[1 + j - 1]
    BY <2>1, <2>2, SubSeqProperties
  <2>5. \A j \in 1 .. (i - 1) : j \in 1 .. (i - 1) - 1 + 1 /\ 1 + j - 1 = j
    BY <1>4
  <2>6. \A j \in 1 .. (i - 1) : a[j] = v[j]
    <3> HIDE DEF a
    <3> QED
      BY <2>4, <2>5, Zenon
  <2> HIDE DEF a
  <2> QED
    BY <2>3, <2>6, <1>4
<1>7. b \in Seq(Words)
  <2>1. \A j \in (i + 1) .. N : v[j] \in Words
    BY <1>1, <1>4
  <2>2. i + 1 \in Int /\ N \in Int
    BY <1>1, <1>4
  <2> QED
    BY <2>1, <2>2, SubSeqProperties
<1>8. v = (a \o <<r>>) \o b
  <2>1. SubSeq(v, 1, i) = a \o <<r>>
    <3>1. 1 \in 1 .. Len(v) /\ i \in 1 .. Len(v)
      BY <1>1, <1>4 DEF N
    <3> QED
      BY <1>1, <3>1, SubSeqRecursiveSecond
  <2>2. SubSeq(v, 1, i) \o SubSeq(v, i + 1, Len(v)) = SubSeq(v, 1, Len(v))
    <3>1. 1 \in 1 .. Len(v) + 1 /\ i \in (1 - 1) .. Len(v) /\ Len(v) \in i .. Len(v)
      BY <1>1, <1>4 DEF N
    <3> QED
      BY <1>1, <3>1, ConcatAdjacentSubSeq
  <2>3. SubSeq(v, 1, Len(v)) = v
    BY <1>1, SubSeqFull
  <2> QED
    BY <2>1, <2>2, <2>3, Zenon DEF N
<1>9. ~HasRef(a)
  <2> HIDE DEF a
  <2> SUFFICES ASSUME NEW j \in DOMAIN a, a[j] \in Keys PROVE FALSE
    BY Zenon DEF HasRef
  <2>1. DOMAIN a = 1 .. (i - 1)
    BY <1>6, LenProperties
  <2>2. j \in I /\ j < i
    BY <2>1, <1>4, <1>6, <1>1
  <2> QED
    BY <2>2, <1>3, <1>4
<1>10. Expanded(t, v) = IF Len(t[r]) # 1 THEN Null ELSE (a \o t[r][1]) \o b
  BY <1>5, Zenon DEF Expanded, N
<1> HIDE DEF a, b, r
<1>11. a \in Text /\ b \in Text /\ r \in Keys \cap Words
  BY <1>4, <1>6, <1>7, TextIs
<1> QED
  BY <1>8, <1>9, <1>10, <1>11, Zenon

-----------------------------------------------------------------------------
\* replace_in_line

\* One round of its loop.
Round(t, n, x) ==
  IF x = Null \/ ~HasRef(x) THEN x
  ELSE IF n > MaxTokens - 2 \/ Expanded(t, x) = Null THEN Null
  ELSE IF TextLen(Expanded(t, x)) >= MaxSize THEN Null
  ELSE Expanded(t, x)

\* A text that stays in the sets S from round to round ends up in the last.
LEMMA ReplacedRec ==
  ASSUME NEW t, NEW v, NEW S, v \in S[0],
         \A n \in 1 .. MaxTokens : \A x \in S[n - 1] : Round(t, n, x) \in S[n]
  PROVE  Replaced(t, v) \in S[MaxTokens]
<1> DEFINE N == MaxTokens
           g == [n \in 1 .. N |-> [x \in S[n - 1] |-> Round(t, n, x)]]
           text[n \in 0 .. N] ==
             IF n = 0 THEN v
             ELSE LET before == text[n - 1]
                      after == Expanded(t, before)
                  IN  IF before = Null \/ ~HasRef(before) THEN before
                      ELSE IF n > MaxTokens - 2 \/ after = Null THEN Null
                      ELSE IF TextLen(after) >= MaxSize THEN Null
                      ELSE after
<1>1. N \in Nat
  BY IniAssumption
<1>2. PICK f : Solution(f, N, v, g, S)
  <2>1. \A n \in 1 .. N : \A x \in S[n - 1] : g[n][x] \in S[n]
    OBVIOUS
  <2>2. Recursion(N, v, g, S)
    BY <1>1, <2>1, Zenon DEF Recursion
  <2> HIDE DEF N, g, text
  <2> QED
    BY <2>2, RecSolved
<1> HIDE DEF N
<1>3. \A n \in 1 .. N : f[n] = Round(t, n, f[n - 1])
  <2> SUFFICES ASSUME NEW n \in 1 .. N PROVE f[n] = Round(t, n, f[n - 1])
    OBVIOUS
  <2>1. n \in 0 .. N /\ n - 1 \in 0 .. N /\ n # 0
    BY <1>1
  <2>2. f[n - 1] \in S[n - 1]
    BY <2>1, <1>2 DEF Solution
  <2>3. f[n] = g[n][f[n - 1]]
    <3> HIDE DEF g
    <3> QED
      BY <1>2, <2>1 DEF Solution
  <2> QED
    BY <2>2, <2>3
<1>4. f[0] = v /\ f = [n \in 0 .. N |-> f[n]] /\ f[N] \in S[N]
  BY <1>1, <1>2 DEF Solution
<1> HIDE DEF g
<1>5. f = [n \in 0 .. N |-> IF n = 0 THEN v ELSE Round(t, n, f[n - 1])]
  <2>1. \A n \in 0 .. N : f[n] = IF n = 0 THEN v ELSE Round(t, n, f[n - 1])
    <3> SUFFICES ASSUME NEW n \in 0 .. N, n # 0 PROVE f[n] = Round(t, n, f[n - 1])
      BY <1>4
    <3>1. n \in 1 .. N
      BY <1>1
    <3> QED
      BY <3>1, <1>3
  <2> QED
    BY <2>1, <1>4
<1>6. text = [n \in 0 .. N |-> IF n = 0 THEN v ELSE Round(t, n, text[n - 1])]
  BY <1>5, Zenon DEF Round
<1> HIDE DEF text
<1>7. \A n \in 0 .. N : text[n] = f[n]
  <2>1. text[0] = f[0]
    BY <1>1, <1>4, <1>6
  <2>2. \A n \in 1 .. N : text[n - 1] = f[n - 1] => text[n] = f[n]
    <3> SUFFICES ASSUME NEW n \in 1 .. N, text[n - 1] = f[n - 1] PROVE text[n] = f[n]
      OBVIOUS
    <3>1. n \in 0 .. N /\ n # 0
      BY <1>1
    <3>2. text[n] = Round(t, n, text[n - 1])
      BY <3>1, <1>6
    <3> QED
      BY <3>2, <1>3
  <2>3. Agree(text, f, N)
    BY <2>1, <2>2, Zenon DEF Agree
  <2> QED
    BY <1>1, <2>3, RecAgree
<1>8. Replaced(t, v) = text[N]
  BY Zenon DEF Replaced, text, N
<1>9. N \in 0 .. N
  BY <1>1
<1> QED
  BY <1>4, <1>7, <1>8, <1>9, Zenon DEF N

\* What holds of a value and is kept by find_token holds of what becomes of it.
LEMMA ReplacedKeeps ==
  ASSUME NEW t, NEW P, NEW v \in P,
         \A x \in P : HasRef(x) /\ Expanded(t, x) # Null => Expanded(t, x) \in P
  PROVE  Replaced(t, v) \in P \cup {Null}
<1> DEFINE Q == P \cup {Null}
           S == [n \in 0 .. MaxTokens |-> Q]
<1>1. MaxTokens \in Nat
  BY IniAssumption
<1>2. \A n \in 0 .. MaxTokens : S[n] = Q
  OBVIOUS
<1>3. v \in S[0]
  BY <1>1, <1>2
<1> HIDE DEF S
<1>4. \A n \in 1 .. MaxTokens : \A x \in S[n - 1] : Round(t, n, x) \in S[n]
  <2> SUFFICES ASSUME NEW n \in 1 .. MaxTokens, NEW x \in S[n - 1] PROVE Round(t, n, x) \in S[n]
    OBVIOUS
  <2>1. S[n - 1] = Q /\ S[n] = Q
    BY <1>1, <1>2
  <2>2. Round(t, n, x) = x \/ Round(t, n, x) = Null
          \/ (x # Null /\ HasRef(x) /\ Expanded(t, x) # Null /\ Round(t, n, x) = Expanded(t, x))
    BY Zenon DEF Round
  <2> QED
    BY <2>1, <2>2, Zenon
<1>5. Replaced(t, v) \in S[MaxTokens]
  BY <1>3, <1>4, ReplacedRec
<1>6. S[MaxTokens] = Q
  BY <1>1, <1>2
<1> QED
  BY <1>5, <1>6

\* The text that find_token makes is one.
LEMMA ExpandedText ==
  ASSUME NEW t \in TableType, NEW v \in Text, HasRef(v), Expanded(t, v) # Null
  PROVE  Expanded(t, v) \in Text
<1>1. PICK a \in Text, b \in Text, r \in Keys \cap Words :
        Expanded(t, v) = IF Len(t[r]) # 1 THEN Null ELSE (a \o t[r][1]) \o b
  BY ExpandedIs
<1>2. Len(t[r]) = 1
  BY <1>1
<1>3. t[r][1] \in Text
  BY <1>2, OneValue
<1>4. (a \o t[r][1]) \o b \in Text
  BY <1>3, ConcatText
<1> QED
  BY <1>1, <1>2, <1>4

\* What replace_in_line leaves is a text, or it fails.
LEMMA ReplacedText ==
  ASSUME NEW t \in TableType, NEW v \in Text
  PROVE  Replaced(t, v) \in Text \cup {Null}
BY ExpandedText, ReplacedKeeps

\* A value without references is left alone; one that was replaced has none.
LEMMA ReplacedPlain ==
  ASSUME NEW t, NEW v \in Text, ~HasRef(v)
  PROVE  Replaced(t, v) = v
<1>1. \A x \in {v} : HasRef(x) /\ Expanded(t, x) # Null => Expanded(t, x) \in {v}
  OBVIOUS
<1> DEFINE S == [n \in 0 .. MaxTokens |-> {v}]
<1>2. MaxTokens \in Nat /\ \A n \in 0 .. MaxTokens : S[n] = {v}
  BY IniAssumption
<1>3. v \in S[0]
  BY <1>2
<1> HIDE DEF S
<1>4. \A n \in 1 .. MaxTokens : \A x \in S[n - 1] : Round(t, n, x) \in S[n]
  <2> SUFFICES ASSUME NEW n \in 1 .. MaxTokens, NEW x \in S[n - 1] PROVE Round(t, n, x) \in S[n]
    OBVIOUS
  <2>1. S[n - 1] = {v} /\ S[n] = {v}
    BY <1>2
  <2>2. Round(t, n, v) = v
    BY Zenon DEF Round
  <2> QED
    BY <2>1, <2>2, Zenon
<1>5. Replaced(t, v) \in S[MaxTokens]
  BY <1>3, <1>4, ReplacedRec
<1>6. S[MaxTokens] = {v}
  BY <1>2
<1> QED
  BY <1>5, <1>6

\* In what replace_in_line leaves, nothing is left to replace.
LEMMA ReplacedEnds ==
  ASSUME NEW t \in TableType, NEW v \in Text, Replaced(t, v) # Null
  PROVE  Replaced(t, v) \in Text /\ ~HasRef(Replaced(t, v))
<1> DEFINE Q == Text \cup {Null}
           E == {x \in Q : x = Null \/ ~HasRef(x)}
           S == [n \in 0 .. MaxTokens |-> IF n = MaxTokens THEN E ELSE Q]
<1>1. MaxTokens \in Nat /\ MaxTokens # 0
  BY IniAssumption
<1>2. S[MaxTokens] = E /\ \A n \in 0 .. MaxTokens : n # MaxTokens => S[n] = Q
  BY <1>1
<1>3. v \in S[0]
  BY <1>1, <1>2
<1> HIDE DEF S
<1>4. \A n \in 1 .. MaxTokens : \A x \in S[n - 1] : Round(t, n, x) \in S[n]
  <2> SUFFICES ASSUME NEW n \in 1 .. MaxTokens, NEW x \in S[n - 1] PROVE Round(t, n, x) \in S[n]
    OBVIOUS
  <2>1. S[n - 1] = Q
    BY <1>1, <1>2
  <2>2. x = Null \/ x \in Text
    BY <2>1
  <2>3. CASE n = MaxTokens
    <3>1. S[n] = E /\ n > MaxTokens - 2
      BY <2>3, <1>1, <1>2
    <3>2. Round(t, n, x) = Null \/ (Round(t, n, x) = x /\ (x = Null \/ ~HasRef(x)))
      BY <3>1, Zenon DEF Round
    <3> QED
      BY <3>1, <3>2, <2>2, Zenon
  <2>4. CASE n # MaxTokens
    <3>1. S[n] = Q
      BY <2>4, <1>1, <1>2
    <3>2. Round(t, n, x) = x \/ Round(t, n, x) = Null
            \/ (x # Null /\ HasRef(x) /\ Expanded(t, x) # Null /\ Round(t, n, x) = Expanded(t, x))
      BY Zenon DEF Round
    <3> QED
      BY <3>1, <3>2, <2>2, ExpandedText, Zenon
  <2> QED
    BY <2>3, <2>4
<1>5. Replaced(t, v) \in E
  BY <1>2, <1>3, <1>4, ReplacedRec
<1> QED
  BY <1>5, Zenon

\* Keys that have not exactly one value or refer to one of their own kind: no
\* value that leads to them is ever written out.
Trap(t, B) == \A r \in B : Len(t[r]) = 1 => References(t[r][1]) \cap B # {}

\* replace_in_line gives up on a value that refers to such a key.
LEMMA Trapped ==
  ASSUME NEW t \in TableType, NEW B \in SUBSET Keys, Trap(t, B),
         NEW v \in Text, References(v) \cap B # {}
  PROVE  Replaced(t, v) = Null
<1> DEFINE P == {x \in Text : References(x) \cap B # {}}
<1>1. ASSUME NEW x \in P, HasRef(x), Expanded(t, x) # Null
      PROVE  Expanded(t, x) \in P
  <2>1. PICK a \in Text, b \in Text, r \in Keys \cap Words :
          /\ x = (a \o <<r>>) \o b
          /\ Expanded(t, x) = IF Len(t[r]) # 1 THEN Null ELSE (a \o t[r][1]) \o b
    BY <1>1, ExpandedIs
  <2>2. Len(t[r]) = 1 /\ Expanded(t, x) = (a \o t[r][1]) \o b
    BY <2>1, <1>1
  <2>3. t[r][1] \in Text /\ <<r>> \in Text
    BY <2>2, OneValue, WordText
  <2>4. References(x) = (References(a) \cup {r}) \cup References(b)
    <3>1. References(<<r>>) = {r}
      BY RefsWord
    <3>2. References(a \o <<r>>) = References(a) \cup {r} /\ a \o <<r>> \in Text
      BY <2>3, <3>1, RefsConcat, ConcatText
    <3> QED
      BY <2>1, <3>2, RefsConcat
  <2>5. References(Expanded(t, x)) = (References(a) \cup References(t[r][1])) \cup References(b)
    <3>1. References(a \o t[r][1]) = References(a) \cup References(t[r][1]) /\ a \o t[r][1] \in Text
      BY <2>3, RefsConcat, ConcatText
    <3> QED
      BY <2>2, <3>1, RefsConcat
  <2>6. References(Expanded(t, x)) \cap B # {}
    <3>1. r \in B => References(t[r][1]) \cap B # {}
      BY <2>2 DEF Trap
    <3>2. References(x) \cap B # {}
      OBVIOUS
    <3> QED
      BY <2>4, <2>5, <3>1, <3>2, Zenon
  <2> QED
    BY <2>6, <1>1, ExpandedText
<1>2. Replaced(t, v) \in P \cup {Null}
  <2>1. v \in P
    OBVIOUS
  <2> HIDE DEF P
  <2> QED
    BY <1>1, <2>1, ReplacedKeeps
<1> SUFFICES ASSUME Replaced(t, v) # Null PROVE FALSE
  OBVIOUS
<1>3. Replaced(t, v) \in Text /\ ~HasRef(Replaced(t, v))
  BY ReplacedEnds
<1>4. References(Replaced(t, v)) = {}
  BY <1>3, RefsOf
<1> QED
  BY <1>2, <1>4

\* If the value of every key with one value means what m says, a value that is
\* written out has become what it means.
Meaning(m, t) == \A r \in Keys : Len(t[r]) = 1 => m[r] = Subst(m, t[r][1])

\* Writing out keeps the meaning.
LEMMA ReplacedMeans ==
  ASSUME NEW t \in TableType, NEW m \in [Keys -> Text], Meaning(m, t),
         NEW v \in Text, Replaced(t, v) # Null
  PROVE  Replaced(t, v) = Subst(m, v)
<1> DEFINE P == {x \in Text : Subst(m, x) = Subst(m, v)}
<1>1. ASSUME NEW x \in P, HasRef(x), Expanded(t, x) # Null
      PROVE  Expanded(t, x) \in P
  <2>1. PICK a \in Text, b \in Text, r \in Keys \cap Words :
          /\ x = (a \o <<r>>) \o b
          /\ Expanded(t, x) = IF Len(t[r]) # 1 THEN Null ELSE (a \o t[r][1]) \o b
    BY <1>1, ExpandedIs
  <2>2. Len(t[r]) = 1 /\ Expanded(t, x) = (a \o t[r][1]) \o b
    BY <2>1, <1>1
  <2>3. t[r][1] \in Text /\ <<r>> \in Text
    BY <2>2, OneValue, WordText
  <2>4. Subst(m, x) = (Subst(m, a) \o m[r]) \o Subst(m, b)
    <3>1. Subst(m, <<r>>) = m[r]
      <4>1. Subst(m, <<r>>) = Piece(m, r) /\ r \in Keys
        BY SubstWord
      <4> QED
        BY <4>1, Zenon DEF Piece
    <3>2. Subst(m, a \o <<r>>) = Subst(m, a) \o Subst(m, <<r>>)
      BY <2>3, SubstConcat
    <3>3. a \o <<r>> \in Text
      BY <2>3, ConcatText
    <3>4. Subst(m, (a \o <<r>>) \o b) = Subst(m, a \o <<r>>) \o Subst(m, b)
      BY <3>3, SubstConcat
    <3> QED
      BY <2>1, <3>1, <3>2, <3>4, Zenon
  <2>5. Subst(m, Expanded(t, x)) = (Subst(m, a) \o Subst(m, t[r][1])) \o Subst(m, b)
    <3>1. Subst(m, a \o t[r][1]) = Subst(m, a) \o Subst(m, t[r][1])
      BY <2>3, SubstConcat
    <3>2. a \o t[r][1] \in Text
      BY <2>3, ConcatText
    <3>3. Subst(m, (a \o t[r][1]) \o b) = Subst(m, a \o t[r][1]) \o Subst(m, b)
      BY <3>2, SubstConcat
    <3> QED
      BY <2>2, <3>1, <3>3, Zenon
  <2>6. m[r] = Subst(m, t[r][1])
    BY <2>2 DEF Meaning
  <2>7. Subst(m, Expanded(t, x)) = Subst(m, v)
    BY <1>1, <2>4, <2>5, <2>6
  <2> QED
    BY <2>7, <1>1, ExpandedText
<1>2. Replaced(t, v) \in P \cup {Null}
  <2>1. v \in P
    OBVIOUS
  <2> HIDE DEF P
  <2> QED
    BY <1>1, <2>1, ReplacedKeeps
<1>3. Subst(m, Replaced(t, v)) = Subst(m, v)
  BY <1>2
<1>4. Replaced(t, v) \in Text /\ ~HasRef(Replaced(t, v))
  BY ReplacedEnds
<1>5. Subst(m, Replaced(t, v)) = Replaced(t, v)
  BY <1>4, SubstPlain
<1> QED
  BY <1>3, <1>5

-----------------------------------------------------------------------------
\* add_key_value and the loops of replace_var

\* One round of each loop.
AddLine(file, n, x) == [x EXCEPT ![file[n].key] = Append(@, file[n].val)]

ReplaceValue(k, i, x) ==
  IF x = NullTable \/ Replaced(x, x[k][i]) = Null THEN NullTable
  ELSE [x EXCEPT ![k][i] = Replaced(x, x[k][i])]

ReplaceLine(file, n, x) ==
  IF x = NullTable \/ \E m \in 1 .. (n - 1) : file[m].key = file[n].key THEN x
  ELSE ReplaceKey(x, file[n].key)

NoValues == [k \in Keys |-> << >>]

\* As with ReplacedRec: what the rounds keep, the loop does.
LEMMA TableRec ==
  ASSUME NEW file, Len(file) \in Nat, NEW S, NoValues \in S[0],
         \A n \in 1 .. Len(file) : \A x \in S[n - 1] : AddLine(file, n, x) \in S[n]
  PROVE  Table(file) \in S[Len(file)]
<1> DEFINE N == Len(file)
           g == [n \in 1 .. N |-> [x \in S[n - 1] |-> AddLine(file, n, x)]]
           table[n \in 0 .. N] ==
             IF n = 0 THEN [k \in Keys |-> << >>]
             ELSE [table[n - 1] EXCEPT ![file[n].key] = Append(@, file[n].val)]
<1>1. N \in Nat
  OBVIOUS
<1>2. PICK f : Solution(f, N, NoValues, g, S)
  <2>1. \A n \in 1 .. N : \A x \in S[n - 1] : g[n][x] \in S[n]
    OBVIOUS
  <2>2. Recursion(N, NoValues, g, S)
    BY <1>1, <2>1, Zenon DEF Recursion
  <2> HIDE DEF N, g, table
  <2> QED
    BY <2>2, RecSolved
<1> HIDE DEF N
<1>3. \A n \in 1 .. N : f[n] = AddLine(file, n, f[n - 1])
  <2> SUFFICES ASSUME NEW n \in 1 .. N PROVE f[n] = AddLine(file, n, f[n - 1])
    OBVIOUS
  <2>1. n \in 0 .. N /\ n - 1 \in 0 .. N /\ n # 0
    BY <1>1
  <2>2. f[n - 1] \in S[n - 1]
    BY <2>1, <1>2 DEF Solution
  <2>3. f[n] = g[n][f[n - 1]]
    <3> HIDE DEF g
    <3> QED
      BY <1>2, <2>1 DEF Solution
  <2> QED
    BY <2>2, <2>3
<1>4. f[0] = NoValues /\ f = [n \in 0 .. N |-> f[n]] /\ f[N] \in S[N]
  BY <1>1, <1>2 DEF Solution
<1> HIDE DEF g
<1>5. f = [n \in 0 .. N |-> IF n = 0 THEN NoValues ELSE AddLine(file, n, f[n - 1])]
  <2>1. \A n \in 0 .. N : f[n] = IF n = 0 THEN NoValues ELSE AddLine(file, n, f[n - 1])
    <3> SUFFICES ASSUME NEW n \in 0 .. N, n # 0 PROVE f[n] = AddLine(file, n, f[n - 1])
      BY <1>4
    <3>1. n \in 1 .. N
      BY <1>1
    <3> QED
      BY <3>1, <1>3
  <2> QED
    BY <2>1, <1>4
<1>6. table = [n \in 0 .. N |-> IF n = 0 THEN NoValues ELSE AddLine(file, n, table[n - 1])]
  BY <1>5, Zenon DEF AddLine, NoValues
<1> HIDE DEF table
<1>7. \A n \in 0 .. N : table[n] = f[n]
  <2>1. table[0] = f[0]
    BY <1>1, <1>4, <1>6
  <2>2. \A n \in 1 .. N : table[n - 1] = f[n - 1] => table[n] = f[n]
    <3> SUFFICES ASSUME NEW n \in 1 .. N, table[n - 1] = f[n - 1] PROVE table[n] = f[n]
      OBVIOUS
    <3>1. n \in 0 .. N /\ n # 0
      BY <1>1
    <3>2. table[n] = AddLine(file, n, table[n - 1])
      BY <3>1, <1>6
    <3> QED
      BY <3>2, <1>3
  <2>3. Agree(table, f, N)
    BY <2>1, <2>2, Zenon DEF Agree
  <2> QED
    BY <1>1, <2>3, RecAgree
<1>8. Table(file) = table[N]
  BY Zenon DEF Table, table, N
<1>9. N \in 0 .. N
  BY <1>1
<1> QED
  BY <1>4, <1>7, <1>8, <1>9, Zenon DEF N

\* The loop over the values of a key keeps what each of its steps keeps.
LEMMA KeyRec ==
  ASSUME NEW t, NEW k, Len(t[k]) \in Nat, NEW S, t \in S[0],
         \A n \in 1 .. Len(t[k]) : \A x \in S[n - 1] : ReplaceValue(k, n, x) \in S[n]
  PROVE  ReplaceKey(t, k) \in S[Len(t[k])]
<1> DEFINE N == Len(t[k])
           g == [n \in 1 .. N |-> [x \in S[n - 1] |-> ReplaceValue(k, n, x)]]
           done[i \in 0 .. N] ==
             IF i = 0 THEN t
             ELSE LET before == done[i - 1]
                      val == Replaced(before, before[k][i])
                  IN  IF before = NullTable \/ val = Null THEN NullTable
                      ELSE [before EXCEPT ![k][i] = val]
<1>1. N \in Nat
  OBVIOUS
<1>2. PICK f : Solution(f, N, t, g, S)
  <2>1. \A n \in 1 .. N : \A x \in S[n - 1] : g[n][x] \in S[n]
    OBVIOUS
  <2>2. Recursion(N, t, g, S)
    BY <1>1, <2>1, Zenon DEF Recursion
  <2> HIDE DEF N, g, done
  <2> QED
    BY <2>2, RecSolved
<1> HIDE DEF N
<1>3. \A n \in 1 .. N : f[n] = ReplaceValue(k, n, f[n - 1])
  <2> SUFFICES ASSUME NEW n \in 1 .. N PROVE f[n] = ReplaceValue(k, n, f[n - 1])
    OBVIOUS
  <2>1. n \in 0 .. N /\ n - 1 \in 0 .. N /\ n # 0
    BY <1>1
  <2>2. f[n - 1] \in S[n - 1]
    BY <2>1, <1>2 DEF Solution
  <2>3. f[n] = g[n][f[n - 1]]
    <3> HIDE DEF g
    <3> QED
      BY <1>2, <2>1 DEF Solution
  <2> QED
    BY <2>2, <2>3
<1>4. f[0] = t /\ f = [n \in 0 .. N |-> f[n]] /\ f[N] \in S[N]
  BY <1>1, <1>2 DEF Solution
<1> HIDE DEF g
<1>5. f = [n \in 0 .. N |-> IF n = 0 THEN t ELSE ReplaceValue(k, n, f[n - 1])]
  <2>1. \A n \in 0 .. N : f[n] = IF n = 0 THEN t ELSE ReplaceValue(k, n, f[n - 1])
    <3> SUFFICES ASSUME NEW n \in 0 .. N, n # 0 PROVE f[n] = ReplaceValue(k, n, f[n - 1])
      BY <1>4
    <3>1. n \in 1 .. N
      BY <1>1
    <3> QED
      BY <3>1, <1>3
  <2> QED
    BY <2>1, <1>4
<1>6. done = [n \in 0 .. N |-> IF n = 0 THEN t ELSE ReplaceValue(k, n, done[n - 1])]
  BY <1>5, Zenon DEF ReplaceValue
<1> HIDE DEF done
<1>7. \A n \in 0 .. N : done[n] = f[n]
  <2>1. done[0] = f[0]
    BY <1>1, <1>4, <1>6
  <2>2. \A n \in 1 .. N : done[n - 1] = f[n - 1] => done[n] = f[n]
    <3> SUFFICES ASSUME NEW n \in 1 .. N, done[n - 1] = f[n - 1] PROVE done[n] = f[n]
      OBVIOUS
    <3>1. n \in 0 .. N /\ n # 0
      BY <1>1
    <3>2. done[n] = ReplaceValue(k, n, done[n - 1])
      BY <3>1, <1>6
    <3> QED
      BY <3>2, <1>3
  <2>3. Agree(done, f, N)
    BY <2>1, <2>2, Zenon DEF Agree
  <2> QED
    BY <1>1, <2>3, RecAgree
<1>8. ReplaceKey(t, k) = done[N]
  BY Zenon DEF ReplaceKey, done, N
<1>9. N \in 0 .. N
  BY <1>1
<1> QED
  BY <1>4, <1>7, <1>8, <1>9, Zenon DEF N

\* The loop over the lines of the file keeps what each of its steps keeps.
LEMMA LoadRec ==
  ASSUME NEW file, Len(file) \in Nat, NEW S, Table(file) \in S[0],
         \A n \in 1 .. Len(file) : \A x \in S[n - 1] : ReplaceLine(file, n, x) \in S[n]
  PROVE  ini_load(file) \in S[Len(file)]
<1> DEFINE N == Len(file)
           g == [n \in 1 .. N |-> [x \in S[n - 1] |-> ReplaceLine(file, n, x)]]
           done[n \in 0 .. N] ==
             IF n = 0 THEN Table(file)
             ELSE LET before == done[n - 1]
                      seen == \E m \in 1 .. (n - 1) : file[m].key = file[n].key
                  IN  IF before = NullTable \/ seen THEN before
                      ELSE ReplaceKey(before, file[n].key)
<1>1. N \in Nat
  OBVIOUS
<1>2. PICK f : Solution(f, N, Table(file), g, S)
  <2>1. \A n \in 1 .. N : \A x \in S[n - 1] : g[n][x] \in S[n]
    OBVIOUS
  <2>2. Recursion(N, Table(file), g, S)
    BY <1>1, <2>1, Zenon DEF Recursion
  <2> HIDE DEF N, g, done
  <2> QED
    BY <2>2, RecSolved
<1> HIDE DEF N
<1>3. \A n \in 1 .. N : f[n] = ReplaceLine(file, n, f[n - 1])
  <2> SUFFICES ASSUME NEW n \in 1 .. N PROVE f[n] = ReplaceLine(file, n, f[n - 1])
    OBVIOUS
  <2>1. n \in 0 .. N /\ n - 1 \in 0 .. N /\ n # 0
    BY <1>1
  <2>2. f[n - 1] \in S[n - 1]
    BY <2>1, <1>2 DEF Solution
  <2>3. f[n] = g[n][f[n - 1]]
    <3> HIDE DEF g
    <3> QED
      BY <1>2, <2>1 DEF Solution
  <2> QED
    BY <2>2, <2>3
<1>4. f[0] = Table(file) /\ f = [n \in 0 .. N |-> f[n]] /\ f[N] \in S[N]
  BY <1>1, <1>2 DEF Solution
<1> HIDE DEF g
<1>5. f = [n \in 0 .. N |-> IF n = 0 THEN Table(file) ELSE ReplaceLine(file, n, f[n - 1])]
  <2>1. \A n \in 0 .. N : f[n] = IF n = 0 THEN Table(file) ELSE ReplaceLine(file, n, f[n - 1])
    <3> SUFFICES ASSUME NEW n \in 0 .. N, n # 0 PROVE f[n] = ReplaceLine(file, n, f[n - 1])
      BY <1>4
    <3>1. n \in 1 .. N
      BY <1>1
    <3> QED
      BY <3>1, <1>3
  <2> QED
    BY <2>1, <1>4
<1>6. done = [n \in 0 .. N |-> IF n = 0 THEN Table(file) ELSE ReplaceLine(file, n, done[n - 1])]
  BY <1>5, Zenon DEF ReplaceLine
<1> HIDE DEF done
<1>7. \A n \in 0 .. N : done[n] = f[n]
  <2>1. done[0] = f[0]
    BY <1>1, <1>4, <1>6
  <2>2. \A n \in 1 .. N : done[n - 1] = f[n - 1] => done[n] = f[n]
    <3> SUFFICES ASSUME NEW n \in 1 .. N, done[n - 1] = f[n - 1] PROVE done[n] = f[n]
      OBVIOUS
    <3>1. n \in 0 .. N /\ n # 0
      BY <1>1
    <3>2. done[n] = ReplaceLine(file, n, done[n - 1])
      BY <3>1, <1>6
    <3> QED
      BY <3>2, <1>3
  <2>3. Agree(done, f, N)
    BY <2>1, <2>2, Zenon DEF Agree
  <2> QED
    BY <1>1, <2>3, RecAgree
<1>8. ini_load(file) = done[N]
  BY Zenon DEF ini_load, ReplaceVar, done, N
<1>9. N \in 0 .. N
  BY <1>1
<1> QED
  BY <1>4, <1>7, <1>8, <1>9, Zenon DEF N

-----------------------------------------------------------------------------
\* Tables

\* A table of values is not what stands for no table.
LEMMA TableNotNull ==
  ASSUME NEW t \in TableType
  PROVE  t # NullTable
<1> SUFFICES ASSUME t = NullTable PROVE FALSE
  OBVIOUS
<1>1. PICK k \in Keys : TRUE
  BY IniAssumption
<1>2. t[k] = <<Null>>
  BY DEF NullTable
<1>3. Len(t[k]) = 1 /\ t[k][1] = Null
  BY <1>2
<1>4. t[k][1] \in Text
  BY <1>3, OneValue
<1> QED
  BY <1>3, <1>4, TextIs

\* A table with one value changed.
WithValue(u, t, k, i, v) ==
  /\ u \in TableType
  /\ \A q \in Keys : Len(u[q]) = Len(t[q])
  /\ u[k][i] = v
  /\ \A q \in Keys : \A j \in 1 .. Len(t[q]) : q # k \/ j # i => u[q][j] = t[q][j]

\* An assignment to one value does this.
LEMMA SetValue ==
  ASSUME NEW t \in TableType, NEW k \in Keys, NEW i \in 1 .. Len(t[k]), NEW v \in Text
  PROVE  WithValue([t EXCEPT ![k][i] = v], t, k, i, v)
<1> DEFINE u == [t EXCEPT ![k][i] = v]
           s == [t[k] EXCEPT ![i] = v]
<1>1. t[k] \in Seq(Text)
  BY DEF TableType
<1>2. s \in Seq(Text) /\ Len(s) = Len(t[k])
  BY <1>1, ExceptSeq
<1>3. \A j \in 1 .. Len(t[k]) : s[j] = IF j = i THEN v ELSE t[k][j]
  BY <1>1, ExceptSeq
<1>4. u = [t EXCEPT ![k] = s]
  OBVIOUS
<1>5. u[k] = s /\ \A q \in Keys : q # k => u[q] = t[q]
  <2> HIDE DEF s
  <2> QED
    BY <1>4 DEF TableType
<1>6. u \in TableType
  <2> HIDE DEF s
  <2> QED
    BY <1>2, <1>4 DEF TableType
<1> HIDE DEF u, s
<1>7. \A q \in Keys : Len(u[q]) = Len(t[q])
  BY <1>2, <1>5
<1>8. u[k][i] = v
  BY <1>3, <1>5
<1>9. ASSUME NEW q \in Keys, NEW j \in 1 .. Len(t[q]), q # k \/ j # i
      PROVE  u[q][j] = t[q][j]
  <2>1. CASE q # k
    BY <2>1, <1>5
  <2>2. CASE q = k
    BY <2>2, <1>9, <1>3, <1>5
  <2> QED
    BY <2>1, <2>2
<1>10. \A q \in Keys : \A j \in 1 .. Len(t[q]) : q # k \/ j # i => u[q][j] = t[q][j]
  BY <1>9
<1>11. WithValue(u, t, k, i, v)
  BY <1>6, <1>7, <1>8, <1>10, Zenon DEF WithValue
<1> QED
  BY <1>11 DEF u

\* The values of a key are those of its lines.
LEMMA TableIs ==
  ASSUME NEW file \in Seq(Lines)
  PROVE  /\ Table(file) \in TableType
         /\ \A k \in Keys : \A i \in 1 .. Len(Table(file)[k]) :
              \E j \in 1 .. Len(file) : file[j].key = k /\ file[j].val = Table(file)[k][i]
<1> DEFINE N == Len(file)
           From(n, k, v) == \E j \in 1 .. n : file[j].key = k /\ file[j].val = v
           Q(n) == {x \in TableType : \A k \in Keys : \A i \in 1 .. Len(x[k]) : From(n, k, x[k][i])}
           S == [n \in 0 .. N |-> Q(n)]
<1>1. N \in Nat /\ \A n \in 1 .. N : file[n] \in Lines
  BY LenProperties, ElementOfSeq
<1>2. \A n \in 1 .. N : file[n].key \in Keys /\ file[n].val \in Text
  BY <1>1 DEF Lines
<1> HIDE DEF N
<1>3. NoValues \in S[0]
  <2>1. NoValues \in TableType
    BY DEF NoValues, TableType
  <2>2. \A k \in Keys : Len(NoValues[k]) = 0
    BY DEF NoValues
  <2>3. \A k \in Keys : \A i \in 1 .. Len(NoValues[k]) : FALSE
    BY <2>2
  <2>4. NoValues \in Q(0)
    BY <2>1, <2>3, Zenon
  <2> HIDE DEF Q
  <2> QED
    BY <1>1, <2>4
<1>4. ASSUME NEW n \in 1 .. N, NEW x \in S[n - 1]
      PROVE  AddLine(file, n, x) \in S[n]
  <2> DEFINE k == file[n].key
             v == file[n].val
             s == Append(x[k], v)
             y == [x EXCEPT ![k] = s]
  <2>1. S[n - 1] = Q(n - 1) /\ S[n] = Q(n)
    <3>1. n - 1 \in 0 .. N /\ n \in 0 .. N
      BY <1>1
    <3> HIDE DEF Q
    <3> QED
      BY <3>1
  <2> HIDE DEF S
  <2>2. x \in TableType /\ \A q \in Keys : \A i \in 1 .. Len(x[q]) : From(n - 1, q, x[q][i])
    BY <2>1, Zenon
  <2>3. k \in Keys /\ v \in Text
    BY <1>2
  <2>4. x[k] \in Seq(Text) /\ Len(x[k]) \in Nat
    BY <2>2, <2>3, LenProperties DEF TableType
  <2>5. /\ s \in Seq(Text)
        /\ Len(s) = Len(x[k]) + 1
        /\ \A i \in 1 .. Len(x[k]) : s[i] = x[k][i]
        /\ s[Len(x[k]) + 1] = v
    BY <2>3, <2>4, AppendProperties
  <2>6. AddLine(file, n, x) = y
    BY Zenon DEF AddLine
  <2> HIDE DEF s
  <2>7. y \in TableType /\ y[k] = s /\ \A q \in Keys : q # k => y[q] = x[q]
    BY <2>2, <2>3, <2>5 DEF TableType
  <2>8. \A q, w : From(n - 1, q, w) => From(n, q, w)
    <3>1. \A j \in 1 .. (n - 1) : j \in 1 .. n
      BY <1>1
    <3> QED
      BY <3>1, Zenon
  <2>9. From(n, k, v)
    <3>1. n \in 1 .. n
      BY <1>1
    <3> QED
      BY <3>1, Zenon
  <2> HIDE DEF From, y, k, v
  <2>10. \A i \in 1 .. Len(s) : From(n, k, s[i])
    <3> SUFFICES ASSUME NEW i \in 1 .. Len(s) PROVE From(n, k, s[i])
      OBVIOUS
    <3>1. CASE i \in 1 .. Len(x[k])
      <4>1. s[i] = x[k][i] /\ From(n - 1, k, x[k][i])
        BY <3>1, <2>2, <2>3, <2>5, Zenon
      <4> QED
        BY <4>1, <2>8, Zenon
    <3>2. CASE i \notin 1 .. Len(x[k])
      <4>1. i = Len(x[k]) + 1
        BY <3>2, <2>4, <2>5
      <4> QED
        BY <4>1, <2>5, <2>9, Zenon
    <3> QED
      BY <3>1, <3>2
  <2>11. \A q \in Keys : \A i \in 1 .. Len(y[q]) : From(n, q, y[q][i])
    <3> SUFFICES ASSUME NEW q \in Keys PROVE \A i \in 1 .. Len(y[q]) : From(n, q, y[q][i])
      OBVIOUS
    <3>1. CASE q = k
      BY <3>1, <2>7, <2>10, Zenon
    <3>2. CASE q # k
      <4>1. y[q] = x[q]
        BY <3>2, <2>7
      <4> QED
        BY <4>1, <2>2, <2>8, Zenon
    <3> QED
      BY <3>1, <3>2
  <2> QED
    BY <2>1, <2>6, <2>7, <2>11, Zenon
<1>5. Table(file) \in S[N]
  <2> HIDE DEF S
  <2> QED
    BY <1>1, <1>3, <1>4, TableRec DEF N
<1>6. S[N] = Q(N)
  <2> HIDE DEF Q
  <2> QED
    BY <1>1
<1>7. Table(file) \in Q(N)
  BY <1>5, <1>6, Zenon
<1> QED
  BY <1>7, Zenon DEF N

-----------------------------------------------------------------------------
\* replace_var

\* Tables that replace_in_line makes of each other, and what stands for no table
\* if it can fail on one of them.
Closed(P) ==
  \A t \in P : \A k \in Keys : \A i \in 1 .. Len(t[k]) :
    Replaced(t, t[k][i]) # Null => [t EXCEPT ![k][i] = Replaced(t, t[k][i])] \in P

Fail(P) ==
  {x \in {NullTable} :
     \E t \in P : \E k \in Keys : \E i \in 1 .. Len(t[k]) : Replaced(t, t[k][i]) = Null}

\* All values of k are written out.
Plain(t, k) == \A i \in 1 .. Len(t[k]) : ~HasRef(t[k][i])

\* One round of the inner loop.
LEMMA ValueKeeps ==
  ASSUME NEW P \in SUBSET TableType, Closed(P), NEW t \in P, NEW k \in Keys, NEW i \in 1 .. Len(t[k])
  PROVE  \/ ReplaceValue(k, i, t) \in Fail(P)
         \/ LET u == ReplaceValue(k, i, t)
            IN  /\ u \in P
                /\ \A q \in Keys : Len(u[q]) = Len(t[q])
                /\ ~HasRef(u[k][i])
                /\ \A q \in Keys : \A j \in 1 .. Len(t[q]) : q # k \/ j # i => u[q][j] = t[q][j]
<1> DEFINE v == Replaced(t, t[k][i])
           u == [t EXCEPT ![k][i] = v]
<1>1. t \in TableType /\ t # NullTable
  BY TableNotNull
<1>2. CASE v = Null
  <2>1. ReplaceValue(k, i, t) = NullTable
    BY <1>2, Zenon DEF ReplaceValue
  <2> QED
    BY <1>2, <2>1, Zenon DEF Fail
<1>3. CASE v # Null
  <2>1. ReplaceValue(k, i, t) = u
    BY <1>1, <1>3, Zenon DEF ReplaceValue
  <2>2. u \in P
    BY <1>3, Zenon DEF Closed
  <2>3. t[k][i] \in Text
    BY <1>1, OneValue
  <2>4. v \in Text /\ ~HasRef(v)
    BY <1>1, <1>3, <2>3, ReplacedEnds
  <2>5. WithValue(u, t, k, i, v)
    <3> HIDE DEF v
    <3> QED
      BY <1>1, <2>4, SetValue
  <2> HIDE DEF u, v
  <2>6. /\ \A q \in Keys : Len(u[q]) = Len(t[q])
        /\ u[k][i] = v
        /\ \A q \in Keys : \A j \in 1 .. Len(t[q]) : q # k \/ j # i => u[q][j] = t[q][j]
    BY <2>5, Zenon DEF WithValue
  <2> QED
    BY <2>1, <2>2, <2>4, <2>6, Zenon
<1> QED
  BY <1>2, <1>3

\* The inner loop writes out all values of its key and no others.
LEMMA KeyKeeps ==
  ASSUME NEW P \in SUBSET TableType, Closed(P), NEW t \in P, NEW k \in Keys
  PROVE  \/ ReplaceKey(t, k) \in Fail(P)
         \/ LET u == ReplaceKey(t, k)
            IN  /\ u \in P
                /\ \A q \in Keys : Len(u[q]) = Len(t[q])
                /\ Plain(u, k)
                /\ \A q \in Keys : Plain(t, q) => Plain(u, q)
<1> DEFINE N == Len(t[k])
           Others(u) == \A q \in Keys : Plain(t, q) => Plain(u, q)
           Done(n, u) == \A i \in 1 .. n : ~HasRef(u[k][i])
           Q(n) == {u \in P : (\A q \in Keys : Len(u[q]) = Len(t[q])) /\ Others(u) /\ Done(n, u)}
           S == [n \in 0 .. N |-> Q(n) \cup Fail(P)]
<1>1. N \in Nat
  BY OneValue
<1>2. t \in S[0]
  <2>1. Done(0, t)
    <3>1. \A i \in 1 .. 0 : FALSE
      OBVIOUS
    <3> QED
      BY <3>1, Zenon
  <2>2. t \in Q(0)
    BY <2>1, Zenon
  <2> HIDE DEF Q, N
  <2> QED
    BY <1>1, <2>2
<1>3. \A n \in 0 .. N : S[n] = Q(n) \cup Fail(P)
  <2> HIDE DEF Q, N
  <2> QED
    OBVIOUS
<1> HIDE DEF S
<1>4. ASSUME NEW n \in 1 .. N, NEW x \in S[n - 1]
      PROVE  ReplaceValue(k, n, x) \in S[n]
  <2>1. S[n - 1] = Q(n - 1) \cup Fail(P) /\ S[n] = Q(n) \cup Fail(P)
    <3>1. n - 1 \in 0 .. N /\ n \in 0 .. N
      BY <1>1
    <3> HIDE DEF Q, N
    <3> QED
      BY <3>1, <1>3
  <2>2. CASE x \in Fail(P)
    <3>1. x = NullTable
      BY <2>2, Zenon DEF Fail
    <3>2. ReplaceValue(k, n, x) = NullTable
      BY <3>1, Zenon DEF ReplaceValue
    <3> QED
      BY <2>1, <2>2, <3>1, <3>2, Zenon
  <2>3. CASE x \in Q(n - 1)
    <3>1. x \in P /\ (\A q \in Keys : Len(x[q]) = Len(t[q])) /\ Others(x) /\ Done(n - 1, x)
      BY <2>3, Zenon
    <3>2. n \in 1 .. Len(x[k])
      BY <3>1
    <3> DEFINE u == ReplaceValue(k, n, x)
    <3> HIDE DEF u
    <3>3. CASE u \notin Fail(P)
      <4>1. /\ u \in P
            /\ \A q \in Keys : Len(u[q]) = Len(x[q])
            /\ ~HasRef(u[k][n])
            /\ \A q \in Keys : \A j \in 1 .. Len(x[q]) : q # k \/ j # n => u[q][j] = x[q][j]
        BY <3>1, <3>2, <3>3, ValueKeeps, Zenon DEF u
      <4>2. \A q \in Keys : Len(u[q]) = Len(t[q])
        BY <3>1, <4>1, Zenon
      <4>3. ASSUME NEW q \in Keys, Plain(x, q)
            PROVE  Plain(u, q)
        <5> SUFFICES ASSUME NEW j \in 1 .. Len(u[q]) PROVE ~HasRef(u[q][j])
          BY Zenon DEF Plain
        <5>1. j \in 1 .. Len(x[q])
          BY <4>1
        <5>2. ~HasRef(x[q][j])
          BY <4>3, <5>1, Zenon DEF Plain
        <5> QED
          BY <4>1, <5>1, <5>2, Zenon
      <4>4. Others(u)
        BY <3>1, <4>3, Zenon
      <4>5. Done(n, u)
        <5> SUFFICES ASSUME NEW i \in 1 .. n PROVE ~HasRef(u[k][i])
          BY Zenon
        <5>1. CASE i = n
          BY <5>1, <4>1
        <5>2. CASE i # n
          <6>1. i \in 1 .. (n - 1) /\ i \in 1 .. Len(x[k])
            BY <5>2, <3>1, <1>1
          <6>2. ~HasRef(x[k][i])
            BY <6>1, <3>1, Zenon
          <6> QED
            BY <5>2, <6>1, <6>2, <4>1, Zenon
        <5> QED
          BY <5>1, <5>2
      <4>6. u \in Q(n)
        BY <4>1, <4>2, <4>4, <4>5, Zenon
      <4> QED
        BY <2>1, <4>6, Zenon DEF u
    <3> QED
      BY <2>1, <3>3, Zenon DEF u
  <2> QED
    BY <2>1, <2>2, <2>3, Zenon
<1>5. ReplaceKey(t, k) \in S[N]
  BY <1>1, <1>2, <1>4, KeyRec DEF N
<1>6. S[N] = Q(N) \cup Fail(P)
  <2>1. N \in 0 .. N
    BY <1>1
  <2> HIDE DEF N, Q
  <2> QED
    BY <2>1, <1>3
<1>7. CASE ReplaceKey(t, k) \notin Fail(P)
  <2> DEFINE u == ReplaceKey(t, k)
  <2> HIDE DEF u
  <2>1. u \in P /\ (\A q \in Keys : Len(u[q]) = Len(t[q])) /\ Others(u) /\ Done(N, u)
    BY <1>5, <1>6, <1>7, Zenon DEF u
  <2>2. Plain(u, k)
    <3>1. Len(u[k]) = N
      BY <2>1, Zenon
    <3> QED
      BY <2>1, <3>1, Zenon DEF Plain
  <2> QED
    BY <2>1, <2>2, Zenon DEF u
<1> QED
  BY <1>7

\* ini_load writes out all values of all keys.
Written(u, file) ==
  /\ \A q \in Keys : Len(u[q]) = Len(Table(file)[q])
  /\ \A q \in Keys : Plain(u, q)

\* It keeps what the assignments keep, up to the end or to the failure.
LEMMA LoadKeeps ==
  ASSUME NEW file \in Seq(Lines), NEW P \in SUBSET TableType, Closed(P), Table(file) \in P
  PROVE  \/ ini_load(file) \in Fail(P)
         \/ ini_load(file) \in P /\ Written(ini_load(file), file)
<1> DEFINE N == Len(file)
           raw == Table(file)
           Same(u) == \A q \in Keys : Len(u[q]) = Len(raw[q])
           Done(n, u) == \A j \in 1 .. n : Plain(u, file[j].key)
           Q(n) == {u \in P : Same(u) /\ Done(n, u)}
           S == [n \in 0 .. N |-> Q(n) \cup Fail(P)]
<1>1. N \in Nat /\ \A n \in 1 .. N : file[n].key \in Keys
  <2>1. N \in Nat /\ \A n \in 1 .. N : file[n] \in Lines
    BY LenProperties, ElementOfSeq
  <2> QED
    BY <2>1 DEF Lines
<1>2. raw \in S[0]
  <2>1. Done(0, raw)
    <3>1. \A i \in 1 .. 0 : FALSE
      OBVIOUS
    <3> QED
      BY <3>1, Zenon
  <2>2. raw \in Q(0)
    BY <2>1, Zenon
  <2> HIDE DEF Q, N, raw
  <2> QED
    BY <1>1, <2>2
<1>3. \A n \in 0 .. N : S[n] = Q(n) \cup Fail(P)
  <2> HIDE DEF Q, N
  <2> QED
    OBVIOUS
<1> HIDE DEF S
<1>4. ASSUME NEW n \in 1 .. N, NEW x \in S[n - 1]
      PROVE  ReplaceLine(file, n, x) \in S[n]
  <2> DEFINE k == file[n].key
             seen == \E m \in 1 .. (n - 1) : file[m].key = k
  <2>0. k \in Keys
    BY <1>1
  <2>1. S[n - 1] = Q(n - 1) \cup Fail(P) /\ S[n] = Q(n) \cup Fail(P)
    <3>1. n - 1 \in 0 .. N /\ n \in 0 .. N
      BY <1>1
    <3> HIDE DEF Q, N
    <3> QED
      BY <3>1, <1>3
  <2>2. CASE x \in Fail(P)
    <3>1. x = NullTable
      BY <2>2, Zenon DEF Fail
    <3>2. ReplaceLine(file, n, x) = x
      BY <3>1, Zenon DEF ReplaceLine
    <3> QED
      BY <2>1, <2>2, <3>2, Zenon
  <2>3. CASE x \in Q(n - 1)
    <3>1. x \in P /\ Same(x) /\ Done(n - 1, x)
      BY <2>3, Zenon
    <3>2. x # NullTable
      BY <3>1, TableNotNull
    <3>3. \A j \in 1 .. n : j = n \/ j \in 1 .. (n - 1)
      BY <1>1
    <3>4. CASE seen
      <4>1. ReplaceLine(file, n, x) = x
        BY <3>4, Zenon DEF ReplaceLine
      <4>2. Plain(x, k)
        BY <3>1, <3>4, Zenon
      <4>3. Done(n, x)
        BY <3>1, <3>3, <4>2, Zenon
      <4>4. x \in Q(n)
        BY <3>1, <4>3, Zenon
      <4> QED
        BY <2>1, <4>1, <4>4, Zenon
    <3>5. CASE ~seen
      <4> DEFINE u == ReplaceKey(x, k)
      <4>1. ReplaceLine(file, n, x) = u
        BY <3>2, <3>5, Zenon DEF ReplaceLine
      <4> HIDE DEF u
      <4>2. CASE u \notin Fail(P)
        <5>1. /\ u \in P
              /\ \A q \in Keys : Len(u[q]) = Len(x[q])
              /\ Plain(u, k)
              /\ \A q \in Keys : Plain(x, q) => Plain(u, q)
          <6> HIDE DEF k
          <6> QED
            BY <2>0, <3>1, <4>2, KeyKeeps, Zenon DEF u
        <5>2. Same(u)
          BY <3>1, <5>1, Zenon
        <5>3. Done(n, u)
          <6>1. \A j \in 1 .. (n - 1) : file[j].key \in Keys
            BY <1>1
          <6>2. \A j \in 1 .. (n - 1) : Plain(u, file[j].key)
            BY <3>1, <5>1, <6>1, Zenon
          <6> QED
            BY <3>3, <5>1, <6>2, Zenon
        <5>4. u \in Q(n)
          BY <5>1, <5>2, <5>3, Zenon
        <5> QED
          BY <2>1, <4>1, <5>4, Zenon
      <4> QED
        BY <2>1, <4>1, <4>2, Zenon
    <3> QED
      BY <3>4, <3>5
  <2> QED
    BY <2>1, <2>2, <2>3, Zenon
<1>5. ini_load(file) \in S[N]
  BY <1>1, <1>2, <1>4, LoadRec DEF N
<1>6. S[N] = Q(N) \cup Fail(P)
  <2>1. N \in 0 .. N
    BY <1>1
  <2> HIDE DEF N, Q
  <2> QED
    BY <2>1, <1>3
<1>7. CASE ini_load(file) \notin Fail(P)
  <2> DEFINE u == ini_load(file)
  <2> HIDE DEF u
  <2>1. u \in P /\ Same(u) /\ Done(N, u)
    BY <1>5, <1>6, <1>7, Zenon DEF u
  <2>2. ASSUME NEW q \in Keys
        PROVE  Plain(u, q)
    <3> SUFFICES ASSUME NEW i \in 1 .. Len(u[q]) PROVE Plain(u, q)
      BY Zenon DEF Plain
    <3>1. i \in 1 .. Len(raw[q])
      BY <2>1
    <3>2. PICK j \in 1 .. N : file[j].key = q
      BY <3>1, TableIs
    <3> QED
      BY <2>1, <3>2, Zenon
  <2>3. Written(u, file)
    BY <2>1, <2>2, Zenon DEF Written
  <2> QED
    BY <2>1, <2>3, Zenon DEF u
<1> QED
  BY <1>7

-----------------------------------------------------------------------------
\* What ini_load returns

\* No value of a file that is accepted refers to a key of a trap: it would never
\* have been written out, and would still be as it was in the file.
LEMMA LoadTrap ==
  ASSUME NEW file \in Seq(Lines), ini_load(file) # NullTable,
         NEW B \in SUBSET Keys, Trap(Table(file), B),
         NEW k \in Keys, NEW i \in 1 .. Len(Table(file)[k])
  PROVE  References(Table(file)[k][i]) \cap B = {}
<1> DEFINE raw == Table(file)
           Same(t) == \A q \in Keys : Len(t[q]) = Len(raw[q])
           Bad(q, j) == References(raw[q][j]) \cap B # {}
           Kept(t) == \A q \in Keys : \A j \in 1 .. Len(raw[q]) : Bad(q, j) => t[q][j] = raw[q][j]
           P == {t \in TableType : Same(t) /\ Kept(t)}
<1>1. raw \in TableType
  BY TableIs
<1>2. P \in SUBSET TableType /\ raw \in P
  BY <1>1, Zenon
<1>3. ASSUME NEW t \in P, NEW q \in Keys, NEW j \in 1 .. Len(t[q]), Replaced(t, t[q][j]) # Null
      PROVE  [t EXCEPT ![q][j] = Replaced(t, t[q][j])] \in P
  <2>1. t \in TableType /\ Same(t) /\ Kept(t)
    BY Zenon
  <2>2. j \in 1 .. Len(raw[q]) /\ t[q][j] \in Text
    BY <2>1, OneValue
  <2>3. Trap(t, B)
    <3> SUFFICES ASSUME NEW r \in B, Len(t[r]) = 1 PROVE References(t[r][1]) \cap B # {}
      BY Zenon DEF Trap
    <3>1. Len(raw[r]) = 1 /\ r \in Keys
      BY <2>1
    <3>2. Bad(r, 1)
      BY <3>1, Zenon DEF Trap
    <3>3. 1 \in 1 .. Len(raw[r])
      BY <3>1
    <3>4. t[r][1] = raw[r][1]
      BY <2>1, <3>1, <3>2, <3>3, Zenon
    <3> QED
      BY <3>2, <3>4, Zenon
  <2>4. ~Bad(q, j)
    <3> SUFFICES ASSUME Bad(q, j) PROVE FALSE
      OBVIOUS
    <3>1. t[q][j] = raw[q][j]
      BY <2>1, <2>2, Zenon
    <3>2. References(t[q][j]) \cap B # {}
      BY <3>1, Zenon
    <3> QED
      BY <1>3, <2>1, <2>2, <2>3, <3>2, Trapped
  <2> DEFINE v == Replaced(t, t[q][j])
             u == [t EXCEPT ![q][j] = v]
  <2>5. v \in Text
    BY <1>3, <2>1, <2>2, ReplacedEnds
  <2>6. WithValue(u, t, q, j, v)
    <3> HIDE DEF v
    <3> QED
      BY <2>1, <2>5, SetValue
  <2> HIDE DEF u, v
  <2>7. u \in TableType /\ Same(u)
    BY <2>1, <2>6, Zenon DEF WithValue
  <2>8. Kept(u)
    <3> SUFFICES ASSUME NEW o \in Keys, NEW l \in 1 .. Len(raw[o]), Bad(o, l) PROVE u[o][l] = raw[o][l]
      BY Zenon
    <3>1. o # q \/ l # j
      BY <2>4, Zenon
    <3>2. l \in 1 .. Len(t[o])
      BY <2>1
    <3>3. u[o][l] = t[o][l]
      BY <2>6, <3>1, <3>2, Zenon DEF WithValue
    <3> QED
      BY <2>1, <3>3, Zenon
  <2>9. u \in P
    BY <2>7, <2>8, Zenon
  <2> QED
    BY <2>9, Zenon DEF u, v
<1>4. Closed(P)
  BY <1>3, Zenon DEF Closed
<1> DEFINE u == ini_load(file)
<1>5. u \in P /\ Written(u, file)
  <2>1. \A x \in Fail(P) : x = NullTable
    BY Zenon DEF Fail
  <2> HIDE DEF P
  <2> QED
    BY <1>2, <1>4, <2>1, LoadKeeps
<1> HIDE DEF u
<1> SUFFICES ASSUME Bad(k, i) PROVE FALSE
  BY Zenon
<1>6. u[k][i] = raw[k][i] /\ Len(u[k]) = Len(raw[k])
  BY <1>5, Zenon
<1>7. ~HasRef(u[k][i])
  BY <1>5, <1>6, Zenon DEF Written, Plain
<1>8. raw[k][i] \in Text
  BY <1>1, OneValue
<1>9. References(raw[k][i]) = {}
  BY <1>6, <1>7, <1>8, RefsOf
<1> QED
  BY <1>9, Zenon

\* A file that is accepted has no missing, ambiguous or circular reference.
LEMMA LoadResolvable ==
  ASSUME NEW file \in Seq(Lines), ini_load(file) # NullTable
  PROVE  Resolvable(file)
<1> DEFINE raw == Table(file)
           refs == [k \in Keys |-> UNION {References(raw[k][i]) : i \in DOMAIN raw[k]}]
<1>1. raw \in TableType
  BY TableIs
<1>2. \A k \in Keys : DOMAIN raw[k] = 1 .. Len(raw[k])
  BY <1>1, OneValue
<1>3. \A k \in Keys : \A r \in refs[k] : \E i \in 1 .. Len(raw[k]) : r \in References(raw[k][i])
  BY <1>2
<1>4. \A k \in Keys : \A i \in 1 .. Len(raw[k]) : References(raw[k][i]) \subseteq refs[k]
  BY <1>2
<1>5. \A k \in Keys : refs[k] \subseteq Keys
  BY <1>3 DEF References
<1> HIDE DEF refs
<1>6. ASSUME NEW B \in SUBSET Keys, Trap(raw, B), NEW k \in Keys
      PROVE  refs[k] \cap B = {}
  <2>1. \A i \in 1 .. Len(raw[k]) : References(raw[k][i]) \cap B = {}
    BY <1>6, LoadTrap
  <2> QED
    BY <1>3, <2>1, Zenon
<1>7. \A k \in Keys : \A r \in refs[k] : Len(raw[r]) = 1
  <2> DEFINE B == {r \in Keys : Len(raw[r]) # 1}
  <2>1. Trap(raw, B)
    BY Zenon DEF Trap
  <2>2. \A k \in Keys : refs[k] \cap B = {}
    <3> HIDE DEF B
    <3>1. B \in SUBSET Keys
      BY DEF B
    <3> QED
      BY <1>6, <2>1, <3>1
  <2> QED
    BY <1>5, <2>2, Zenon
<1>8. ASSUME NEW C \in (SUBSET Keys) \ {{}}
      PROVE  \E k \in C : refs[k] \cap C = {}
  <2> SUFFICES ASSUME \A k \in C : refs[k] \cap C # {} PROVE FALSE
    OBVIOUS
  <2>1. Trap(raw, C)
    <3> SUFFICES ASSUME NEW r \in C, Len(raw[r]) = 1 PROVE References(raw[r][1]) \cap C # {}
      BY Zenon DEF Trap
    <3>1. r \in Keys /\ \A i \in 1 .. Len(raw[r]) : i = 1
      OBVIOUS
    <3>2. \A x \in refs[r] : x \in References(raw[r][1])
      BY <1>3, <3>1, Zenon
    <3> QED
      BY <3>2, Zenon
  <2>2. PICK k \in C : TRUE
    OBVIOUS
  <2>3. refs[k] \cap C = {}
    BY <1>6, <2>1
  <2> QED
    BY <2>3
<1> QED
  BY <1>7, <1>8, Zenon DEF Resolvable, refs

\* Of a key with a single value, what is referred to has a single value too.
LEMMA ResolvableRefs ==
  ASSUME NEW file \in Seq(Lines), Resolvable(file)
  PROVE  /\ \A k \in Keys : \A i \in 1 .. Len(Table(file)[k]) :
              \A r \in References(Table(file)[k][i]) : r \in Keys /\ Len(Table(file)[r]) = 1
         /\ \A C \in SUBSET Keys : C # {} =>
              \E k \in C : \A i \in 1 .. Len(Table(file)[k]) : References(Table(file)[k][i]) \cap C = {}
<1> DEFINE raw == Table(file)
           refs == [k \in Keys |-> UNION {References(raw[k][i]) : i \in DOMAIN raw[k]}]
<1>1. raw \in TableType
  BY TableIs
<1>2. \A k \in Keys : DOMAIN raw[k] = 1 .. Len(raw[k])
  BY <1>1, OneValue
<1>3. \A k \in Keys : \A i \in 1 .. Len(raw[k]) : References(raw[k][i]) \subseteq refs[k]
  BY <1>2
<1>4. /\ \A k \in Keys : \A r \in refs[k] : Len(raw[r]) = 1
      /\ \A C \in (SUBSET Keys) \ {{}} : \E k \in C : refs[k] \cap C = {}
  BY Zenon DEF Resolvable
<1> HIDE DEF refs
<1>5. \A k \in Keys : \A i \in 1 .. Len(raw[k]) : \A r \in References(raw[k][i]) : r \in Keys
  BY Zenon DEF References
<1>6. ASSUME NEW C \in SUBSET Keys, C # {}
      PROVE  \E k \in C : \A i \in 1 .. Len(raw[k]) : References(raw[k][i]) \cap C = {}
  <2>1. PICK k \in C : refs[k] \cap C = {}
    BY <1>4, <1>6, Zenon
  <2>2. \A i \in 1 .. Len(raw[k]) : References(raw[k][i]) \subseteq refs[k]
    BY <1>3
  <2> QED
    BY <2>1, <2>2, Zenon
<1> QED
  BY <1>3, <1>4, <1>5, <1>6, Zenon

\* Without circles every key has a meaning: the largest set of keys that have
\* one, and refer to no others, cannot leave out a key that refers only to it.
LEMMA MeaningExists ==
  ASSUME NEW file \in Seq(Lines), Resolvable(file)
  PROVE  \E m \in [Keys -> Text] : Meaning(m, Table(file))
<1> DEFINE raw == Table(file)
           One(r) == Len(raw[r]) = 1
           Good(X) == /\ \A r \in X : One(r) => References(raw[r][1]) \subseteq X
                      /\ \E m \in [Keys -> Text] : \A r \in X : One(r) => m[r] = Subst(m, raw[r][1])
           G == {X \in SUBSET Keys : Good(X)}
           W == {Cardinality(Keys \ X) : X \in G}
<1>1. raw \in TableType
  BY TableIs
<1>2. \A r \in Keys : One(r) => raw[r][1] \in Text /\ 1 \in 1 .. Len(raw[r])
  BY <1>1, OneValue
<1>3. IsFiniteSet(Keys) /\ \A X \in SUBSET Keys : IsFiniteSet(Keys \ X)
  <2>1. IsFiniteSet(Keys)
    BY IniAssumption
  <2>2. \A X \in SUBSET Keys : Keys \ X \subseteq Keys
    OBVIOUS
  <2> QED
    BY <2>1, <2>2, FS_Subset
<1>4. {} \in G
  <2>1. [k \in Keys |-> << >>] \in [Keys -> Text]
    BY EmptyText
  <2>2. Good({})
    BY <2>1, Zenon
  <2> QED
    BY <2>2, Zenon
<1>5. W \in SUBSET Nat /\ W # {}
  <2>1. \A X \in G : Cardinality(Keys \ X) \in Nat
    BY <1>3, FS_CardinalityType
  <2> HIDE DEF G
  <2> QED
    BY <1>4, <2>1
<1>6. PICK X \in G : \A Y \in G : Cardinality(Keys \ X) <= Cardinality(Keys \ Y)
  <2> HIDE DEF W
  <2>1. PICK n \in W : \A l \in W : n <= l
    BY <1>5, NatMin
  <2>2. PICK X \in G : n = Cardinality(Keys \ X)
    BY Zenon DEF W
  <2>3. \A Y \in G : Cardinality(Keys \ Y) \in W
    BY Zenon DEF W
  <2> QED
    BY <2>1, <2>2, <2>3, Zenon
<1> HIDE DEF W
<1>7. X \in SUBSET Keys /\ Good(X)
  BY Zenon
<1>8. PICK m \in [Keys -> Text] : \A r \in X : One(r) => m[r] = Subst(m, raw[r][1])
  BY <1>7, Zenon
<1>9. CASE Keys \ X = {}
  <2>1. \A r \in Keys : One(r) => m[r] = Subst(m, raw[r][1])
    BY <1>8, <1>9
  <2> QED
    BY <2>1, Zenon DEF Meaning
<1>10. CASE Keys \ X # {}
  <2> DEFINE C == Keys \ X
  <2>1. C \in SUBSET Keys /\ C # {}
    BY <1>10
  <2>2. PICK k \in C : \A i \in 1 .. Len(raw[k]) : References(raw[k][i]) \cap C = {}
    <3> HIDE DEF C
    <3> QED
      BY <2>1, ResolvableRefs
  <2> DEFINE Y == X \cup {k}
             n == IF One(k) THEN [m EXCEPT ![k] = Subst(m, raw[k][1])] ELSE m
  <2>3. k \in Keys /\ k \notin X /\ Y \in SUBSET Keys
    BY <2>2, <1>7
  <2>4. One(k) => References(raw[k][1]) \subseteq X
    <3>1. References(raw[k][1]) \subseteq Keys
      BY Zenon DEF References
    <3> QED
      BY <1>2, <2>2, <2>3, <3>1, Zenon
  <2>5. n \in [Keys -> Text] /\ (\A r \in X : n[r] = m[r]) /\ (One(k) => n[k] = Subst(m, raw[k][1]))
    <3>1. One(k) => Subst(m, raw[k][1]) \in Text
      BY <1>2, <2>3, SubstText
    <3> HIDE DEF One
    <3> QED
      BY <2>3, <1>7, <3>1
  <2> HIDE DEF n
  <2>6. ASSUME NEW v \in Text, References(v) \subseteq X
        PROVE  Subst(n, v) = Subst(m, v)
    <3> DEFINE t == [q \in Keys |-> <<n[q]>>]
               u == [q \in Keys |-> <<m[q]>>]
    <3>1. \A r \in References(v) : t[r][1] = u[r][1]
      BY <2>5, <2>6, <1>7
    <3> HIDE DEF t, u
    <3>2. Substituted(t, v) = Substituted(u, v)
      BY <3>1, SubstSame
    <3> QED
      BY <3>2, Zenon DEF Subst, t, u
  <2>7. \A r \in X : One(r) => References(raw[r][1]) \subseteq X
    BY <1>7, Zenon
  <2>8. \A r \in Y : One(r) => References(raw[r][1]) \subseteq Y
    BY <2>4, <2>7, Zenon
  <2>9. \A r \in Y : One(r) => n[r] = Subst(n, raw[r][1])
    <3> SUFFICES ASSUME NEW r \in Y, One(r) PROVE n[r] = Subst(n, raw[r][1])
      OBVIOUS
    <3>1. r \in Keys /\ raw[r][1] \in Text /\ References(raw[r][1]) \subseteq X
      BY <1>2, <2>3, <2>4, <2>7, Zenon
    <3>2. Subst(n, raw[r][1]) = Subst(m, raw[r][1])
      BY <2>6, <3>1, Zenon
    <3> QED
      BY <1>8, <2>5, <3>2, Zenon
  <2>10. Good(Y)
    BY <2>5, <2>8, <2>9, Zenon
  <2>11. Y \in G
    BY <2>3, <2>10, Zenon
  <2>12. Cardinality(Keys \ Y) = Cardinality(C) - 1
    <3>1. Keys \ Y = C \ {k} /\ IsFiniteSet(C)
      BY <1>3, <1>7
    <3> HIDE DEF C, Y
    <3> QED
      BY <2>2, <3>1, FS_RemoveElement
  <2>13. Cardinality(C) \in Nat
    BY <1>3, <1>7, FS_CardinalityType
  <2>14. Cardinality(C) <= Cardinality(Keys \ Y)
    BY <1>6, <2>11, Zenon
  <2> HIDE DEF C, Y
  <2> QED
    BY <2>12, <2>13, <2>14
<1> QED
  BY <1>9, <1>10

\* A table that is returned has for every value what the value means.
LEMMA LoadMeans ==
  ASSUME NEW file \in Seq(Lines), ini_load(file) # NullTable,
         NEW k \in Keys, NEW i \in 1 .. Len(Table(file)[k])
  PROVE  ini_load(file)[k][i] = Substituted(ini_load(file), Table(file)[k][i])
<1> DEFINE raw == Table(file)
<1>1. raw \in TableType
  BY TableIs
<1>2. Resolvable(file)
  BY LoadResolvable
<1>3. PICK m \in [Keys -> Text] : Meaning(m, raw)
  BY <1>2, MeaningExists
<1> DEFINE Same(t) == \A q \in Keys : Len(t[q]) = Len(raw[q])
           Means(t) == \A q \in Keys : \A j \in 1 .. Len(raw[q]) : Subst(m, t[q][j]) = Subst(m, raw[q][j])
           P == {t \in TableType : Same(t) /\ Means(t)}
<1>4. P \in SUBSET TableType /\ raw \in P
  BY <1>1, Zenon
<1>5. ASSUME NEW t \in P, NEW q \in Keys, NEW j \in 1 .. Len(t[q]), Replaced(t, t[q][j]) # Null
      PROVE  [t EXCEPT ![q][j] = Replaced(t, t[q][j])] \in P
  <2>1. t \in TableType /\ Same(t) /\ Means(t)
    BY Zenon
  <2>2. j \in 1 .. Len(raw[q]) /\ t[q][j] \in Text
    BY <2>1, OneValue
  <2>3. Meaning(m, t)
    <3> SUFFICES ASSUME NEW r \in Keys, Len(t[r]) = 1 PROVE m[r] = Subst(m, t[r][1])
      BY Zenon DEF Meaning
    <3>1. Len(raw[r]) = 1
      BY <2>1
    <3>2. 1 \in 1 .. Len(raw[r])
      BY <3>1
    <3> QED
      BY <1>3, <2>1, <3>1, <3>2, Zenon DEF Meaning
  <2> DEFINE v == Replaced(t, t[q][j])
             u == [t EXCEPT ![q][j] = v]
  <2>4. v \in Text /\ ~HasRef(v)
    BY <1>5, <2>1, <2>2, ReplacedEnds
  <2>5. v = Subst(m, t[q][j])
    BY <1>5, <2>1, <2>2, <2>3, ReplacedMeans
  <2>6. WithValue(u, t, q, j, v)
    <3> HIDE DEF v
    <3> QED
      BY <2>1, <2>4, SetValue
  <2> HIDE DEF u, v
  <2>7. u \in TableType /\ Same(u)
    BY <2>1, <2>6, Zenon DEF WithValue
  <2>8. Subst(m, v) = Subst(m, raw[q][j])
    <3>1. Subst(m, v) = v
      BY <2>4, SubstPlain
    <3> QED
      BY <2>1, <2>2, <2>5, <3>1, Zenon
  <2>9. Means(u)
    <3> SUFFICES ASSUME NEW o \in Keys, NEW l \in 1 .. Len(raw[o])
                 PROVE  Subst(m, u[o][l]) = Subst(m, raw[o][l])
      BY Zenon
    <3>1. CASE o = q /\ l = j
      BY <2>6, <2>8, <3>1, Zenon DEF WithValue
    <3>2. CASE o # q \/ l # j
      <4>1. l \in 1 .. Len(t[o])
        BY <2>1
      <4>2. u[o][l] = t[o][l]
        BY <2>6, <3>2, <4>1, Zenon DEF WithValue
      <4> QED
        BY <2>1, <4>2, Zenon
    <3> QED
      BY <3>1, <3>2
  <2>10. u \in P
    BY <2>7, <2>9, Zenon
  <2> QED
    BY <2>10, Zenon DEF u, v
<1>6. Closed(P)
  BY <1>5, Zenon DEF Closed
<1> DEFINE u == ini_load(file)
<1>7. u \in P /\ Written(u, file)
  <2>1. \A x \in Fail(P) : x = NullTable
    BY Zenon DEF Fail
  <2> HIDE DEF P
  <2> QED
    BY <1>4, <1>6, <2>1, LoadKeeps
<1> HIDE DEF u
<1>8. ASSUME NEW q \in Keys, NEW j \in 1 .. Len(raw[q])
      PROVE  u[q][j] = Subst(m, raw[q][j])
  <2>1. u \in TableType /\ Len(u[q]) = Len(raw[q])
    BY <1>7, Zenon
  <2>2. ~HasRef(u[q][j])
    BY <1>7, <2>1, Zenon DEF Written, Plain
  <2>3. u[q][j] \in Text
    BY <2>1, OneValue
  <2>4. Subst(m, u[q][j]) = u[q][j]
    BY <2>2, <2>3, SubstPlain
  <2> QED
    BY <1>7, <2>4, Zenon
<1> DEFINE t == [q \in Keys |-> <<m[q]>>]
<1>9. \A r \in References(raw[k][i]) : u[r][1] = t[r][1]
  <2> SUFFICES ASSUME NEW r \in References(raw[k][i]) PROVE u[r][1] = t[r][1]
    OBVIOUS
  <2>1. r \in Keys /\ Len(raw[r]) = 1
    BY <1>2, ResolvableRefs
  <2>2. 1 \in 1 .. Len(raw[r])
    BY <2>1
  <2>3. u[r][1] = m[r]
    BY <1>3, <1>8, <2>1, <2>2, Zenon DEF Meaning
  <2> QED
    BY <2>1, <2>3
<1>10. raw[k][i] \in Text
  BY <1>1, OneValue
<1>11. Substituted(u, raw[k][i]) = Substituted(t, raw[k][i])
  <2> HIDE DEF t
  <2> QED
    BY <1>9, <1>10, SubstSame
<1>12. Substituted(t, raw[k][i]) = Subst(m, raw[k][i])
  BY Zenon DEF Subst
<1> QED
  BY <1>8, <1>11, <1>12, Zenon DEF u

-----------------------------------------------------------------------------
\* Files that are far from the limits

\* A reference that costs 1 + c steps gives way to a text that costs sv, which
\* is no more than c, and adds no more than L for each step that is saved.
LEMMA Pays ==
  ASSUME NEW L \in Nat, NEW sa \in Nat, NEW sb \in Nat, NEW sv \in Nat, NEW c \in Nat,
         NEW ta \in Nat, NEW tb \in Nat, NEW tv \in Nat,
         sv <= c, tv + L * sv <= L * (c + 1)
  PROVE  /\ ((sa + sv) + sb) + 1 <= (sa + (1 + c)) + sb
         /\ ((ta + tv) + tb) + L * ((sa + sv) + sb) <= ((ta + 4) + tb) + L * ((sa + (1 + c)) + sb)
<1>1. L * ((sa + sv) + sb) = (L * sa + L * sv) + L * sb
  OBVIOUS
<1>2. L * ((sa + (1 + c)) + sb) = (L * sa + L * (c + 1)) + L * sb
  OBVIOUS
<1>3. /\ L * sa \in Nat /\ L * sb \in Nat /\ L * sv \in Nat /\ L * (c + 1) \in Nat
  OBVIOUS
<1>4. \A x, y, z, w \in Nat : tv + z <= w => ((ta + tv) + tb) + ((x + z) + y) <= ((ta + 4) + tb) + ((x + w) + y)
  OBVIOUS
<1>5. ((ta + tv) + tb) + ((L * sa + L * sv) + L * sb) <= ((ta + 4) + tb) + ((L * sa + L * (c + 1)) + L * sb)
  BY <1>3, <1>4
<1> QED
  BY <1>1, <1>2, <1>5

\* The same in terms of texts: what a value of a key with cost c may be.
Debt(x, cost, L) == TextLen(x) + L * Steps(x, cost)

Single(t, x) == \A r \in References(x) : Len(t[r]) = 1

Fits(t, x, c, cost, L) ==
  /\ x \in Text
  /\ Steps(x, cost) <= c
  /\ Debt(x, cost, L) <= L * (c + 1)
  /\ Single(t, x)

FitTable(t, cost, L) ==
  \A k \in Keys : \A i \in 1 .. Len(t[k]) : Fits(t, t[k][i], cost[k], cost, L)

\* TextLen and Steps of texts that are put together.
LEMMA Lengths ==
  ASSUME NEW cost \in [Keys -> Nat]
  PROVE  /\ \A x \in Text : TextLen(x) \in Nat /\ Steps(x, cost) \in Nat
         /\ \A x, y \in Text : /\ TextLen(x \o y) = TextLen(x) + TextLen(y)
                               /\ Steps(x \o y, cost) = Steps(x, cost) + Steps(y, cost)
         /\ \A r \in Keys \cap Words : TextLen(<<r>>) = 4 /\ Steps(<<r>>, cost) = 1 + cost[r]
<1> DEFINE four == [k \in Keys |-> 4]
           more == [k \in Keys |-> 1 + cost[k]]
<1>1. four \in [Keys -> Nat] /\ more \in [Keys -> Nat]
  OBVIOUS
<1>2. \A x : TextLen(x) = Total(x, 1, four) /\ Steps(x, cost) = Total(x, 0, more)
  BY Zenon DEF TextLen, Steps
<1>3. \A r \in Keys : Weight(r, 1, four) = 4 /\ Weight(r, 0, more) = 1 + cost[r]
  BY DEF Weight
<1>4. 0 \in Nat /\ 1 \in Nat
  OBVIOUS
<1> HIDE DEF four, more
<1>5. \A x \in Text : TextLen(x) \in Nat /\ Steps(x, cost) \in Nat
  BY <1>1, <1>2, <1>4, TotalNat
<1>6. \A x, y \in Text : /\ Total(x \o y, 1, four) = Total(x, 1, four) + Total(y, 1, four)
                         /\ Total(x \o y, 0, more) = Total(x, 0, more) + Total(y, 0, more)
  BY <1>1, <1>4, TotalConcat
<1>7. \A r \in Keys \cap Words : /\ Total(<<r>>, 1, four) = Weight(r, 1, four)
                                 /\ Total(<<r>>, 0, more) = Weight(r, 0, more)
  BY <1>1, <1>4, TotalWord
<1> QED
  BY <1>2, <1>3, <1>5, <1>6, <1>7, Zenon

\* find_token finds one value, saves a step and adds no debt.
LEMMA ExpandedFits ==
  ASSUME NEW t \in TableType, NEW cost \in [Keys -> Nat], NEW L \in Nat, FitTable(t, cost, L),
         NEW x \in Text, HasRef(x), Single(t, x)
  PROVE  /\ Expanded(t, x) \in Text
         /\ Single(t, Expanded(t, x))
         /\ Steps(Expanded(t, x), cost) + 1 <= Steps(x, cost)
         /\ Debt(Expanded(t, x), cost, L) <= Debt(x, cost, L)
<1>1. PICK a \in Text, b \in Text, r \in Keys \cap Words :
        /\ x = (a \o <<r>>) \o b
        /\ Expanded(t, x) = IF Len(t[r]) # 1 THEN Null ELSE (a \o t[r][1]) \o b
  BY ExpandedIs
<1>2. <<r>> \in Text /\ References(<<r>>) = {r} /\ a \o <<r>> \in Text
  BY WordText, RefsWord, ConcatText
<1>3. References(x) = (References(a) \cup {r}) \cup References(b)
  <2>1. References(a \o <<r>>) = References(a) \cup {r}
    BY <1>2, RefsConcat
  <2> QED
    BY <1>1, <1>2, <2>1, RefsConcat
<1>4. Len(t[r]) = 1
  BY <1>3, Zenon DEF Single
<1> DEFINE v == t[r][1]
           e == (a \o v) \o b
<1>5. Expanded(t, x) = e /\ v \in Text
  BY <1>1, <1>4, OneValue
<1>6. Fits(t, v, cost[r], cost, L)
  <2>1. 1 \in 1 .. Len(t[r]) /\ r \in Keys
    BY <1>4
  <2> QED
    BY <2>1, Zenon DEF FitTable
<1> HIDE DEF v
<1>7. a \o v \in Text
  BY <1>5, ConcatText
<1>8. e \in Text
  BY <1>7, ConcatText
<1>9. Single(t, e)
  <2>1. References(a \o v) = References(a) \cup References(v)
    BY <1>5, RefsConcat
  <2>2. References(e) = (References(a) \cup References(v)) \cup References(b)
    BY <1>7, <2>1, RefsConcat
  <2>3. Single(t, v)
    BY <1>6, Zenon DEF Fits
  <2> QED
    BY <1>3, <2>2, <2>3, Zenon DEF Single
<1>10. PICK sa \in Nat, sb \in Nat, sv \in Nat, ta \in Nat, tb \in Nat, tv \in Nat, c \in Nat :
         /\ sa = Steps(a, cost) /\ sb = Steps(b, cost) /\ sv = Steps(v, cost)
         /\ ta = TextLen(a) /\ tb = TextLen(b) /\ tv = TextLen(v) /\ c = cost[r]
  <2>1. cost[r] \in Nat
    OBVIOUS
  <2> QED
    BY <1>5, <2>1, Lengths, Zenon
<1>11. sv <= c /\ tv + L * sv <= L * (c + 1)
  BY <1>6, <1>10, Zenon DEF Fits, Debt
<1>12. TextLen(x) = (ta + 4) + tb /\ Steps(x, cost) = (sa + (1 + c)) + sb
  <2> DEFINE w == <<r>>
             aw == a \o w
  <2>1. TextLen(w) = 4 /\ Steps(w, cost) = 1 + cost[r]
    BY Lengths, Zenon
  <2>2. w \in Text /\ aw \in Text /\ x = aw \o b
    BY <1>1, <1>2
  <2> HIDE DEF w
  <2>3. TextLen(aw) = TextLen(a) + TextLen(w) /\ Steps(aw, cost) = Steps(a, cost) + Steps(w, cost)
    BY <2>2, Lengths, Zenon
  <2> HIDE DEF aw
  <2>4. TextLen(x) = TextLen(aw) + TextLen(b) /\ Steps(x, cost) = Steps(aw, cost) + Steps(b, cost)
    BY <2>2, Lengths, Zenon
  <2> QED
    BY <1>10, <2>1, <2>3, <2>4, Zenon
<1>13. TextLen(e) = (ta + tv) + tb /\ Steps(e, cost) = (sa + sv) + sb
  <2>1. TextLen(a \o v) = ta + tv /\ Steps(a \o v, cost) = sa + sv
    BY <1>5, <1>10, Lengths, Zenon
  <2> QED
    BY <1>7, <1>10, <2>1, Lengths, Zenon
<1>14. /\ ((sa + sv) + sb) + 1 <= (sa + (1 + c)) + sb
       /\ ((ta + tv) + tb) + L * ((sa + sv) + sb) <= ((ta + 4) + tb) + L * ((sa + (1 + c)) + sb)
  BY <1>11, Pays
<1> HIDE DEF e
<1> QED
  BY <1>5, <1>8, <1>9, <1>12, <1>13, <1>14, Zenon DEF Debt

\* replace_in_line writes out a value that fits, within both limits.
LEMMA ReplacedFits ==
  ASSUME NEW t \in TableType, NEW cost \in [Keys -> Nat], NEW L \in Nat, FitTable(t, cost, L),
         NEW c \in Nat, c <= MaxTokens - 2, L * (c + 1) < MaxSize,
         NEW v, Fits(t, v, c, cost, L)
  PROVE  Replaced(t, v) # Null /\ Fits(t, Replaced(t, v), c, cost, L)
<1> DEFINE Q(n) == {x \in Text : Fits(t, x, c, cost, L) /\ (HasRef(x) => Steps(x, cost) + n <= c)}
           S == [n \in 0 .. MaxTokens |-> Q(n)]
<1>1. MaxTokens \in Nat /\ MaxSize \in Nat
  BY IniAssumption
<1>2. \A x \in Text : TextLen(x) \in Nat /\ Steps(x, cost) \in Nat
  BY Lengths
<1>3. \A n \in 0 .. MaxTokens : S[n] = Q(n)
  <2> HIDE DEF Q
  <2> QED
    OBVIOUS
<1> HIDE DEF S
<1>4. v \in S[0]
  <2>1. v \in Text /\ Steps(v, cost) <= c
    BY Zenon DEF Fits
  <2>2. Steps(v, cost) + 0 <= c
    BY <1>2, <2>1
  <2>3. v \in Q(0)
    BY <2>1, <2>2, Zenon
  <2> HIDE DEF Q
  <2> QED
    BY <1>1, <1>3, <2>3
<1>5. ASSUME NEW n \in 1 .. MaxTokens, NEW x \in S[n - 1]
      PROVE  Round(t, n, x) \in S[n]
  <2>1. S[n - 1] = Q(n - 1) /\ S[n] = Q(n)
    <3>1. n - 1 \in 0 .. MaxTokens /\ n \in 0 .. MaxTokens
      BY <1>1
    <3> HIDE DEF Q
    <3> QED
      BY <1>3, <3>1
  <2>2. x \in Text /\ Fits(t, x, c, cost, L) /\ (HasRef(x) => Steps(x, cost) + (n - 1) <= c)
    BY <2>1, Zenon
  <2>3. CASE ~HasRef(x)
    <3>1. Round(t, n, x) = x
      BY <2>3, Zenon DEF Round
    <3> QED
      BY <2>1, <2>2, <2>3, <3>1, Zenon
  <2>4. CASE HasRef(x)
    <3> DEFINE e == Expanded(t, x)
    <3>1. /\ e \in Text
          /\ Single(t, e)
          /\ Steps(e, cost) + 1 <= Steps(x, cost)
          /\ Debt(e, cost, L) <= Debt(x, cost, L)
      BY <2>2, <2>4, ExpandedFits DEF Fits
    <3> HIDE DEF e
    <3>2. PICK se \in Nat, sx \in Nat, te \in Nat, tx \in Nat :
            /\ se = Steps(e, cost) /\ sx = Steps(x, cost)
            /\ te = TextLen(e) /\ tx = TextLen(x)
      BY <1>2, <2>2, <3>1, Zenon
    <3>3. /\ se + 1 <= sx
          /\ te + L * se <= tx + L * sx
          /\ sx <= c
          /\ tx + L * sx <= L * (c + 1)
          /\ sx + (n - 1) <= c
      BY <2>2, <2>4, <3>1, <3>2, Zenon DEF Fits, Debt
    <3>4. L * se \in Nat /\ L * sx \in Nat /\ L * (c + 1) \in Nat
      OBVIOUS
    <3>5. n <= MaxTokens - 2 /\ se <= c /\ se + n <= c
      BY <1>1, <3>3
    <3>6. te + L * se <= L * (c + 1) /\ te <= L * (c + 1)
      BY <3>3, <3>4
    <3>7. te < MaxSize
      BY <1>1, <3>4, <3>6
    <3>8. Fits(t, e, c, cost, L)
      BY <3>1, <3>2, <3>5, <3>6, Zenon DEF Fits, Debt
    <3>9. e # Null /\ x # Null
      BY <2>2, <3>1, TextIs
    <3>10. ~(TextLen(e) >= MaxSize) /\ ~(n > MaxTokens - 2)
      BY <1>1, <3>2, <3>5, <3>7
    <3>11. Round(t, n, x) = e
      BY <2>4, <3>9, <3>10, Zenon DEF Round, e
    <3>12. Steps(e, cost) + n <= c
      BY <3>2, <3>5
    <3>13. e \in Q(n)
      BY <3>1, <3>8, <3>12, Zenon
    <3> QED
      BY <2>1, <3>11, <3>13, Zenon
  <2> QED
    BY <2>3, <2>4
<1>6. Replaced(t, v) \in S[MaxTokens]
  BY <1>4, <1>5, ReplacedRec
<1>7. S[MaxTokens] = Q(MaxTokens)
  <2>1. MaxTokens \in 0 .. MaxTokens
    BY <1>1
  <2> HIDE DEF Q
  <2> QED
    BY <1>3, <2>1
<1>8. Replaced(t, v) \in Text /\ Fits(t, Replaced(t, v), c, cost, L)
  BY <1>6, <1>7, Zenon
<1> QED
  BY <1>8, TextIs, Zenon

\* The longest line of a file that is Small.
LEMMA Longest ==
  ASSUME NEW file \in Seq(Lines), NEW cost \in [Keys -> Nat],
         \A k \in Keys : \A j \in DOMAIN file : TextLen(file[j].val) * (cost[k] + 1) < MaxSize
  PROVE  \E L \in Nat : /\ \A j \in 1 .. Len(file) : TextLen(file[j].val) <= L
                        /\ 1 .. Len(file) # {} => \A k \in Keys : L * (cost[k] + 1) < MaxSize
<1>1. Len(file) \in Nat /\ DOMAIN file = 1 .. Len(file) /\ \A j \in 1 .. Len(file) : file[j] \in Lines
  BY LenProperties, ElementOfSeq
<1>2. \A j \in 1 .. Len(file) : TextLen(file[j].val) \in Nat
  <2>1. \A j \in 1 .. Len(file) : file[j].val \in Text
    BY <1>1 DEF Lines
  <2> QED
    BY <2>1, Lengths, Zenon
<1> DEFINE N == Len(file)
           len == [j \in 1 .. N |-> TextLen(file[j].val)]
<1>3. \A j \in 1 .. N : len[j] \in Nat /\ len[j] = TextLen(file[j].val)
  BY <1>2
<1> HIDE DEF len, N
<1>4. CASE 1 .. N = {}
  <2>1. \A j \in 1 .. N : TextLen(file[j].val) <= 0
    BY <1>4
  <2> QED
    BY <1>4, <2>1 DEF N
<1>5. CASE 1 .. N # {}
  <2>1. MaxSize \in Nat
    BY IniAssumption
  <2>2. PICK k0 \in Keys : TRUE
    BY IniAssumption
  <2>3. \A k \in Keys : \A j \in 1 .. N : len[j] * (cost[k] + 1) < MaxSize
    BY <1>1, <1>3 DEF N
  <2>4. \A j \in 1 .. N : len[j] <= MaxSize
    <3> SUFFICES ASSUME NEW j \in 1 .. N PROVE len[j] <= MaxSize
      OBVIOUS
    <3>1. PICK x \in Nat, c \in Nat : x = len[j] /\ c = cost[k0]
      BY <1>3
    <3>2. x * (c + 1) < MaxSize
      BY <2>3, <3>1
    <3>3. x * (c + 1) = x * c + x /\ x * c \in Nat
      OBVIOUS
    <3>4. PICK p \in Nat : p + x < MaxSize
      BY <3>2, <3>3
    <3>5. x <= MaxSize
      BY <2>1, <3>4
    <3> QED
      BY <3>1, <3>5
  <2> DEFINE W == {MaxSize - len[j] : j \in 1 .. N}
  <2>5. W \in SUBSET Nat /\ W # {}
    <3>1. \A j \in 1 .. N : MaxSize - len[j] \in Nat
      BY <1>3, <2>1, <2>4
    <3> QED
      BY <1>5, <3>1
  <2>6. PICK o \in 1 .. N : \A j \in 1 .. N : MaxSize - len[o] <= MaxSize - len[j]
    <3> HIDE DEF W
    <3>1. PICK w \in W : \A y \in W : w <= y
      BY <2>5, NatMin
    <3>2. PICK o \in 1 .. N : w = MaxSize - len[o]
      BY Zenon DEF W
    <3>3. \A j \in 1 .. N : MaxSize - len[j] \in W
      BY Zenon DEF W
    <3> QED
      BY <3>1, <3>2, <3>3, Zenon
  <2>7. \A j \in 1 .. N : len[j] <= len[o]
    BY <1>3, <2>1, <2>6
  <2>8. len[o] \in Nat /\ \A j \in 1 .. N : TextLen(file[j].val) <= len[o]
    BY <1>3, <2>7
  <2>9. \A k \in Keys : len[o] * (cost[k] + 1) < MaxSize
    BY <2>3
  <2> QED
    BY <2>8, <2>9, Zenon DEF N
<1> QED
  BY <1>4, <1>5

\* A file without bad references that is far from the limits is accepted.
LEMMA LoadAccepts ==
  ASSUME NEW file \in Seq(Lines), Resolvable(file), Small(file)
  PROVE  ini_load(file) # NullTable
<1> DEFINE raw == Table(file)
<1>1. raw \in TableType
  BY TableIs
<1>2. PICK cost \in [Keys -> 0 .. (MaxTokens - 2)] :
        \A k \in Keys :
          /\ \A i \in DOMAIN raw[k] : Steps(raw[k][i], cost) <= cost[k]
          /\ \A j \in DOMAIN file : TextLen(file[j].val) * (cost[k] + 1) < MaxSize
  BY Zenon DEF Small
<1>3. cost \in [Keys -> Nat] /\ \A k \in Keys : cost[k] \in Nat /\ cost[k] <= MaxTokens - 2
  BY IniAssumption
<1>4. PICK L \in Nat : /\ \A j \in 1 .. Len(file) : TextLen(file[j].val) <= L
                       /\ 1 .. Len(file) # {} => \A k \in Keys : L * (cost[k] + 1) < MaxSize
  BY <1>2, <1>3, Longest
<1>5. \A x \in Text : TextLen(x) \in Nat /\ Steps(x, cost) \in Nat
  BY <1>3, Lengths
<1> DEFINE Same(t) == \A q \in Keys : Len(t[q]) = Len(raw[q])
           P == {t \in TableType : Same(t) /\ FitTable(t, cost, L)}
<1>6. FitTable(raw, cost, L)
  <2> SUFFICES ASSUME NEW k \in Keys, NEW i \in 1 .. Len(raw[k])
               PROVE  Fits(raw, raw[k][i], cost[k], cost, L)
    BY Zenon DEF FitTable
  <2>1. raw[k][i] \in Text /\ i \in DOMAIN raw[k]
    BY <1>1, OneValue
  <2>2. PICK j \in 1 .. Len(file) : file[j].val = raw[k][i]
    BY TableIs
  <2>3. PICK s \in Nat, l \in Nat, c \in Nat :
          s = Steps(raw[k][i], cost) /\ l = TextLen(raw[k][i]) /\ c = cost[k]
    BY <1>3, <1>5, <2>1, Zenon
  <2>4. s <= c /\ l <= L
    BY <1>2, <1>4, <2>1, <2>2, <2>3, Zenon
  <2>5. l + L * s <= L * (c + 1)
    <3>1. PICK d \in Nat : c = s + d
      <4>1. c - s \in Nat /\ c = s + (c - s)
        BY <2>4
      <4> QED
        BY <4>1
    <3>2. L * (c + 1) = (L * s + L * d) + L /\ L * s \in Nat /\ L * d \in Nat
      BY <3>1
    <3> QED
      BY <2>4, <3>2
  <2>6. Single(raw, raw[k][i])
    BY ResolvableRefs, Zenon DEF Single
  <2> QED
    BY <2>1, <2>3, <2>4, <2>5, <2>6, Zenon DEF Fits, Debt
<1>7. P \in SUBSET TableType /\ raw \in P
  BY <1>1, <1>6, Zenon
<1>8. ASSUME NEW t \in P, NEW k \in Keys, NEW i \in 1 .. Len(t[k])
      PROVE  /\ Replaced(t, t[k][i]) # Null
             /\ [t EXCEPT ![k][i] = Replaced(t, t[k][i])] \in P
  <2>1. t \in TableType /\ Same(t) /\ FitTable(t, cost, L)
    BY Zenon
  <2>2. L * (cost[k] + 1) < MaxSize
    <3>1. i \in 1 .. Len(raw[k])
      BY <2>1
    <3>2. PICK j \in 1 .. Len(file) : TRUE
      BY <3>1, TableIs
    <3> QED
      BY <1>4, <3>2
  <2>3. Fits(t, t[k][i], cost[k], cost, L)
    BY <2>1, Zenon DEF FitTable
  <2> DEFINE v == Replaced(t, t[k][i])
             u == [t EXCEPT ![k][i] = v]
  <2>4. v # Null /\ Fits(t, v, cost[k], cost, L)
    <3>1. cost[k] \in Nat /\ cost[k] <= MaxTokens - 2
      BY <1>3
    <3> QED
      BY <1>3, <2>1, <2>2, <2>3, <3>1, ReplacedFits
  <2>5. v \in Text
    BY <2>4, Zenon DEF Fits
  <2>6. WithValue(u, t, k, i, v)
    <3> HIDE DEF v
    <3> QED
      BY <2>1, <2>5, SetValue
  <2> HIDE DEF u, v
  <2>7. u \in TableType /\ Same(u) /\ \A q \in Keys : Len(u[q]) = Len(t[q])
    BY <2>1, <2>6, Zenon DEF WithValue
  <2>8. ASSUME NEW q \in Keys, NEW j \in 1 .. Len(u[q])
        PROVE  Fits(u, u[q][j], cost[q], cost, L)
    <3>1. j \in 1 .. Len(t[q])
      BY <2>7
    <3>2. Fits(t, u[q][j], cost[q], cost, L)
      <4>1. CASE q = k /\ j = i
        <5>1. u[q][j] = v
          BY <2>6, <4>1, Zenon DEF WithValue
        <5> QED
          BY <2>4, <4>1, <5>1, Zenon
      <4>2. CASE q # k \/ j # i
        <5>1. u[q][j] = t[q][j]
          BY <2>6, <3>1, <4>2, Zenon DEF WithValue
        <5> QED
          BY <2>1, <3>1, <5>1, Zenon DEF FitTable
      <4> QED
        BY <4>1, <4>2
    <3>3. \A x : References(x) \subseteq Keys
      BY Zenon DEF References
    <3>4. Single(t, u[q][j]) => Single(u, u[q][j])
      BY <2>7, <3>3, Zenon DEF Single
    <3> QED
      BY <3>2, <3>4, Zenon DEF Fits
  <2>9. FitTable(u, cost, L)
    BY <2>8, Zenon DEF FitTable
  <2>10. u \in P
    BY <2>7, <2>9, Zenon
  <2> QED
    BY <2>4, <2>10, Zenon DEF u, v
<1>9. Closed(P)
  BY <1>8, Zenon DEF Closed
<1>10. \A x : x \notin Fail(P)
  BY <1>8, Zenon DEF Fail
<1>11. ini_load(file) \in P
  <2> HIDE DEF P
  <2> QED
    BY <1>7, <1>9, <1>10, LoadKeeps
<1> QED
  BY <1>7, <1>11, TableNotNull

\* ini_load, for every file: what it returns is every value's full expansion, it
\* accepts no file with a reference that is missing, ambiguous or circular, and
\* of the others it refuses only such as may come to one of its limits.
THEOREM LoadExpands ==
  ASSUME NEW f \in Seq(Lines)
  PROVE  IF ini_load(f) = NullTable
         THEN Resolvable(f) => ~Small(f)
         ELSE /\ Resolvable(f)
              /\ \A k \in Keys : \A i \in DOMAIN Table(f)[k] :
                   ini_load(f)[k][i] = Substituted(ini_load(f), Table(f)[k][i])
<1>1. CASE ini_load(f) = NullTable
  BY <1>1, LoadAccepts, Zenon
<1>2. CASE ini_load(f) # NullTable
  <2>1. Resolvable(f)
    BY <1>2, LoadResolvable
  <2>2. ASSUME NEW k \in Keys, NEW i \in DOMAIN Table(f)[k]
        PROVE  ini_load(f)[k][i] = Substituted(ini_load(f), Table(f)[k][i])
    <3>1. i \in 1 .. Len(Table(f)[k])
      BY TableIs, OneValue
    <3> QED
      BY <1>2, <3>1, LoadMeans
  <2> QED
    BY <1>2, <2>1, <2>2, Zenon
<1> QED
  BY <1>1, <1>2

===============================================================================
