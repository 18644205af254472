--------------------------- MODULE MqClient_proofs ---------------------------
(***************************************************************************)
(* Proofs about MqClient: for any number of servers and of calls, with or  *)
(* without faults and split replies, a reply is taken for that of another  *)
(* call, and a message stored twice without a time-out, only by calls on a *)
(* connection on which a request was answered twice.                       *)
(***************************************************************************)
EXTENDS MqClient, SequenceTheorems, FiniteSetTheorems, WellFoundedInduction, TLAPS

(***************************************************************************)
(* The inductive invariant                                                 *)
(***************************************************************************)

\* ClientTypeOK leaves open whether ret has other fields, and what a call that
\* is under way has in opt and call.
TypeInv ==
  /\ ClientTypeOK
  /\ ret \in [ok: BOOLEAN, result: Results, data: Nat, reply: Part]
  /\ arrived \in [Servers -> Nat]
  /\ pc # "idle" => opt \in Opts /\ call > 0

\* The call has written to s and waits; s has not carried the request out.
Waits(s) == pc \in {"head", "body"} /\ Head(rest) = s
Unanswered(s) == \E r \in requests : r.live /\ r.srv = s

\* No request was answered twice on the connection to s, or it was the one the
\* call waits for.
Clean(s) == s \notin tainted \/ (Waits(s) /\ call \notin muddled)

\* Nothing, or the body of a reply of which the call only took the head.
IsStale(q) == Len(q) <= 1 /\ \A i \in 1 .. Len(q) : q[i].kind = "body"

\* The reply to the current request, behind k stale bodies and perhaps in front
\* of a second one.
ReplyAt(s, k) ==
  /\ Len(stream[s]) = k + 2
       \/ (Len(stream[s]) = k + 4 /\ s \in tainted /\ opt \notin {"put", "get"})
  /\ k = 1 => stream[s][1].kind = "body"
  /\ stream[s][k + 1].kind = "head" /\ stream[s][k + 2].kind = "body"
  /\ stream[s][k + 1].call = call /\ stream[s][k + 2].data = stream[s][k + 1].data
  /\ opt = "put" => stream[s][k + 1].result # 404

HasReply(s) == ReplyAt(s, 0) \/ ReplyAt(s, 1)

\* The body of the reply whose head is in ret, and on a connection with two
\* replies what comes after it.
HasBody(s) ==
  /\ Len(stream[s]) = 1 \/ (Len(stream[s]) > 1 /\ s \in tainted)
  /\ stream[s][1].kind = "body" /\ stream[s][1].data = ret.reply.data
  /\ ret.reply.call = call

\* What may be on the connection to s, at each point of a call.
ConnOK(s) ==
  /\ ~Waits(s) \/ Unanswered(s) => IsStale(stream[s])
  /\ Waits(s) /\ ~Unanswered(s) /\ pc = "head" => HasReply(s)
  /\ Waits(s) /\ pc = "body" => HasBody(s)

ConnInv == \A s \in Servers : Clean(s) => ConnOK(s)

\* Whole replies arrive in pairs of parts.
PairsOK(s) ==
  /\ Len(stream[s]) % 2 = 0 /\ arrived[s] % 2 = 0
  /\ \A i \in 1 .. Len(stream[s]) : stream[s][i].kind = "head" => i % 2 = 1

PairsInv == ~split => pc # "body" /\ \A s \in Servers : PairsOK(s)

\* A server that would still answer on a clean connection has the request the
\* call waits for.
RequestsOK ==
  /\ \A r \in requests : r.live /\ Clean(r.srv) =>
       /\ pc = "head" /\ r.srv \notin tainted
       /\ r = [call |-> call, opt |-> Sent(opt), srv |-> Head(rest), live |-> TRUE]
  /\ \A r \in requests : r.call <= call
  /\ \A e \in executed : e.call <= call

\* Server s has or may get the message of call c.
PutAt(c, s) ==
  \/ [call |-> c, opt |-> "put", srv |-> s] \in executed
  \/ \E r \in requests : r.call = c /\ r.opt = "put" /\ r.srv = s

\* The calls that gave up waiting or used a connection with a second reply.
Spoiled == late \cup muddled

\* Every other call has written its message to one server at most, and to none
\* as long as it looks for one: "end" is no answer to a put.
PutInv ==
  /\ \A c \in 1 .. call : c \notin Spoiled =>
       \A s, t \in Servers : PutAt(c, s) /\ PutAt(c, t) => s = t
  /\ pc = "connect" /\ call \notin Spoiled => \A s \in Servers : ~PutAt(call, s)
  /\ pc \in {"head", "body"} /\ call \notin Spoiled =>
       \A s \in Servers : PutAt(call, s) => s = Head(rest)
  /\ opt = "put" /\ pc # "idle" /\ call \notin muddled => ret.result # 404
  /\ opt # "put" => \A s \in Servers : ~PutAt(call, s)

\* With whole replies a get goes on only after "end".
WholeInv ==
  ~split /\ call \notin muddled =>
    /\ opt = "get" /\ (pc # "idle" \/ ret.result = 404) => \A h \in read : h.result = 404
    /\ pc = "idle" /\ ret.ok => ret.result = ret.reply.result

OwnInv == AnswerIsOwn /\ (pc # "idle" => ~ret.ok)

(***************************************************************************)
(* Types                                                                   *)
(***************************************************************************)

\* What goes over the wire is an operation: remove is sent as delay.
LEMMA SentType == \A o \in Opts \cup {"none"} : o # "none" => Sent(o) \in Opts \cup {"delay"}
BY DEF Sent

\* A call that has not ended has a server to talk to, and maybe others after it.
LEMMA RestType ==
  ASSUME TypeInv, pc # "idle"
  PROVE  Head(rest) \in Servers /\ Tail(rest) \in Seq(Servers) /\ rest # << >>
         /\ Len(rest) \in Nat /\ (Len(rest) > 1 => Tail(rest) # << >>)
<1>1. rest \in Seq(Servers) /\ rest # << >>
  BY DEF TypeInv, ClientTypeOK
<1>2. Head(rest) \in Servers /\ Tail(rest) \in Seq(Servers) /\ Len(Tail(rest)) = Len(rest) - 1
  BY <1>1, HeadTailProperties
<1>3. Len(rest) \in Nat
  BY <1>1, LenProperties
<1>4. Len(rest) > 1 => Tail(rest) # << >>
  BY <1>2, <1>3, EmptySeq
<1> QED
  BY <1>1, <1>2, <1>3, <1>4

\* Every order in which a call may try the servers names at least one.
LEMMA PermutationsAreLists ==
  \A mode : Lookups(mode) \subseteq Seq(Servers) \ {<< >>}
BY ClientAssumption DEF Lookups, Servers

\* What is left when the first n parts are read.
LEMMA CutType ==
  ASSUME NEW q \in Seq(Part), NEW n \in 0 .. Len(q)
  PROVE  /\ SubSeq(q, n + 1, Len(q)) \in Seq(Part)
         /\ Len(SubSeq(q, n + 1, Len(q))) = Len(q) - n
         /\ \A i \in 1 .. (Len(q) - n) : SubSeq(q, n + 1, Len(q))[i] = q[i + n]
<1>1. Len(q) \in Nat /\ \A i \in 1 .. Len(q) : q[i] \in Part
  BY ElementOfSeq, LenProperties
<1>2. \A i \in (n + 1) .. Len(q) : q[i] \in Part
  BY <1>1
<1>3. /\ SubSeq(q, n + 1, Len(q)) \in Seq(Part)
      /\ Len(SubSeq(q, n + 1, Len(q))) = IF n + 1 <= Len(q) THEN Len(q) - (n + 1) + 1 ELSE 0
      /\ \A i \in 1 .. (Len(q) - (n + 1) + 1) : SubSeq(q, n + 1, Len(q))[i] = q[(n + 1) + i - 1]
  BY <1>1, <1>2, SubSeqProperties
<1> QED
  BY <1>1, <1>3

\* Where a connection can be after a step.
StreamsOK ==
  /\ stream \in [Servers -> Seq(Part)]
  /\ arrived \in [Servers -> Nat]
  /\ \A s \in Servers : arrived[s] <= Len(stream[s])

\* The part of TypeInv about connections.
LEMMA StreamsType == TypeInv => StreamsOK
BY DEF TypeInv, ClientTypeOK, StreamsOK

\* A connection that is closed has no reply parts.
LEMMA ClearedStream ==
  ASSUME StreamsOK, NEW s \in Servers,
         stream' = [stream EXCEPT ![s] = << >>], arrived' = [arrived EXCEPT ![s] = 0]
  PROVE  StreamsOK'
BY EmptySeq DEF StreamsOK

\* Reading parts that have arrived leaves the others.
LEMMA CutStream ==
  ASSUME StreamsOK, NEW s \in Servers, NEW n \in 0 .. arrived[s],
         stream' = [stream EXCEPT ![s] = SubSeq(stream[s], n + 1, Len(stream[s]))],
         arrived' = [arrived EXCEPT ![s] = arrived[s] - n]
  PROVE  StreamsOK'
<1>1. /\ stream \in [Servers -> Seq(Part)] /\ arrived \in [Servers -> Nat]
      /\ stream[s] \in Seq(Part) /\ arrived[s] \in Nat /\ arrived[s] <= Len(stream[s])
      /\ Len(stream[s]) \in Nat
  BY LenProperties DEF StreamsOK
<1>2. n \in 0 .. Len(stream[s])
  BY <1>1
<1> DEFINE cut == SubSeq(stream[s], n + 1, Len(stream[s]))
<1>3. cut \in Seq(Part) /\ Len(cut) = Len(stream[s]) - n
  BY <1>1, <1>2, CutType
<1>4. arrived[s] - n \in Nat /\ arrived[s] - n <= Len(cut)
  BY <1>1, <1>3
<1> HIDE DEF cut
<1>5. stream' \in [Servers -> Seq(Part)] /\ arrived' \in [Servers -> Nat]
  BY <1>1, <1>3, <1>4 DEF cut
<1>6. \A t \in Servers : arrived'[t] <= Len(stream'[t])
  BY <1>1, <1>4 DEF StreamsOK, cut
<1> QED
  BY <1>5, <1>6 DEF StreamsOK

\* What a server makes of a request: no put is answered "end", and neither put
\* nor get is answered twice.
LEMMA OutcomesType ==
  ASSUME TypeInv, NEW r \in requests, NEW o \in Outcomes(r)
  PROVE  /\ o.result \in {200, 400, 404} /\ o.data \in Nat /\ o.second \in {NoSecond, 200, 400}
         /\ o.queue \in Seq(1 .. (MaxCalls + 1))
         /\ r.opt = "put" => o.result # 404
         /\ r.opt \in {"put", "get"} => o.second = NoSecond
<1>1. r.srv \in Servers /\ r.call \in 1 .. MaxCalls /\ r.call \in 1 .. (MaxCalls + 1)
  BY ClientAssumption DEF TypeInv, ClientTypeOK
<1>2. queue[r.srv] \in Seq(1 .. (MaxCalls + 1))
  BY <1>1 DEF TypeInv, ClientTypeOK
<1>3. << >> \in Seq(1 .. (MaxCalls + 1))
  OBVIOUS
<1>4. ASSUME NEW x, NEW d, NEW q, o = Answer(x, d, q)
      PROVE  o.result = x /\ o.data = d /\ o.queue = q /\ o.second = NoSecond
  BY <1>4 DEF Answer
<1>5. ASSUME NEW q, o \in Answers(q)
      PROVE  o.result = 400 /\ o.data = 0 /\ o.queue = q /\ o.second \in {200, 400}
  BY <1>5 DEF Answers
<1>6. CASE r.opt = "put"
  <2>1. \/ o = Answer(200, 0, Append(queue[r.srv], r.call))
        \/ o = Answer(400, 0, queue[r.srv])
    BY <1>6 DEF Outcomes
  <2>2. Append(queue[r.srv], r.call) \in Seq(1 .. (MaxCalls + 1))
    BY <1>1, <1>2, AppendProperties
  <2>3. CASE o = Answer(200, 0, Append(queue[r.srv], r.call))
    <3>1. /\ o.result = 200 /\ o.data = 0 /\ o.queue = Append(queue[r.srv], r.call)
          /\ o.second = NoSecond
      BY <1>4, <2>3
    <3> QED
      BY <2>2, <3>1
  <2>4. CASE o = Answer(400, 0, queue[r.srv])
    <3>1. o.result = 400 /\ o.data = 0 /\ o.queue = queue[r.srv] /\ o.second = NoSecond
      BY <1>4, <2>4
    <3> QED
      BY <1>2, <3>1
  <2> QED
    BY <2>1, <2>3, <2>4
<1>7. CASE r.opt = "get" /\ queue[r.srv] = << >>
  <2>1. o = Answer(404, 0, queue[r.srv])
    BY <1>7, Zenon DEF Outcomes
  <2>2. o.result = 404 /\ o.data = 0 /\ o.queue = queue[r.srv] /\ o.second = NoSecond
    BY <1>4, <2>1
  <2>3. r.opt # "put"
    BY <1>7
  <2> QED
    BY <1>2, <2>2, <2>3
<1>8. CASE r.opt = "get" /\ queue[r.srv] # << >>
  <2>1. o = Answer(200, Head(queue[r.srv]), Tail(queue[r.srv]))
    BY <1>8 DEF Outcomes
  <2>2. /\ Head(queue[r.srv]) \in 1 .. (MaxCalls + 1)
        /\ Tail(queue[r.srv]) \in Seq(1 .. (MaxCalls + 1))
    BY <1>2, <1>8, HeadTailProperties
  <2>3. /\ o.result = 200 /\ o.data = Head(queue[r.srv]) /\ o.queue = Tail(queue[r.srv])
        /\ o.second = NoSecond
    BY <1>4, <2>1
  <2>4. r.opt # "put"
    BY <1>8
  <2> QED
    BY <2>2, <2>3, <2>4
<1>9. CASE r.opt \notin {"put", "get"}
  <2>1. \/ o = Answer(200, 0, queue[r.srv]) \/ o = Answer(200, 0, << >>)
        \/ o = Answer(400, 0, queue[r.srv]) \/ o \in Answers(queue[r.srv])
    BY <1>9 DEF Outcomes
  <2>2. CASE o = Answer(200, 0, queue[r.srv]) \/ o = Answer(400, 0, queue[r.srv])
    <3>1. o.result \in {200, 400} /\ o.data = 0 /\ o.queue = queue[r.srv] /\ o.second = NoSecond
      BY <1>4, <2>2
    <3> QED
      BY <1>2, <1>9, <3>1
  <2>3. CASE o = Answer(200, 0, << >>)
    <3>1. o.result = 200 /\ o.data = 0 /\ o.queue = << >> /\ o.second = NoSecond
      BY <1>4, <2>3
    <3> QED
      BY <1>3, <1>9, <3>1
  <2>4. CASE o \in Answers(queue[r.srv])
    <3>1. o.result = 400 /\ o.data = 0 /\ o.queue = queue[r.srv] /\ o.second \in {200, 400}
      BY <1>5, <2>4
    <3> QED
      BY <1>2, <1>9, <3>1
  <2> QED
    BY <2>1, <2>2, <2>3, <2>4
<1> QED
  BY <1>6, <1>7, <1>8, <1>9

\* The least element of a set of numbers.
LEMMA LeastIn ==
  ASSUME NEW S \in SUBSET Nat, S # {}
  PROVE  Min(S) \in S /\ \A y \in S : Min(S) <= y
<1> DEFINE R == {p \in Nat \X Nat : p[1] < p[2]}
<1>1. IsWellFoundedOn(R, Nat)
  BY NatLessThanWellFounded, Zenon DEF OpToRel
<1>2. PICK x \in S : \A y \in S : ~(<<y, x>> \in R)
  <2> HIDE DEF R
  <2> QED
    BY <1>1, WFMin
<1>3. \A y \in S : x <= y
  <2> TAKE y \in S
  <2>1. x \in Nat /\ y \in Nat
    OBVIOUS
  <2>2. y < x => <<y, x>> \in R
    BY <2>1
  <2> QED
    BY <1>2, <2>1, <2>2
<1> QED
  BY <1>3 DEF Min

\* The head a call finds is the first one that has arrived.
LEMMA HeadPlace ==
  ASSUME TypeInv, NEW s \in Servers, HeadAt(s) # 0
  PROVE  /\ HeadAt(s) \in 1 .. arrived[s] /\ arrived[s] \in 0 .. Len(stream[s])
         /\ HeadAt(s) \in 1 .. Len(stream[s])
         /\ \A i \in 1 .. arrived[s] : Taken(s)[i] = stream[s][i]
         /\ stream[s][HeadAt(s)].kind = "head"
         /\ \A i \in 1 .. arrived[s] : stream[s][i].kind = "head" => HeadAt(s) <= i
<1> DEFINE q == stream[s]
           t == Taken(s)
           I == {i \in 1 .. Len(t) : t[i].kind = "head"}
<1>1. q \in Seq(Part) /\ Len(q) \in Nat /\ arrived[s] \in 0 .. Len(q)
  BY LenProperties DEF TypeInv, ClientTypeOK
<1>2. \A i \in 1 .. Len(q) : q[i] \in Part
  BY <1>1, ElementOfSeq
<1>3. Len(t) = arrived[s] /\ \A i \in 1 .. arrived[s] : t[i] = q[i]
  <2>1. \A i \in 1 .. arrived[s] : q[i] \in Part
    BY <1>1, <1>2
  <2>2. /\ Len(t) = IF 1 <= arrived[s] THEN arrived[s] - 1 + 1 ELSE 0
        /\ \A i \in 1 .. (arrived[s] - 1 + 1) : t[i] = q[1 + i - 1]
    BY <1>1, <2>1, SubSeqProperties DEF Taken
  <2> QED
    BY <1>1, <2>2
<1>4. HeadAt(s) = IF I # {} THEN Min(I) ELSE 0
  BY DEF HeadAt, SelectInSeq
<1>5. I # {}
  BY <1>4
<1>6. I \in SUBSET Nat /\ \A i \in I : i \in 1 .. arrived[s] /\ t[i].kind = "head"
  <2> HIDE DEF t
  <2> QED
    BY <1>1, <1>3
<1>7. \A i \in 1 .. arrived[s] : t[i].kind = "head" => i \in I
  <2> HIDE DEF t
  <2> QED
    BY <1>1, <1>3
<1> HIDE DEF I, t
<1>8. HeadAt(s) \in I /\ \A i \in I : HeadAt(s) <= i
  BY <1>4, <1>5, <1>6, LeastIn
<1>9. HeadAt(s) \in 1 .. arrived[s] /\ t[HeadAt(s)].kind = "head"
  BY <1>6, <1>8
<1>10. q[HeadAt(s)].kind = "head"
  BY <1>3, <1>9
<1>11. \A i \in 1 .. arrived[s] : q[i].kind = "head" => HeadAt(s) <= i
  BY <1>3, <1>7, <1>8
<1>12. HeadAt(s) \in 1 .. Len(q)
  BY <1>1, <1>9
<1> QED
  BY <1>1, <1>3, <1>9, <1>10, <1>11, <1>12 DEF t

\* Where the head is when the call has one on a clean connection: behind k
\* stale bodies, and the reply is its own.
LEMMA Reading ==
  ASSUME TypeInv, ConnInv, pc = "head", NEW s \in Servers, s = Head(rest), Clean(s),
         HeadAt(s) # 0
  PROVE  /\ ~Unanswered(s)
         /\ \E k \in {0, 1} :
              /\ ReplyAt(s, k) /\ HeadAt(s) = k + 1
              /\ arrived[s] >= k + 1 /\ arrived[s] <= Len(stream[s])
              /\ \A i \in 1 .. arrived[s] : Taken(s)[i] = stream[s][i]
              /\ ResultOf(s) = IF k = 0 THEN stream[s][1].result ELSE ret.result
<1> DEFINE q == stream[s]
<1>1. /\ HeadAt(s) \in 1 .. arrived[s] /\ arrived[s] \in 0 .. Len(q)
      /\ HeadAt(s) \in 1 .. Len(q)
      /\ \A i \in 1 .. arrived[s] : Taken(s)[i] = q[i]
      /\ q[HeadAt(s)].kind = "head"
      /\ \A i \in 1 .. arrived[s] : q[i].kind = "head" => HeadAt(s) <= i
  BY HeadPlace
<1>2. Waits(s) /\ ConnOK(s)
  BY Zenon DEF Waits, ConnInv
<1>3. ~IsStale(q)
  BY <1>1 DEF IsStale
<1>4. ~Unanswered(s) /\ HasReply(s)
  BY <1>2, <1>3 DEF ConnOK
<1>5. ASSUME NEW k \in {0, 1}, ReplyAt(s, k)
      PROVE  HeadAt(s) = k + 1 /\ ResultOf(s) = IF k = 0 THEN q[1].result ELSE ret.result
  <2>1. /\ k = 1 => q[1].kind = "body"
        /\ q[k + 1].kind = "head"
    BY <1>5 DEF ReplyAt
  <2> HIDE DEF q
  <2>2. HeadAt(s) >= k + 1
    <3>1. CASE k = 0
      BY <1>1, <3>1
    <3>2. CASE k = 1
      <4>1. HeadAt(s) # 1
        BY <1>1, <2>1, <3>2
      <4> QED
        BY <1>1, <3>2, <4>1
    <3> QED
      BY <3>1, <3>2
  <2>3. k + 1 \in 1 .. arrived[s]
    BY <1>1, <2>2
  <2>4. HeadAt(s) <= k + 1
    BY <1>1, <2>1, <2>3
  <2>5. HeadAt(s) = k + 1
    BY <1>1, <2>2, <2>4
  <2>6. CASE k = 0
    <3>1. HeadAt(s) = 1 /\ 1 \in 1 .. arrived[s]
      BY <1>1, <2>5, <2>6
    <3>2. ResultOf(s) = Taken(s)[1].result
      BY <3>1 DEF ResultOf
    <3> QED
      BY <1>1, <2>5, <2>6, <3>1, <3>2
  <2>7. CASE k = 1
    <3>1. HeadAt(s) # 1
      BY <2>5, <2>7
    <3>2. ResultOf(s) = ret.result
      BY <3>1 DEF ResultOf
    <3> QED
      BY <2>5, <2>7, <3>2
  <2> QED
    BY <2>6, <2>7
<1>6. ASSUME NEW k \in {0, 1}, ReplyAt(s, k)
      PROVE  arrived[s] >= k + 1 /\ arrived[s] <= Len(q)
  BY <1>1, <1>5, <1>6
<1>7. PICK k \in {0, 1} : ReplyAt(s, k)
  BY <1>4 DEF HasReply
<1> QED
  BY <1>1, <1>4, <1>5, <1>6, <1>7

(***************************************************************************)
(* How connections change                                                  *)
(***************************************************************************)

\* The first n parts of what has arrived from s are read.
CutAt(s, n) ==
  /\ stream' = [stream EXCEPT ![s] = SubSeq(stream[s], n + 1, Len(stream[s]))]
  /\ arrived' = [arrived EXCEPT ![s] = arrived[s] - n]

Cleared(s) ==
  /\ stream' = [stream EXCEPT ![s] = << >>]
  /\ arrived' = [arrived EXCEPT ![s] = 0]

PartOf(r, o, kind, result) ==
  [kind |-> kind, call |-> r.call, result |-> result, data |-> o.data]

Reply(r, o, result) == <<PartOf(r, o, "head", result), PartOf(r, o, "body", result)>>

AllParts(r, o) ==
  IF o.second = NoSecond THEN Reply(r, o, o.result)
  ELSE Reply(r, o, o.result) \o Reply(r, o, o.second)

\* The server answers r with o.
Grown(r, o) ==
  /\ stream' = [stream EXCEPT ![r.srv] = stream[r.srv] \o AllParts(r, o)]
  /\ arrived' = arrived

\* Head and body of a reply, and of a second one.
LEMMA PartsType ==
  ASSUME TypeInv, NEW r \in requests, NEW o \in Outcomes(r)
  PROVE  LET a == AllParts(r, o)
         IN  /\ a \in Seq(Part)
             /\ Len(a) = 2 \/ (Len(a) = 4 /\ o.second # NoSecond)
             /\ o.second = NoSecond => Len(a) = 2
             /\ a[1] = PartOf(r, o, "head", o.result) /\ a[2] = PartOf(r, o, "body", o.result)
             /\ \A i \in 1 .. Len(a) : a[i].kind = "head" => i = 1 \/ i = 3
<1>1. o.result \in {200, 400, 404} /\ o.data \in Nat /\ o.second \in {NoSecond, 200, 400}
  BY OutcomesType
<1>2. r.call \in Nat
  BY ClientAssumption DEF TypeInv, ClientTypeOK
<1>3. ASSUME NEW x \in {200, 400, 404}
      PROVE  /\ PartOf(r, o, "head", x) \in Part /\ PartOf(r, o, "body", x) \in Part
             /\ PartOf(r, o, "head", x).kind = "head" /\ PartOf(r, o, "body", x).kind = "body"
  BY <1>1, <1>2 DEF PartOf, Part, Results
<1>4. ASSUME NEW x \in {200, 400, 404}
      PROVE  /\ Reply(r, o, x) \in Seq(Part) /\ Len(Reply(r, o, x)) = 2
             /\ Reply(r, o, x)[1] = PartOf(r, o, "head", x)
             /\ Reply(r, o, x)[2] = PartOf(r, o, "body", x)
  BY <1>3 DEF Reply
<1>5. CASE o.second = NoSecond
  <2>1. AllParts(r, o) = Reply(r, o, o.result)
    BY <1>5 DEF AllParts
  <2>2. \A i \in 1 .. 2 : Reply(r, o, o.result)[i].kind = "head" => i = 1
    <3>1. /\ Reply(r, o, o.result)[2] = PartOf(r, o, "body", o.result)
          /\ PartOf(r, o, "body", o.result).kind = "body"
      BY <1>1, <1>3, <1>4
    <3>2. Reply(r, o, o.result)[2].kind = "body"
      BY <3>1, Zenon
    <3> QED
      BY <3>2
  <2> QED
    BY <1>1, <1>4, <1>5, <2>1, <2>2
<1>6. CASE o.second # NoSecond
  <2> DEFINE x == Reply(r, o, o.result)
             y == Reply(r, o, o.second)
  <2>1. AllParts(r, o) = x \o y
    BY <1>6 DEF AllParts
  <2>2. o.second \in {200, 400, 404}
    BY <1>1, <1>6
  <2>3. /\ x \in Seq(Part) /\ Len(x) = 2 /\ y \in Seq(Part) /\ Len(y) = 2
        /\ x[1] = PartOf(r, o, "head", o.result) /\ x[2] = PartOf(r, o, "body", o.result)
        /\ x[2].kind = "body" /\ y[2].kind = "body"
    <3>1. /\ x \in Seq(Part) /\ Len(x) = 2
          /\ x[1] = PartOf(r, o, "head", o.result) /\ x[2] = PartOf(r, o, "body", o.result)
      BY <1>1, <1>4
    <3>2. y \in Seq(Part) /\ Len(y) = 2 /\ y[2] = PartOf(r, o, "body", o.second)
      BY <2>2, <1>4
    <3>3. PartOf(r, o, "body", o.result).kind = "body"
          /\ PartOf(r, o, "body", o.second).kind = "body"
      BY <1>1, <1>3, <2>2
    <3> HIDE DEF x, y
    <3> QED
      BY <3>1, <3>2, <3>3
  <2> HIDE DEF x, y
  <2>4. /\ x \o y \in Seq(Part) /\ Len(x \o y) = Len(x) + Len(y)
        /\ \A i \in 1 .. Len(x) + Len(y) :
             (x \o y)[i] = IF i <= Len(x) THEN x[i] ELSE y[i - Len(x)]
    BY <2>3, ConcatProperties
  <2>5. /\ Len(x \o y) = 4 /\ (x \o y)[1] = x[1] /\ (x \o y)[2] = x[2] /\ (x \o y)[4] = y[2]
    <3>1. \A i \in 1 .. 4 : (x \o y)[i] = IF i <= 2 THEN x[i] ELSE y[i - 2]
      BY <2>3, <2>4
    <3>2. 4 \in 1 .. 4 /\ ~(4 <= 2) /\ 4 - 2 = 2
      OBVIOUS
    <3>3. (x \o y)[4] = y[2]
      BY <3>1, <3>2, Zenon
    <3> QED
      BY <2>3, <2>4, <3>1, <3>3
  <2>6. \A i \in 1 .. 4 : (x \o y)[i].kind = "head" => i = 1 \/ i = 3
    <3>1. (x \o y)[2].kind = "body" /\ (x \o y)[4].kind = "body"
      BY <2>3, <2>5, Zenon
    <3>2. \A i \in 1 .. 4 : i \in {1, 2, 3, 4}
      OBVIOUS
    <3>3. "head" # "body"
      OBVIOUS
    <3> QED
      BY <3>1, <3>2, <3>3
  <2> QED
    BY <1>6, <2>1, <2>3, <2>4, <2>5, <2>6
<1> QED
  BY <1>5, <1>6

\* The stream with one or two replies at its end.
LEMMA GrownStream ==
  ASSUME TypeInv, NEW r \in requests, NEW o \in Outcomes(r), Grown(r, o)
  PROVE  LET q == stream[r.srv]
             z == stream'[r.srv]
         IN  /\ StreamsOK'
             /\ \A t \in Servers : t # r.srv => stream'[t] = stream[t]
             /\ Len(q) \in Nat
             /\ Len(z) = Len(q) + 2 \/ (Len(z) = Len(q) + 4 /\ o.second # NoSecond)
             /\ \A i \in 1 .. Len(q) : z[i] = q[i]
             /\ z[Len(q) + 1] = PartOf(r, o, "head", o.result)
             /\ z[Len(q) + 2] = PartOf(r, o, "body", o.result)
             /\ \A i \in 1 .. Len(z) :
                  z[i].kind = "head" => i <= Len(q) \/ i = Len(q) + 1 \/ i = Len(q) + 3
<1> DEFINE q == stream[r.srv]
           a == AllParts(r, o)
<1>1. r.srv \in Servers /\ stream \in [Servers -> Seq(Part)]
  BY DEF TypeInv, ClientTypeOK
<1>2. q \in Seq(Part) /\ Len(q) \in Nat
  BY <1>1, LenProperties
<1>3. /\ a \in Seq(Part)
      /\ Len(a) = 2 \/ (Len(a) = 4 /\ o.second # NoSecond)
      /\ a[1] = PartOf(r, o, "head", o.result) /\ a[2] = PartOf(r, o, "body", o.result)
      /\ \A i \in 1 .. Len(a) : a[i].kind = "head" => i = 1 \/ i = 3
  BY PartsType
<1> HIDE DEF a, q
<1>4. /\ q \o a \in Seq(Part) /\ Len(q \o a) = Len(q) + Len(a)
      /\ \A i \in 1 .. Len(q) + Len(a) :
           (q \o a)[i] = IF i <= Len(q) THEN q[i] ELSE a[i - Len(q)]
  BY <1>2, <1>3, ConcatProperties
<1>5. stream' = [stream EXCEPT ![r.srv] = q \o a] /\ arrived' = arrived
  BY DEF Grown, q, a
<1>6. stream'[r.srv] = q \o a /\ \A t \in Servers : t # r.srv => stream'[t] = stream[t]
  BY <1>1, <1>5
<1>7. /\ Len(q \o a) = Len(q) + 2 \/ (Len(q \o a) = Len(q) + 4 /\ o.second # NoSecond)
      /\ \A i \in 1 .. Len(q) : (q \o a)[i] = q[i]
  <2>1. Len(a) = 2 \/ Len(a) = 4
    BY <1>3
  <2>2. \A i \in 1 .. Len(q) : i \in 1 .. Len(q) + Len(a) /\ i <= Len(q)
    BY <1>2, <2>1
  <2> QED
    BY <1>3, <1>4, <2>2
<1>8. (q \o a)[Len(q) + 1] = a[1] /\ (q \o a)[Len(q) + 2] = a[2]
  <2>1. Len(q) + 1 \in 1 .. Len(q) + Len(a) /\ Len(q) + 2 \in 1 .. Len(q) + Len(a)
    BY <1>2, <1>3
  <2>2. (q \o a)[Len(q) + 1] = a[(Len(q) + 1) - Len(q)]
    BY <1>2, <1>4, <2>1
  <2>3. (q \o a)[Len(q) + 2] = a[(Len(q) + 2) - Len(q)]
    BY <1>2, <1>4, <2>1
  <2> QED
    BY <1>2, <2>2, <2>3
<1>9. ASSUME NEW i \in 1 .. Len(q \o a), (q \o a)[i].kind = "head"
      PROVE  i <= Len(q) \/ i = Len(q) + 1 \/ i = Len(q) + 3
  <2>1. CASE i > Len(q)
    <3>1. i \in 1 .. Len(q) + Len(a) /\ ~(i <= Len(q)) /\ Len(a) \in {2, 4}
      BY <1>2, <1>3, <1>4, <2>1
    <3>2. (q \o a)[i] = a[i - Len(q)]
      BY <1>4, <3>1
    <3>3. i - Len(q) \in 1 .. Len(a)
      BY <1>2, <3>1
    <3>4. i - Len(q) = 1 \/ i - Len(q) = 3
      BY <1>3, <1>9, <3>2, <3>3
    <3> QED
      BY <1>2, <3>1, <3>4
  <2>2. CASE ~(i > Len(q))
    <3>1. Len(q \o a) \in Nat
      BY <1>2, <1>3, <1>4
    <3> QED
      BY <1>2, <2>2, <3>1
  <2> QED
    BY <2>1, <2>2
<1>10. StreamsOK'
  <2>1. stream' \in [Servers -> Seq(Part)]
    BY <1>1, <1>4, <1>5
  <2>2. StreamsOK
    BY StreamsType
  <2>3. \A t \in Servers : arrived'[t] <= Len(stream'[t])
    <3> TAKE t \in Servers
    <3>1. arrived[t] \in Nat /\ arrived[t] <= Len(stream[t])
      BY <2>2 DEF StreamsOK
    <3>2. CASE t = r.srv
      <4>1. arrived[t] <= Len(q)
        BY <3>1, <3>2 DEF q
      <4>2. Len(stream'[t]) = Len(q) + 2 \/ Len(stream'[t]) = Len(q) + 4
        BY <1>6, <1>7, <3>2
      <4> QED
        BY <1>2, <1>5, <3>1, <4>1, <4>2
    <3>3. CASE t # r.srv
      BY <1>5, <1>6, <3>1, <3>3
    <3> QED
      BY <3>2, <3>3
  <2> QED
    BY <1>5, <2>1, <2>2, <2>3 DEF StreamsOK
<1> QED
  BY <1>2, <1>3, <1>6, <1>7, <1>8, <1>9, <1>10 DEF q

\* How Execute changes the connections.
LEMMA ExecuteConns ==
  ASSUME NEW r, Execute(r)
  PROVE  /\ UNCHANGED <<split, pc, call, opt, rest, ret, open, arrived, muddled, read, late>>
         /\ requests' = requests \ {r}
         /\ \E o \in Outcomes(r) :
              /\ IF r.live THEN Grown(r, o) ELSE UNCHANGED <<stream, arrived>>
              /\ tainted' = IF r.live /\ o.second # NoSecond THEN tainted \cup {r.srv}
                            ELSE tainted
<1>1. PICK o \in Outcomes(r) :
        /\ stream' = IF r.live THEN [stream EXCEPT ![r.srv] = @ \o AllParts(r, o)] ELSE stream
        /\ tainted' = IF r.live /\ o.second # NoSecond THEN tainted \cup {r.srv} ELSE tainted
        /\ arrived' = arrived
  BY Zenon DEF Execute, AllParts, Reply, PartOf
<1>2. IF r.live THEN Grown(r, o) ELSE UNCHANGED <<stream, arrived>>
  BY <1>1, Zenon DEF Grown
<1>3. /\ UNCHANGED <<split, pc, call, opt, rest, ret, open, arrived, muddled, read, late>>
      /\ requests' = requests \ {r}
  BY DEF Execute
<1> QED
  BY <1>1, <1>2, <1>3, Zenon

\* The client has nothing of a connection before it has written to it again, and
\* a reply is cut at what was taken.
LEMMA ReadSteps ==
  ASSUME TypeInv, Operate, ~Send
  PROVE  \/ Cleared(Head(rest))
         \/ \E n \in 0 .. arrived[Head(rest)] : CutAt(Head(rest), n)
<1> DEFINE s == Head(rest)
<1>1. s \in Servers
  <2>1. pc # "idle"
    BY DEF Operate, SendFails, Receive, RecvEnd, RecvAll, RecvHead, RecvBody, TimeOut
  <2> QED
    BY <2>1, RestType
<1>2. stream[s] \in Seq(Part) /\ arrived[s] \in Nat /\ arrived[s] <= Len(stream[s])
  BY <1>1, StreamsType DEF StreamsOK
<1> HIDE DEF s
<1>3. ASSUME ClosedConn(s) PROVE Cleared(s)
  BY <1>3 DEF ClosedConn, Cleared
<1>4. ASSUME stream' = [stream EXCEPT ![s] = SubSeq(@, arrived[s] + 1, Len(@))],
             arrived' = [arrived EXCEPT ![s] = 0]
      PROVE  CutAt(s, arrived[s]) /\ arrived[s] \in 0 .. arrived[s]
  <2>1. arrived[s] - arrived[s] = 0 /\ arrived[s] \in 0 .. arrived[s]
    BY <1>2
  <2> QED
    BY <1>4, <2>1, Zenon DEF CutAt
<1>5. ASSUME Consumed(s) PROVE Cleared(s) \/ \E n \in 0 .. arrived[s] : CutAt(s, n)
  BY <1>3, <1>4, <1>5 DEF Consumed
<1>6. CASE SendFails \/ TimeOut
  BY <1>3, <1>6 DEF SendFails, TimeOut, s
<1>7. CASE RecvEnd
  BY <1>5, <1>7 DEF RecvEnd, s
<1>8. CASE RecvAll
  <2>1. Consumed(s) \/ ClosedConn(s)
    BY <1>8 DEF RecvAll, s
  <2> QED
    BY <1>3, <1>5, <2>1 DEF s
<1>9. CASE RecvHead
  BY <1>4, <1>9 DEF RecvHead, s
<1>10. CASE RecvBody
  <2>1. CASE keep_alive
    <3>1. arrived[s] > 0 /\ stream' = [stream EXCEPT ![s] = Tail(stream[s])]
          /\ arrived' = [arrived EXCEPT ![s] = arrived[s] - 1]
      BY <1>10, <2>1 DEF RecvBody, s
    <3>2. stream[s] # << >>
      BY <1>2, <3>1, EmptySeq
    <3>3. Tail(stream[s]) = SubSeq(stream[s], 1 + 1, Len(stream[s]))
      BY <1>2, <3>2, TailIsSubSeq
    <3> QED
      <4>1. 1 \in 0 .. arrived[s]
        BY <1>2, <3>1
      <4>2. CutAt(s, 1)
        BY <3>1, <3>3, Zenon DEF CutAt
      <4> QED
        BY <4>1, <4>2 DEF s
  <2>2. CASE ~keep_alive
    BY <1>3, <1>10, <2>2 DEF RecvBody, s
  <2> QED
    BY <2>1, <2>2
<1> QED
  BY <1>6, <1>7, <1>8, <1>9, <1>10 DEF Operate, Receive

\* Two even numbers differ by two at least.
LEMMA Parity ==
  ASSUME NEW m \in Nat, NEW n \in Nat, m % 2 = 0, n % 2 = 0
  PROVE  (n < m => n + 2 <= m) /\ (n <= m => (m - n) % 2 = 0)
<1>1. n < m => n + 1 # m
  OBVIOUS
<1> QED
  BY <1>1

\* Every step keeps the types of the connections,
LEMMA StreamsStep ==
  ASSUME TypeInv, PairsInv, [Next]_vars
  PROVE  StreamsOK'
<1>1. StreamsOK
  BY StreamsType
<1>2. CASE UNCHANGED <<stream, arrived>>
  BY <1>1, <1>2 DEF StreamsOK
<1>3. ASSUME NEW s \in Servers, Cleared(s) PROVE StreamsOK'
  BY <1>1, <1>3, ClearedStream DEF Cleared
<1>4. CASE Send
  <2>1. Head(rest) \in Servers
    BY <1>4, RestType DEF Send
  <2>2. UNCHANGED <<stream, arrived>> \/ Cleared(Head(rest))
    BY <1>4, Zenon DEF Send, Fresh, Cleared, conns
  <2> QED
    BY <1>2, <1>3, <2>1, <2>2
<1>5. CASE Operate /\ ~Send
  <2>1. Head(rest) \in Servers
    BY <1>5, RestType DEF Operate, SendFails, Receive, RecvEnd, RecvAll, RecvHead, RecvBody, TimeOut
  <2>2. CASE Cleared(Head(rest))
    BY <1>3, <2>1, <2>2
  <2>3. ASSUME NEW n \in 0 .. arrived[Head(rest)], CutAt(Head(rest), n)
        PROVE  StreamsOK'
    BY <1>1, <2>1, <2>3, CutStream DEF CutAt
  <2> QED
    BY <1>5, <2>2, <2>3, ReadSteps
<1>6. ASSUME NEW r \in requests, Execute(r) PROVE StreamsOK'
  <2>1. PICK o \in Outcomes(r) : UNCHANGED <<stream, arrived>> \/ Grown(r, o)
    <3>1. PICK o \in Outcomes(r) : IF r.live THEN Grown(r, o) ELSE UNCHANGED <<stream, arrived>>
      BY <1>6, ExecuteConns
    <3> QED
      BY <3>1
  <2> QED
    BY <1>2, <2>1, GrownStream
<1>7. ASSUME NEW s \in Servers, Arrive(s) PROVE StreamsOK'
  <2> DEFINE n == IF split THEN 1 ELSE 2
  <2>1. /\ stream' = stream /\ arrived[s] < Len(stream[s])
        /\ arrived' = [arrived EXCEPT ![s] = arrived[s] + n]
    BY <1>7 DEF Arrive
  <2>2. /\ arrived \in [Servers -> Nat] /\ Len(stream[s]) \in Nat
        /\ \A t \in Servers : arrived[t] <= Len(stream[t])
    BY <1>1, LenProperties DEF StreamsOK
  <2>3. arrived[s] + n <= Len(stream[s]) /\ n \in {1, 2}
    <3>1. CASE split
      BY <2>1, <2>2, <3>1
    <3>2. CASE ~split
      <4>1. Len(stream[s]) % 2 = 0 /\ arrived[s] % 2 = 0
        BY <3>2 DEF PairsInv, PairsOK
      <4>2. arrived[s] \in Nat
        BY <2>2
      <4>3. n = 2
        BY <3>2
      <4> HIDE DEF n
      <4>4. arrived[s] + 2 <= Len(stream[s])
        BY <2>1, <2>2, <4>1, <4>2, Parity
      <4> QED
        BY <4>3, <4>4
    <3> QED
      BY <3>1, <3>2
  <2> HIDE DEF n
  <2>4. arrived' \in [Servers -> Nat]
    BY <2>1, <2>2, <2>3
  <2>5. \A t \in Servers : arrived'[t] <= Len(stream'[t])
    BY <2>1, <2>2, <2>3
  <2> QED
    BY <1>1, <2>1, <2>4, <2>5 DEF StreamsOK
<1>8. ASSUME NEW s \in Servers, ServerCloses(s) PROVE StreamsOK'
  BY <1>3, <1>8 DEF ServerCloses, ClosedConn, Cleared
<1>9. CASE UNCHANGED vars \/ (\E o \in Opts : Start(o)) \/ (\E s \in Servers : OthersPut(s))
  BY <1>2, <1>9 DEF vars, conns, Start, OthersPut
<1> QED
  BY <1>4, <1>5, <1>6, <1>7, <1>8, <1>9 DEF Next, Operate

\* The first and the third number behind an even one are odd.
LEMMA OddBehindEven ==
  ASSUME NEW k \in Nat, k % 2 = 0
  PROVE  (k + 1) % 2 = 1 /\ (k + 3) % 2 = 1
OBVIOUS

\* The second and the fourth are even.
LEMMA EvenBehindEven ==
  ASSUME NEW k \in Nat, k % 2 = 0
  PROVE  (k + 2) % 2 = 0 /\ (k + 4) % 2 = 0
OBVIOUS

\* Whole replies stay whole.
LEMMA PairsStep ==
  ASSUME TypeInv, PairsInv, [Next]_vars
  PROVE  PairsInv'
<1>1. split' = split
  <2>1. Next => split' = split
    BY Zenon DEF Next, Start, Operate, Send, SendFails, Receive, RecvEnd, RecvAll, RecvHead,
       RecvBody, TimeOut, Execute, OthersPut, Arrive, ServerCloses
  <2> QED
    BY <2>1 DEF vars
<1> SUFFICES ASSUME ~split
             PROVE  pc' # "body" /\ \A s \in Servers : PairsOK(s)'
  BY <1>1 DEF PairsInv
<1>2. pc # "body" /\ \A s \in Servers : PairsOK(s)
  BY DEF PairsInv
<1>3. /\ stream \in [Servers -> Seq(Part)] /\ arrived \in [Servers -> Nat]
      /\ \A s \in Servers : /\ stream[s] \in Seq(Part) /\ Len(stream[s]) \in Nat
                             /\ arrived[s] \in 0 .. Len(stream[s])
  BY LenProperties DEF TypeInv, ClientTypeOK
<1>4. ~RecvHead /\ ~RecvBody
  <2>1. ASSUME RecvHead PROVE FALSE
    <3> DEFINE s == Head(rest)
    <3>1. s \in Servers /\ HeadAt(s) # 0 /\ arrived[s] = HeadAt(s)
      BY <2>1, RestType DEF RecvHead
    <3>2. HeadAt(s) \in 1 .. Len(stream[s]) /\ stream[s][HeadAt(s)].kind = "head"
      BY <3>1, HeadPlace
    <3>3. HeadAt(s) % 2 = 1 /\ arrived[s] % 2 = 0
      BY <1>2, <3>1, <3>2 DEF PairsOK
    <3> HIDE DEF s
    <3>4. 1 # 0
      OBVIOUS
    <3> QED
      BY <3>1, <3>3, <3>4, Zenon
  <2> QED
    BY <1>2, <2>1 DEF RecvBody
<1>5. pc' # "body"
  <2>1. Next => \/ RecvHead \/ RecvBody \/ pc' = pc
                \/ pc' \in {"idle", "connect", "head"}
    BY Zenon DEF Next, Start, Operate, Send, SendFails, Receive, RecvEnd, RecvAll, TimeOut,
       Execute, OthersPut, Arrive, ServerCloses, Failed, Succeeded
  <2> QED
    BY <1>2, <1>4, <2>1 DEF vars
<1>6. ASSUME NEW s \in Servers, stream'[s] = stream[s], arrived'[s] = arrived[s]
      PROVE  PairsOK(s)'
  BY <1>2, <1>6 DEF PairsOK
<1>7. ASSUME NEW s \in Servers, Cleared(s), NEW t \in Servers PROVE PairsOK(t)'
  <2>1. CASE t = s
    <3>1. stream'[t] = << >> /\ arrived'[t] = 0 /\ Len(<< >>) = 0
      BY <1>3, <1>7, <2>1 DEF Cleared
    <3> QED
      BY <3>1 DEF PairsOK
  <2>2. CASE t # s
    BY <1>3, <1>6, <1>7, <2>2 DEF Cleared
  <2> QED
    BY <2>1, <2>2
<1>8. ASSUME NEW s \in Servers, CutAt(s, arrived[s]), NEW t \in Servers PROVE PairsOK(t)'
  <2>1. CASE t = s
    <3> DEFINE q == stream[s]
               n == arrived[s]
               cut == SubSeq(q, n + 1, Len(q))
    <3>1. q \in Seq(Part) /\ Len(q) \in Nat /\ n \in 0 .. Len(q)
      BY <1>3
    <3>2. Len(cut) = Len(q) - n /\ \A i \in 1 .. (Len(q) - n) : cut[i] = q[i + n]
      BY <3>1, CutType
    <3>3. stream'[s] = cut /\ arrived'[s] = n - n
      BY <1>3, <1>8 DEF CutAt
    <3>4. /\ Len(q) % 2 = 0 /\ n % 2 = 0
          /\ \A i \in 1 .. Len(q) : q[i].kind = "head" => i % 2 = 1
      BY <1>2 DEF PairsOK
    <3> HIDE DEF q, n, cut
    <3>5. Len(cut) % 2 = 0 /\ arrived'[s] % 2 = 0
      <4>1. n \in Nat /\ n <= Len(q)
        BY <3>1
      <4>2. (Len(q) - n) % 2 = 0
        BY <3>1, <3>4, <4>1, Parity
      <4>3. n - n = 0
        BY <4>1
      <4> QED
        BY <3>2, <3>3, <4>2, <4>3
    <3>6. ASSUME NEW i \in 1 .. Len(cut), cut[i].kind = "head" PROVE i % 2 = 1
      <4>1. i \in 1 .. (Len(q) - n) /\ i + n \in 1 .. Len(q)
        BY <3>1, <3>2
      <4>2. (i + n) % 2 = 1
        BY <3>2, <3>4, <3>6, <4>1
      <4> QED
        BY <3>1, <3>4, <4>1, <4>2
    <3> QED
      BY <2>1, <3>3, <3>5, <3>6 DEF PairsOK
  <2>2. CASE t # s
    BY <1>3, <1>6, <1>8, <2>2 DEF CutAt
  <2> QED
    BY <2>1, <2>2
<1>9. CASE UNCHANGED <<stream, arrived>>
  BY <1>5, <1>6, <1>9
<1>10. CASE Send
  <2>1. Head(rest) \in Servers
    BY <1>10, RestType DEF Send
  <2>2. UNCHANGED <<stream, arrived>> \/ Cleared(Head(rest))
    BY <1>10, Zenon DEF Send, Fresh, Cleared, conns
  <2> QED
    BY <1>5, <1>7, <1>9, <2>1, <2>2
<1>11. CASE SendFails \/ TimeOut \/ RecvEnd \/ RecvAll
  <2> DEFINE s == Head(rest)
  <2>1. s \in Servers
    BY <1>11, RestType DEF SendFails, TimeOut, RecvEnd, RecvAll
  <2>2. ClosedConn(s) \/ Consumed(s)
    BY <1>11, Zenon DEF SendFails, TimeOut, RecvEnd, RecvAll
  <2> HIDE DEF s
  <2>3. ClosedConn(s) => Cleared(s)
    BY DEF ClosedConn, Cleared
  <2>4. Consumed(s) => Cleared(s) \/ CutAt(s, arrived[s])
    <3>1. arrived[s] - arrived[s] = 0
      BY <1>3, <2>1
    <3> QED
      BY <2>3, <3>1, Zenon DEF Consumed, CutAt
  <2> QED
    BY <1>5, <1>7, <1>8, <2>1, <2>2, <2>3, <2>4
<1>12. ASSUME NEW r \in requests, Execute(r), NEW t \in Servers PROVE PairsOK(t)'
  <2>1. PICK o \in Outcomes(r) : IF r.live THEN Grown(r, o) ELSE UNCHANGED <<stream, arrived>>
    BY <1>12, ExecuteConns
  <2>2. CASE ~r.live \/ t # r.srv
    <3>1. Grown(r, o) => arrived' = arrived /\ \A u \in Servers : u # r.srv => stream'[u] = stream[u]
      BY GrownStream DEF Grown
    <3> QED
      BY <1>6, <2>1, <2>2, <3>1
  <2>3. CASE r.live /\ t = r.srv
    <3> DEFINE q == stream[r.srv]
               z == stream'[r.srv]
    <3>1. Grown(r, o)
      BY <2>1, <2>3
    <3>2. /\ Len(q) \in Nat /\ (Len(z) = Len(q) + 2 \/ Len(z) = Len(q) + 4)
          /\ \A i \in 1 .. Len(q) : z[i] = q[i]
          /\ \A i \in 1 .. Len(z) :
               z[i].kind = "head" => i <= Len(q) \/ i = Len(q) + 1 \/ i = Len(q) + 3
          /\ arrived' = arrived
      BY <3>1, GrownStream DEF Grown
    <3>3. /\ Len(q) % 2 = 0 /\ arrived[t] % 2 = 0
          /\ \A i \in 1 .. Len(q) : q[i].kind = "head" => i % 2 = 1
      BY <1>2, <2>3 DEF PairsOK
    <3> HIDE DEF q, z
    <3>4. Len(z) % 2 = 0
      <4>1. Len(q) \in Nat /\ Len(q) % 2 = 0 /\ (Len(z) = Len(q) + 2 \/ Len(z) = Len(q) + 4)
        BY <3>2, <3>3
      <4> QED
        BY <4>1, EvenBehindEven
    <3>5. ASSUME NEW i \in 1 .. Len(z), z[i].kind = "head" PROVE i % 2 = 1
      <4>1. i \in Nat /\ i >= 1
        BY <3>2
      <4>2. CASE i <= Len(q)
        <5>1. i \in 1 .. Len(q)
          BY <3>2, <4>1, <4>2
        <5> QED
          BY <3>2, <3>3, <3>5, <5>1
      <4>3. CASE i = Len(q) + 1 \/ i = Len(q) + 3
        <5>1. Len(q) \in Nat /\ Len(q) % 2 = 0
          BY <3>2, <3>3
        <5> QED
          BY <4>3, <5>1, OddBehindEven
      <4> QED
        BY <3>2, <3>5, <4>2, <4>3
    <3> QED
      BY <2>3, <3>2, <3>3, <3>4, <3>5 DEF PairsOK, z
  <2> QED
    BY <2>2, <2>3
<1>13. ASSUME NEW s \in Servers, Arrive(s), NEW t \in Servers PROVE PairsOK(t)'
  <2>1. stream' = stream /\ arrived' = [arrived EXCEPT ![s] = arrived[s] + 2]
    BY <1>13 DEF Arrive
  <2>2. CASE t = s
    <3>1. arrived'[t] = arrived[t] + 2 /\ arrived[t] \in Nat /\ arrived[t] % 2 = 0
      BY <1>2, <1>3, <2>1, <2>2 DEF PairsOK
    <3>2. arrived'[t] % 2 = 0
      BY <3>1
    <3> QED
      BY <1>2, <2>1, <3>2 DEF PairsOK
  <2>3. CASE t # s
    BY <1>3, <1>6, <2>1, <2>3
  <2> QED
    BY <2>2, <2>3
<1>14. ASSUME NEW s \in Servers, ServerCloses(s) PROVE Cleared(s)
  BY <1>14 DEF ServerCloses, ClosedConn, Cleared
<1>15. CASE UNCHANGED vars \/ (\E o \in Opts : Start(o)) \/ (\E s \in Servers : OthersPut(s))
  BY <1>9, <1>15 DEF vars, conns, Start, OthersPut
<1> QED
  BY <1>4, <1>5, <1>7, <1>10, <1>11, <1>12, <1>13, <1>14, <1>15 DEF Next, Operate, Receive

\* of the call in progress,
LEMMA CallStep ==
  ASSUME TypeInv, [Next]_vars
  PROVE  /\ keep_alive' \in BOOLEAN /\ look_up' \in {"order", "random"} /\ split' \in BOOLEAN
         /\ pc' \in {"idle", "connect", "head", "body"}
         /\ call' \in 0 .. MaxCalls
         /\ opt' \in Opts \cup {"none"}
         /\ rest' \in Seq(Servers) /\ (pc' # "idle" => rest' # << >>)
         /\ pc' # "idle" => opt' \in Opts /\ call' > 0
<1> USE DEF TypeInv, ClientTypeOK
<1>1. CASE \E o \in Opts : Start(o)
  <2>1. PICK o \in Opts : Start(o)
    BY <1>1
  <2>2. /\ keep_alive' = keep_alive /\ split' = split /\ look_up' \in {"order", "random"}
        /\ pc' = "connect" /\ call' = call + 1 /\ call < MaxCalls /\ opt' = o
    BY <2>1 DEF Start
  <2>3. rest' \in {<<s>> : s \in Servers} \/ rest' \in Lookups(look_up')
    BY <2>1 DEF Start
  <2>4. rest' \in Seq(Servers) /\ rest' # << >>
    <3>1. \A s \in Servers : <<s>> \in Seq(Servers) /\ <<s>> # << >>
      OBVIOUS
    <3> QED
      BY <2>3, <3>1, PermutationsAreLists, Zenon
  <2>5. call' \in 0 .. MaxCalls /\ call' > 0
    BY <2>2, ClientAssumption
  <2> QED
    BY <2>2, <2>4, <2>5
<1>2. CASE Operate
  <2>1. /\ keep_alive' = keep_alive /\ split' = split /\ look_up' = look_up
        /\ call' = call /\ opt' = opt
    BY <1>2 DEF Operate, Send, SendFails, Receive, RecvEnd, RecvAll, RecvHead, RecvBody, TimeOut
  <2>2. pc # "idle"
    BY <1>2 DEF Operate, Send, SendFails, Receive, RecvEnd, RecvAll, RecvHead, RecvBody, TimeOut
  <2>3. /\ rest' = rest \/ (Len(rest) > 1 /\ rest' = Tail(rest))
        /\ pc' \in {"idle", "connect", "head", "body"}
    BY <1>2, Zenon DEF Operate, Send, SendFails, Receive, RecvEnd, RecvAll, RecvHead, RecvBody,
           TimeOut, Failed, Succeeded
  <2>4. rest' \in Seq(Servers) /\ rest' # << >>
    BY <2>2, <2>3, RestType
  <2> QED
    BY <2>1, <2>2, <2>3, <2>4
<1>3. CASE UNCHANGED <<keep_alive, look_up, split, pc, call, opt, rest>>
  BY <1>3
<1>4. Next => (\E o \in Opts : Start(o)) \/ Operate
              \/ UNCHANGED <<keep_alive, look_up, split, pc, call, opt, rest>>
  BY Zenon DEF Next, Execute, OthersPut, Arrive, ServerCloses
<1> QED
  BY <1>1, <1>2, <1>3, <1>4 DEF vars

\* A request is of an earlier call or of this one.
RequestType == [call: 1 .. MaxCalls, opt: Opts \cup {"delay"}, srv: Servers, live: BOOLEAN]

\* of the requests on their way,
LEMMA RequestsType ==
  ASSUME TypeInv, [Next]_vars
  PROVE  requests' \subseteq RequestType
<1> DEFINE dead(s) == {IF r.srv = s THEN [r EXCEPT !.live = FALSE] ELSE r : r \in requests}
<1>1. requests \subseteq RequestType
  BY DEF TypeInv, ClientTypeOK, RequestType
<1>2. \A r \in RequestType : [r EXCEPT !.live = FALSE] \in RequestType
  BY DEF RequestType
<1>3. \A s : dead(s) \subseteq RequestType
  BY <1>1, <1>2
<1>4. CASE Send
  <2> DEFINE new == [call |-> call, opt |-> Sent(opt), srv |-> Head(rest), live |-> TRUE]
  <2>1. requests' = requests \cup {new} \/ requests' = {new} \cup dead(Head(rest))
    BY <1>4, Zenon DEF Send
  <2>2. pc # "idle"
    BY <1>4 DEF Send
  <2>3. Head(rest) \in Servers /\ call \in 1 .. MaxCalls /\ Sent(opt) \in Opts \cup {"delay"}
    BY <2>2, RestType DEF TypeInv, ClientTypeOK, Sent
  <2>4. new \in RequestType
    BY <2>3 DEF RequestType
  <2> HIDE DEF new, dead
  <2> QED
    BY <1>1, <1>3, <2>1, <2>4
<1>5. CASE (\E s : requests' = dead(s)) \/ requests' = requests \/ \E r : requests' = requests \ {r}
  BY <1>1, <1>3, <1>5
<1>6. Next => Send \/ (\E s : requests' = dead(s)) \/ requests' = requests
                \/ \E r : requests' = requests \ {r}
  <2>1. \A s : ClosedConn(s) => requests' = dead(s)
    BY DEF ClosedConn
  <2> HIDE DEF dead
  <2>2. \A s : Consumed(s) => requests' = requests \/ requests' = dead(s)
    BY <2>1, Zenon DEF Consumed
  <2>3. Operate => Send \/ requests' = requests \/ \E s : ClosedConn(s) \/ Consumed(s)
    BY Zenon DEF Operate, SendFails, Receive, RecvEnd, RecvAll, RecvHead, RecvBody, TimeOut
  <2>4. Next => \/ Operate \/ requests' = requests \/ (\E s : ClosedConn(s))
                \/ \E r : requests' = requests \ {r}
    BY Zenon DEF Next, Start, Execute, OthersPut, Arrive, ServerCloses
  <2> QED
    BY <2>1, <2>2, <2>3, <2>4, Zenon
<1>7. UNCHANGED vars => requests' = requests
  BY DEF vars
<1> QED
  BY <1>4, <1>5, <1>6, <1>7

\* of what the servers hold,
LEMMA QueuesType ==
  ASSUME TypeInv, [Next]_vars
  PROVE  /\ queue' \in [Servers -> Seq(1 .. (MaxCalls + 1))]
         /\ executed' \subseteq [call: 1 .. MaxCalls, opt: Opts \cup {"delay"}, srv: Servers]
<1>1. /\ queue \in [Servers -> Seq(1 .. (MaxCalls + 1))]
      /\ executed \subseteq [call: 1 .. MaxCalls, opt: Opts \cup {"delay"}, srv: Servers]
  BY DEF TypeInv, ClientTypeOK
<1>2. CASE queue' = queue /\ executed' = executed
  BY <1>1, <1>2
<1>3. ASSUME NEW r \in requests, Execute(r)
      PROVE  /\ queue' \in [Servers -> Seq(1 .. (MaxCalls + 1))]
             /\ executed' \subseteq [call: 1 .. MaxCalls, opt: Opts \cup {"delay"}, srv: Servers]
  <2>1. PICK o \in Outcomes(r) :
          /\ queue' = [queue EXCEPT ![r.srv] = o.queue]
          /\ \/ executed' = executed
             \/ executed' = executed \cup {[call |-> r.call, opt |-> r.opt, srv |-> r.srv]}
    BY <1>3, Zenon DEF Execute
  <2>2. r.call \in 1 .. MaxCalls /\ r.opt \in Opts \cup {"delay"} /\ r.srv \in Servers
    BY DEF TypeInv, ClientTypeOK
  <2>3. o.queue \in Seq(1 .. (MaxCalls + 1))
    BY OutcomesType
  <2>4. queue' \in [Servers -> Seq(1 .. (MaxCalls + 1))]
    BY <1>1, <2>1, <2>2, <2>3
  <2> QED
    BY <1>1, <2>1, <2>2, <2>4
<1>4. ASSUME NEW s \in Servers, OthersPut(s)
      PROVE  /\ queue' \in [Servers -> Seq(1 .. (MaxCalls + 1))]
             /\ executed' \subseteq [call: 1 .. MaxCalls, opt: Opts \cup {"delay"}, srv: Servers]
  <2>1. queue' = [queue EXCEPT ![s] = <<MaxCalls + 1>>] /\ executed' = executed
    BY <1>4 DEF OthersPut
  <2>2. MaxCalls + 1 \in 1 .. (MaxCalls + 1)
    BY ClientAssumption
  <2>3. <<MaxCalls + 1>> \in Seq(1 .. (MaxCalls + 1))
    BY <2>2
  <2> QED
    BY <1>1, <2>1, <2>3
<1>5. Next => \/ queue' = queue /\ executed' = executed
              \/ \E r \in requests : Execute(r)
              \/ \E s \in Servers : OthersPut(s)
  BY Zenon DEF Next, Start, Operate, Send, SendFails, Receive, RecvEnd, RecvAll, RecvHead, RecvBody, TimeOut,
         Arrive, ServerCloses
<1> QED
  BY <1>2, <1>3, <1>4, <1>5 DEF vars

RetType == [ok: BOOLEAN, result: Results, data: Nat, reply: Part]

\* of the fields that a received part sets,
LEMMA RetFields ==
  ASSUME NEW x \in RetType
  PROVE  /\ \A v \in Results : [x EXCEPT !.result = v] \in RetType
         /\ \A v \in Results, p \in Part : [x EXCEPT !.result = v, !.reply = p] \in RetType
         /\ \A n \in Nat : [x EXCEPT !.ok = TRUE, !.data = n] \in RetType
BY DEF RetType

\* of the return value a call begins with,
LEMMA NoReplyType == [ok |-> FALSE, result |-> -1, data |-> 0, reply |-> NoReply] \in RetType
<1>1. NoReply \in Part
  BY DEF NoReply, Part, Results, Errno
<1> QED
  BY <1>1 DEF RetType, Results

\* The call reads its results from the heads of replies.
LEMMA ReadType ==
  ASSUME TypeInv, NEW s \in Servers, HeadAt(s) # 0
  PROVE  /\ ResultOf(s) \in Results /\ Taken(s)[HeadAt(s)] \in Part
         /\ Taken(s)[HeadAt(s)] = stream[s][HeadAt(s)]
         /\ arrived[s] > HeadAt(s) => Taken(s)[HeadAt(s) + 1].data \in Nat
<1>1. /\ HeadAt(s) \in 1 .. arrived[s] /\ arrived[s] \in 0 .. Len(stream[s])
      /\ HeadAt(s) \in 1 .. Len(stream[s])
      /\ \A i \in 1 .. arrived[s] : Taken(s)[i] = stream[s][i]
  BY HeadPlace
<1>2. stream[s] \in Seq(Part) /\ Len(stream[s]) \in Nat /\ ret.result \in Results
  BY LenProperties DEF TypeInv, ClientTypeOK
<1>3. \A i \in 1 .. Len(stream[s]) : stream[s][i] \in Part
  BY <1>2, ElementOfSeq
<1>4. \A i \in 1 .. arrived[s] : Taken(s)[i] \in Part
  BY <1>1, <1>2, <1>3
<1>5. \A p \in Part : p.result \in Results /\ p.data \in Nat
  BY DEF Part
<1>6. 1 \in 1 .. arrived[s] /\ (arrived[s] > HeadAt(s) => HeadAt(s) + 1 \in 1 .. arrived[s])
  BY <1>1, <1>2
<1>7. ResultOf(s) \in Results
  BY <1>2, <1>4, <1>5, <1>6 DEF ResultOf
<1> QED
  BY <1>1, <1>4, <1>5, <1>6, <1>7

\* of return value and history,
LEMMA RetStep ==
  ASSUME TypeInv, [Next]_vars
  PROVE  ret' \in RetType /\ read' \subseteq Part /\ late' \subseteq 1 .. MaxCalls
<1>1. ret \in RetType /\ read \subseteq Part /\ late \subseteq 1 .. MaxCalls
  BY DEF TypeInv, ClientTypeOK, RetType
<1>2. pc # "idle" => Head(rest) \in Servers /\ call \in 1 .. MaxCalls
  BY RestType DEF TypeInv, ClientTypeOK
<1>3. Errno \in Results /\ 404 \in Results
  BY DEF Results, Errno
<1>4. CASE UNCHANGED <<ret, read, late>>
  BY <1>1, <1>4
<1>5. CASE \E o \in Opts : Start(o)
  <2>1. /\ ret' = [ok |-> FALSE, result |-> -1, data |-> 0, reply |-> NoReply]
        /\ read' = {} /\ late' = late
    BY <1>5 DEF Start
  <2> QED
    BY <1>1, <2>1, NoReplyType
<1>6. CASE SendFails
  BY <1>1, <1>3, <1>6, RetFields DEF SendFails
<1>7. CASE RecvEnd \/ RecvAll \/ RecvHead
  <2> DEFINE s == Head(rest)
             h == Taken(s)[HeadAt(s)]
  <2>1. pc = "head" /\ HeadAt(s) # 0 /\ read' = read \cup {h} /\ late' = late
    BY <1>7 DEF RecvEnd, RecvAll, RecvHead
  <2>2. s \in Servers
    BY <1>2, <2>1
  <2>3. /\ ResultOf(s) \in Results /\ h \in Part
        /\ arrived[s] > HeadAt(s) => Taken(s)[HeadAt(s) + 1].data \in Nat
    BY <2>1, <2>2, ReadType
  <2>4. CASE RecvEnd
    <3>1. ret' = [ret EXCEPT !.result = 404]
      BY <2>4 DEF RecvEnd
    <3> HIDE DEF h, s
    <3>2. ret' \in RetType
      BY <1>1, <1>3, <3>1, RetFields, ZenonT(60)
    <3>3. read' \subseteq Part
      BY <1>1, <2>1, <2>3
    <3> QED
      BY <1>1, <2>1, <3>2, <3>3
  <2>5. CASE RecvAll
    <3>1. arrived[s] > HeadAt(s)
      BY <2>5 DEF RecvAll
    <3>2. \/ ret' = [ok |-> TRUE, result |-> ResultOf(s), data |-> Taken(s)[HeadAt(s) + 1].data,
                     reply |-> h]
          \/ ret' = [ret EXCEPT !.result = ResultOf(s)]
      BY <2>5, Zenon DEF RecvAll
    <3>3. ret' \in RetType
      <4> HIDE DEF h, s
      <4>1. CASE ret' = [ret EXCEPT !.result = ResultOf(s)]
        BY <1>1, <2>3, <4>1, RetFields
      <4>2. CASE ret' = [ok |-> TRUE, result |-> ResultOf(s),
                         data |-> Taken(s)[HeadAt(s) + 1].data, reply |-> h]
        BY <2>3, <3>1, <4>2 DEF RetType
      <4> QED
        BY <3>2, <4>1, <4>2
    <3> HIDE DEF h, s
    <3> QED
      BY <1>1, <2>1, <2>3, <3>3
  <2>6. CASE RecvHead
    <3>1. ret' = [ret EXCEPT !.result = ResultOf(s), !.reply = h]
      BY <2>6, Zenon DEF RecvHead
    <3> HIDE DEF h, s
    <3> QED
      BY <1>1, <2>1, <2>3, <3>1, RetFields
  <2> QED
    BY <1>7, <2>4, <2>5, <2>6
<1>8. CASE RecvBody
  <2> DEFINE s == Head(rest)
  <2>1. /\ arrived[s] > 0 /\ ret' = [ret EXCEPT !.ok = TRUE, !.data = stream[s][1].data]
        /\ read' = read /\ late' = late /\ pc = "body"
    BY <1>8 DEF RecvBody
  <2>2. s \in Servers
    BY <1>2, <2>1
  <2>3. stream[s] \in Seq(Part) /\ Len(stream[s]) \in Nat /\ arrived[s] \in 0 .. Len(stream[s])
    BY <2>2, LenProperties DEF TypeInv, ClientTypeOK
  <2> HIDE DEF s
  <2>4. 1 \in 1 .. Len(stream[s])
    BY <2>1, <2>3
  <2>5. stream[s][1].data \in Nat
    <3>1. stream[s][1] \in Part
      BY <2>3, <2>4, ElementOfSeq
    <3> QED
      BY <3>1 DEF Part
  <2> QED
    BY <1>1, <2>1, <2>5, RetFields
<1>9. CASE TimeOut
  <2>1. /\ ret' = [ret EXCEPT !.result = Errno] \/ ret' = ret
        /\ read' = read /\ late' = late \cup {call} /\ pc # "idle"
    BY <1>9 DEF TimeOut
  <2> QED
    BY <1>1, <1>2, <1>3, <2>1, RetFields
<1>10. Next => \/ UNCHANGED <<ret, read, late>>
               \/ \E o \in Opts : Start(o)
               \/ SendFails \/ RecvEnd \/ RecvAll \/ RecvHead \/ RecvBody \/ TimeOut
  BY Zenon DEF Next, Operate, Receive, Send, Execute, OthersPut, Arrive, ServerCloses
<1> QED
  BY <1>4, <1>5, <1>6, <1>7, <1>8, <1>9, <1>10 DEF vars

\* The connections with two replies and the calls that used them.
LEMMA HistorySteps ==
  ASSUME [Next]_vars
  PROVE  /\ \/ tainted' = tainted
            \/ \E s : tainted' = tainted \ {s}
            \/ \E r \in requests : r.live /\ tainted' = tainted \cup {r.srv}
         /\ muddled' = muddled \/ (pc = "connect" /\ muddled' = muddled \cup {call})
<1>1. \A s : ClosedConn(s) => tainted' = tainted \ {s}
  BY DEF ClosedConn
<1>2. \A s : Consumed(s) => tainted' = tainted \/ tainted' = tainted \ {s}
  BY <1>1, Zenon DEF Consumed
<1>3. Send => tainted' = tainted \/ \E s : tainted' = tainted \ {s}
  BY Zenon DEF Send, Fresh, conns
<1>4. Operate => Send \/ tainted' = tainted \/ \E s : ClosedConn(s) \/ Consumed(s)
  BY Zenon DEF Operate, SendFails, Receive, RecvEnd, RecvAll, RecvHead, RecvBody, TimeOut
<1>5. \A r \in requests : Execute(r) =>
        tainted' = tainted \/ (r.live /\ tainted' = tainted \cup {r.srv})
  BY ExecuteConns
<1>6. Next => \/ Operate \/ tainted' = tainted \/ (\E s : ClosedConn(s))
              \/ \E r \in requests : Execute(r)
  BY Zenon DEF Next, Start, OthersPut, Arrive, ServerCloses, conns
<1>7. Next => muddled' = muddled \/ (pc = "connect" /\ muddled' = muddled \cup {call})
  BY Zenon DEF Next, Start, Operate, Send, SendFails, Receive, RecvEnd, RecvAll, RecvHead,
     RecvBody, TimeOut, Execute, OthersPut, Arrive, ServerCloses
<1>8. UNCHANGED vars => tainted' = tainted /\ muddled' = muddled
  BY DEF vars, conns
<1> QED
  BY <1>1, <1>2, <1>3, <1>4, <1>5, <1>6, <1>7, <1>8, Zenon

\* of what was answered twice,
LEMMA HistoryType ==
  ASSUME TypeInv, [Next]_vars
  PROVE  tainted' \subseteq Servers /\ muddled' \subseteq 1 .. MaxCalls
<1>1. /\ tainted \subseteq Servers /\ muddled \subseteq 1 .. MaxCalls
      /\ \A r \in requests : r.srv \in Servers
  BY DEF TypeInv, ClientTypeOK
<1>2. pc = "connect" => call \in 1 .. MaxCalls
  BY DEF TypeInv, ClientTypeOK
<1> QED
  BY <1>1, <1>2, HistorySteps

\* and so all types.
LEMMA TypeStep ==
  ASSUME TypeInv, PairsInv, [Next]_vars
  PROVE  TypeInv'
<1>1. open' \subseteq Servers
  <2>1. open \subseteq Servers /\ (pc # "idle" => Head(rest) \in Servers)
    BY RestType DEF TypeInv, ClientTypeOK
  <2>2. Next => \/ \E s : open' = open \ {s}
                \/ open' = open
                \/ pc = "connect" /\ open' = open \cup {Head(rest)}
    <3>1. Send => open' = open \/ (pc = "connect" /\ open' = open \cup {Head(rest)})
      BY Zenon DEF Send, Fresh, conns
    <3>2. \A s : ClosedConn(s) => open' = open \ {s}
      BY DEF ClosedConn
    <3>3. \A s : Consumed(s) => open' = open \/ open' = open \ {s}
      BY <3>2, Zenon DEF Consumed
    <3>4. Operate => Send \/ open' = open \/ \E s : ClosedConn(s) \/ Consumed(s)
      BY Zenon DEF Operate, SendFails, Receive, RecvEnd, RecvAll, RecvHead, RecvBody, TimeOut
    <3>5. Next => Operate \/ open' = open \/ \E s : ClosedConn(s)
      BY Zenon DEF Next, Start, Execute, OthersPut, Arrive, ServerCloses, conns
    <3> QED
      BY <3>1, <3>2, <3>3, <3>4, <3>5, Zenon
  <2> QED
    BY <2>1, <2>2 DEF vars, conns
<1>2. /\ ret'.ok \in BOOLEAN /\ ret'.result \in Results /\ ret'.data \in Nat
      /\ ret'.reply \in Part /\ ret' \in RetType
  BY RetStep DEF RetType
<1>3. /\ stream' \in [Servers -> Seq(Part)] /\ arrived' \in [Servers -> Nat]
      /\ \A s \in Servers : arrived'[s] \in 0 .. Len(stream'[s])
  <2>1. /\ stream' \in [Servers -> Seq(Part)] /\ arrived' \in [Servers -> Nat]
        /\ \A s \in Servers : arrived'[s] <= Len(stream'[s])
    BY StreamsStep DEF StreamsOK
  <2>2. \A s \in Servers : Len(stream'[s]) \in Nat
    BY <2>1, LenProperties
  <2> QED
    BY <2>1, <2>2
<1> QED
  BY <1>1, <1>2, <1>3, CallStep, RequestsType, QueuesType, RetStep, HistoryType, Zenon
     DEF TypeInv, ClientTypeOK, RequestType, RetType

(***************************************************************************)
(* Requests                                                                *)
(***************************************************************************)

\* The requests once the connection to s is gone.
Dead(s) == {IF r.srv = s THEN [r EXCEPT !.live = FALSE] ELSE r : r \in requests}

\* Closing a connection leaves the requests it carried as they are, without a reader.
LEMMA DeadRequests ==
  ASSUME TypeInv, NEW s, NEW r \in Dead(s)
  PROVE  \E x \in requests : /\ r.call = x.call /\ r.opt = x.opt /\ r.srv = x.srv
                             /\ r.live => x = r /\ r.srv # s
<1>1. PICK x \in requests : r = IF x.srv = s THEN [x EXCEPT !.live = FALSE] ELSE x
  BY DEF Dead
<1>2. x \in RequestType
  BY DEF TypeInv, ClientTypeOK, RequestType
<1>3. CASE x.srv = s
  <2>1. r = [x EXCEPT !.live = FALSE]
    BY <1>1, <1>3
  <2>2. r.call = x.call /\ r.opt = x.opt /\ r.srv = x.srv /\ r.live = FALSE
    BY <1>2, <2>1 DEF RequestType
  <2> QED
    BY <2>2, Zenon
<1>4. CASE x.srv # s
  <2>1. r = x
    BY <1>1, <1>4
  <2> QED
    BY <1>4, <2>1, Zenon
<1> QED
  BY <1>3, <1>4

\* How the requests change: one is sent, a connection goes, one is carried out.
LEMMA RequestSteps ==
  ASSUME [Next]_vars
  PROVE  \/ Send
         \/ (\E s : requests' = Dead(s)) /\ executed' = executed
         \/ requests' = requests /\ executed' = executed
         \/ \E r \in requests : Execute(r)
<1>1. \A s : ClosedConn(s) => requests' = Dead(s)
  BY DEF ClosedConn, Dead
<1>2. \A s : Consumed(s) => requests' = requests \/ requests' = Dead(s)
  BY <1>1, Zenon DEF Consumed
<1>3. Operate => \/ Send
                 \/ executed' = executed /\ (requests' = requests
                                              \/ \E s : ClosedConn(s) \/ Consumed(s))
  BY Zenon DEF Operate, SendFails, Receive, RecvEnd, RecvAll, RecvHead, RecvBody, TimeOut
<1>4. Next => \/ Operate \/ (\E r \in requests : Execute(r))
              \/ executed' = executed /\ (requests' = requests \/ \E s : ClosedConn(s))
  BY Zenon DEF Next, Start, OthersPut, Arrive, ServerCloses
<1>5. UNCHANGED vars => requests' = requests /\ executed' = executed
  BY DEF vars
<1> QED
  BY <1>1, <1>2, <1>3, <1>4, <1>5, Zenon

\* As long as no reply is waited for, a connection is clean if no request was
\* answered twice on it.
LEMMA QuietClean ==
  ASSUME pc \notin {"head", "body"}, NEW s
  PROVE  Clean(s) <=> s \notin tainted
BY DEF Clean, Waits

\* What a step of an attempt, after the request, leaves: the connection is closed,
\* or read from and kept.
LEMMA AttemptConns ==
  ASSUME Operate, ~Send
  PROVE  /\ UNCHANGED <<call, opt, split, muddled, executed>> /\ pc # "idle"
         /\ \/ /\ Cleared(Head(rest)) /\ requests' = Dead(Head(rest))
               /\ tainted' = tainted \ {Head(rest)} /\ pc' \notin {"head", "body"}
            \/ /\ RecvEnd \/ RecvAll \/ RecvBody
               /\ requests' = requests /\ tainted' = tainted /\ pc' \notin {"head", "body"}
            \/ /\ RecvHead
               /\ requests' = requests /\ tainted' = tainted /\ pc' = "body" /\ rest' = rest
<1>1. UNCHANGED <<call, opt, split, muddled, executed>> /\ pc # "idle"
  BY DEF Operate, SendFails, Receive, RecvEnd, RecvAll, RecvHead, RecvBody, TimeOut
<1>2. Failed \/ Succeeded => pc' \notin {"head", "body"}
  BY DEF Failed, Succeeded
<1>3. ~RecvHead => pc' \notin {"head", "body"}
  <2>1. SendFails \/ RecvEnd \/ RecvAll \/ RecvBody \/ TimeOut => Failed \/ Succeeded
    BY Zenon DEF SendFails, RecvEnd, RecvAll, RecvBody, TimeOut
  <2> QED
    BY <1>2, <2>1 DEF Operate, Receive
<1>4. \A s : ClosedConn(s) => Cleared(s) /\ requests' = Dead(s) /\ tainted' = tainted \ {s}
  BY Zenon DEF ClosedConn, Dead, Cleared
<1>5. \A s : Consumed(s) => ClosedConn(s) \/ (requests' = requests /\ tainted' = tainted)
  BY Zenon DEF Consumed
<1>6. SendFails \/ TimeOut => ClosedConn(Head(rest))
  BY Zenon DEF SendFails, TimeOut
<1>7. RecvEnd \/ RecvAll => ClosedConn(Head(rest)) \/ Consumed(Head(rest))
  BY Zenon DEF RecvEnd, RecvAll
<1>8. RecvHead => requests' = requests /\ tainted' = tainted /\ pc' = "body" /\ rest' = rest
  BY Zenon DEF RecvHead
<1>9. RecvBody => (requests' = requests /\ tainted' = tainted) \/ ClosedConn(Head(rest))
  BY Zenon DEF RecvBody
<1> QED
  BY <1>1, <1>3, <1>4, <1>5, <1>6, <1>7, <1>8, <1>9, Zenon DEF Operate, Receive

\* When a head is read or an attempt ends, no server has a request left to answer
\* on a clean connection.
LEMMA AttemptEnds ==
  ASSUME TypeInv, ConnInv, RequestsOK, Operate, ~Send
  PROVE  \A r \in requests' : r.live => ~Clean(r.srv)'
<1> DEFINE s == Head(rest)
<1>1. s \in Servers /\ call' = call /\ muddled' = muddled
  BY RestType, AttemptConns
<1>2. \A r \in requests : r.live /\ Clean(r.srv) => pc = "head" /\ r.srv = s
  BY DEF RequestsOK
<1> HIDE DEF s
<1> SUFFICES ASSUME NEW r \in requests', r.live, Clean(r.srv)' PROVE FALSE
  OBVIOUS
<1>3. CASE /\ Cleared(s) /\ requests' = Dead(s)
           /\ tainted' = tainted \ {s} /\ pc' \notin {"head", "body"}
  <2>1. r \in requests /\ r.srv # s
    BY <1>3, DeadRequests
  <2>2. r.srv \notin tainted'
    BY <1>3 DEF Clean, Waits
  <2>3. Clean(r.srv)
    BY <1>3, <2>1, <2>2 DEF Clean
  <2> QED
    BY <1>2, <2>1, <2>3
<1>4. CASE /\ RecvEnd \/ RecvAll \/ RecvBody \/ RecvHead
           /\ requests' = requests /\ tainted' = tainted
           /\ pc' \notin {"head", "body"} \/ (RecvHead /\ pc' = "body" /\ rest' = rest)
  <2>1. Clean(r.srv)
    <3>1. CASE pc' \notin {"head", "body"}
      BY <1>4, <3>1 DEF Clean, Waits
    <3>2. CASE RecvHead /\ pc' = "body" /\ rest' = rest
      <4>1. pc = "head"
        BY <3>2 DEF RecvHead
      <4> QED
        BY <1>1, <1>4, <3>2, <4>1 DEF Clean, Waits
    <3> QED
      BY <1>4, <3>1, <3>2
  <2>2. pc = "head" /\ r.srv = s /\ Clean(s) /\ Unanswered(s)
    BY <1>2, <1>4, <2>1 DEF Unanswered
  <2>3. HeadAt(s) # 0
    BY <1>4, <2>2 DEF RecvEnd, RecvAll, RecvHead, RecvBody, s
  <2> QED
    BY <1>1, <2>2, <2>3, Reading DEF s
<1> QED
  BY <1>3, <1>4, AttemptConns, Zenon DEF s

\* A live request is always the one the current call waits for.
LEMMA RequestsStep ==
  ASSUME TypeInv, ConnInv, RequestsOK, [Next]_vars
  PROVE  RequestsOK'
<1>1. /\ \A r \in requests : r.call \in 1 .. MaxCalls /\ r.call <= call
      /\ \A e \in executed : e.call \in 1 .. MaxCalls /\ e.call <= call
      /\ call \in Nat
  BY DEF RequestsOK, TypeInv, ClientTypeOK
<1>2. call' = call \/ call' = call + 1
  <2>1. (\E o \in Opts : Start(o)) => call' = call + 1
    BY DEF Start
  <2>2. Next => (\E o \in Opts : Start(o)) \/ call' = call
    BY Zenon DEF Next, Operate, Send, SendFails, Receive, RecvEnd, RecvAll, RecvHead, RecvBody, TimeOut,
           Execute, OthersPut, Arrive, ServerCloses
  <2> QED
    BY <2>1, <2>2 DEF vars
<1>3. \A n \in 1 .. MaxCalls : n <= call => n <= call'
  BY <1>1, <1>2
<1>4. \A r \in requests' : r.call <= call'
  <2>1. CASE Send
    <3>1. /\ \A r \in requests' : r \in requests \/ r \in Dead(Head(rest)) \/ r.call = call
          /\ call' = call
      <4> DEFINE new == [call |-> call, opt |-> Sent(opt), srv |-> Head(rest), live |-> TRUE]
      <4>1. /\ requests' = requests \cup {new} \/ requests' = {new} \cup Dead(Head(rest))
            /\ call' = call
        BY <2>1, Zenon DEF Send, Dead
      <4>2. new.call = call
        OBVIOUS
      <4> HIDE DEF new
      <4> QED
        BY <4>1, <4>2
    <3> QED
      BY <1>1, <3>1, DeadRequests
  <2>2. CASE \E s : requests' = Dead(s)
    BY <1>1, <1>3, <2>2, DeadRequests
  <2>3. CASE requests' \subseteq requests
    BY <1>1, <1>3, <2>3
  <2>4. \A r : Execute(r) => requests' \subseteq requests
    BY DEF Execute
  <2> QED
    BY <2>1, <2>2, <2>3, <2>4, RequestSteps
<1>5. \A e \in executed' : e.call <= call'
  <2>1. CASE executed' = executed
    BY <1>1, <1>3, <2>1
  <2>2. ASSUME NEW r \in requests, Execute(r)
        PROVE  \A e \in executed' : e.call <= call'
    <3>1. \A e \in executed' : e \in executed \/ e.call = r.call
      BY <2>2 DEF Execute
    <3> QED
      BY <1>1, <1>3, <3>1
  <2>3. Send => executed' = executed
    BY DEF Send
  <2> QED
    BY <2>1, <2>2, <2>3, RequestSteps
<1>6. ASSUME NEW r \in requests', r.live, Clean(r.srv)'
      PROVE  /\ pc' = "head" /\ r.srv \notin tainted'
             /\ r = [call |-> call', opt |-> Sent(opt'), srv |-> Head(rest'), live |-> TRUE]
  <2>0. \A x \in requests : x.live /\ Clean(x.srv) =>
          /\ pc = "head" /\ x.srv \notin tainted
          /\ x = [call |-> call, opt |-> Sent(opt), srv |-> Head(rest), live |-> TRUE]
    BY DEF RequestsOK
  <2>1. CASE Send
    <3> DEFINE s == Head(rest)
               new == [call |-> call, opt |-> Sent(opt), srv |-> s, live |-> TRUE]
    <3>1. /\ pc = "connect" /\ pc' = "head" /\ call' = call /\ opt' = opt /\ rest' = rest
          /\ \/ /\ requests' = requests \cup {new} /\ tainted' = tainted
                /\ muddled' = IF s \in tainted THEN muddled \cup {call} ELSE muddled
             \/ /\ requests' = {new} \cup Dead(s) /\ tainted' = tainted \ {s}
      BY <2>1, Zenon DEF Send, Fresh, Dead, conns
    <3>2. new.srv = s
      OBVIOUS
    <3> HIDE DEF new, s
    <3>3. \A x \in requests : x.live => x.srv \in tainted
      <4>1. \A x \in requests : x.live => ~Clean(x.srv)
        BY <2>0, <3>1
      <4> QED
        BY <3>1, <4>1 DEF Clean
    <3>4. Waits(r.srv)' => r.srv = s
      BY <3>1 DEF Waits, s
    <3>5. CASE r \in requests /\ requests' = requests \cup {new} /\ tainted' = tainted
               /\ muddled' = IF s \in tainted THEN muddled \cup {call} ELSE muddled
      BY <1>6, <3>1, <3>3, <3>4, <3>5 DEF Clean
    <3>6. CASE r \in Dead(s) /\ tainted' = tainted \ {s}
      <4>1. r \in requests /\ r.srv # s
        BY <1>6, <3>6, DeadRequests
      <4> QED
        BY <1>6, <3>3, <3>4, <3>6, <4>1 DEF Clean
    <3>7. CASE r = new
      <4>1. r.srv = s
        BY <3>2, <3>7
      <4>2. s \notin tainted'
        BY <1>6, <3>1, <4>1 DEF Clean
      <4> QED
        BY <3>1, <3>7, <4>1, <4>2 DEF new, s
    <3> QED
      BY <3>1, <3>5, <3>6, <3>7
  <2>2. CASE Operate /\ ~Send
    BY <1>6, <2>2, AttemptEnds
  <2>3. ASSUME NEW x \in requests, Execute(x) PROVE pc' = "head" /\ r.srv \notin tainted' /\
          r = [call |-> call', opt |-> Sent(opt'), srv |-> Head(rest'), live |-> TRUE]
    <3>1. /\ UNCHANGED <<pc, call, opt, rest, muddled>> /\ requests' = requests \ {x}
          /\ tainted' = tainted \/ (x.live /\ tainted' = tainted \cup {x.srv})
      BY <2>3, ExecuteConns
    <3>2. \A y : Clean(y)' => Clean(y)
      BY <3>1 DEF Clean, Waits
    <3>3. r \in requests /\ r # x /\ Clean(r.srv)
      BY <1>6, <3>1, <3>2
    <3>4. /\ pc = "head" /\ r.srv \notin tainted
          /\ r = [call |-> call, opt |-> Sent(opt), srv |-> Head(rest), live |-> TRUE]
      BY <1>6, <2>0, <3>3
    <3>5. ~(x.live /\ x.srv = r.srv)
      <4> SUFFICES ASSUME x.live, x.srv = r.srv PROVE FALSE
        OBVIOUS
      <4>1. Clean(x.srv)
        BY <3>3
      <4>2. x = [call |-> call, opt |-> Sent(opt), srv |-> Head(rest), live |-> TRUE]
        BY <2>0, <4>1
      <4> QED
        BY <3>3, <3>4, <4>2, Zenon
    <3>6. r.srv \notin tainted'
      BY <3>1, <3>4, <3>5
    <3> QED
      BY <3>1, <3>4, <3>6, Zenon
  <2>4. CASE \E o \in Opts : Start(o)
    <3>1. /\ pc = "idle" /\ pc' = "connect" /\ requests' = requests /\ tainted' = tainted
      BY <2>4 DEF Start, conns
    <3>2. r.srv \notin tainted
      BY <1>6, <3>1 DEF Clean, Waits
    <3>3. Clean(r.srv)
      BY <3>2 DEF Clean
    <3> QED
      BY <1>6, <2>0, <3>1, <3>3
  <2>5. ASSUME NEW s \in Servers, ServerCloses(s) PROVE FALSE
    <3>1. /\ pc = "idle" /\ pc' = "idle" /\ requests' = Dead(s) /\ tainted' = tainted \ {s}
      BY <2>5, Zenon DEF ServerCloses, ClosedConn, Dead
    <3>2. r \in requests /\ r.srv # s
      BY <1>6, <3>1, DeadRequests
    <3>3. r.srv \notin tainted
      BY <1>6, <3>1, <3>2 DEF Clean, Waits
    <3>4. Clean(r.srv)
      BY <3>3 DEF Clean
    <3> QED
      BY <1>6, <2>0, <3>1, <3>2, <3>4
  <2>6. CASE UNCHANGED <<pc, call, opt, rest, requests, tainted, muddled>>
    <3>1. Clean(r.srv)
      BY <1>6, <2>6 DEF Clean, Waits
    <3> QED
      BY <1>6, <2>0, <2>6, <3>1, Zenon
  <2>7. Next => \/ Operate \/ (\E o \in Opts : Start(o)) \/ (\E x \in requests : Execute(x))
                \/ (\E s \in Servers : ServerCloses(s))
                \/ UNCHANGED <<pc, call, opt, rest, requests, tainted, muddled>>
    BY Zenon DEF Next, OthersPut, Arrive, conns
  <2>8. UNCHANGED vars => UNCHANGED <<pc, call, opt, rest, requests, tainted, muddled>>
    BY DEF vars, conns
  <2> QED
    BY <2>1, <2>2, <2>3, <2>4, <2>5, <2>6, <2>7, <2>8, Zenon
<1> QED
  BY <1>4, <1>5, <1>6, Zenon DEF RequestsOK

(***************************************************************************)
(* Connections                                                             *)
(***************************************************************************)

\* An empty stream has nothing of an earlier reply.
LEMMA StaleEmpty == IsStale(<< >>)
BY DEF IsStale

\* A connection nobody waits on, with at most a stale body on it.
Idle(s) == IsStale(stream[s])

\* When no connection is waited on, the clean ones must be idle.
LEMMA NobodyWaits ==
  ASSUME (pc \notin {"head", "body"})',
         \A s \in Servers : s \notin tainted' => Idle(s)'
  PROVE  ConnInv'
<1> SUFFICES ASSUME NEW s \in Servers, Clean(s)' PROVE ConnOK(s)'
  BY Zenon DEF ConnInv
<1>1. ~Waits(s)'
  BY DEF Waits
<1>2. s \notin tainted'
  BY <1>1, Zenon DEF Clean
<1> QED
  BY <1>1, <1>2, Zenon DEF ConnOK, Idle

\* The clean connections a call does not wait on are idle.
LEMMA OthersIdle ==
  ASSUME ConnInv, NEW s \in Servers, Clean(s), ~Waits(s) \/ Unanswered(s)
  PROVE  Idle(s)
BY Zenon DEF ConnInv, ConnOK, Idle

\* As before, for the connections other than the one in use.
LEMMA RestIdle ==
  ASSUME ConnInv, NEW s \in Servers, s \notin tainted, s # Head(rest) \/ pc \notin {"head", "body"}
  PROVE  Idle(s)
<1>1. Clean(s) /\ ~Waits(s)
  BY DEF Clean, Waits
<1> QED
  BY <1>1, OthersIdle

\* Once the connection in use is closed, no clean connection owes a reply.
LEMMA ClearedIdle ==
  ASSUME TypeInv, NEW s \in Servers, Cleared(s), tainted' = tainted \ {s},
         \A t \in Servers : t # s /\ t \notin tainted => Idle(t)
  PROVE  \A t \in Servers : t \notin tainted' => Idle(t)'
<1>1. stream \in [Servers -> Seq(Part)] /\ arrived \in [Servers -> Nat]
  BY DEF TypeInv, ClientTypeOK
<1>2. stream'[s] = << >>
  BY <1>1 DEF Cleared
<1>3. \A t \in Servers : t # s => stream'[t] = stream[t]
  BY <1>1 DEF Cleared
<1> TAKE t \in Servers
<1>4. CASE t = s
  BY <1>2, <1>4, StaleEmpty DEF Idle
<1>5. CASE t # s
  BY <1>3, <1>5 DEF Idle
<1> QED
  BY <1>4, <1>5

\* After an attempt at s: what is left of a reply is its body at most.
LEMMA CutIdle ==
  ASSUME TypeInv, NEW s \in Servers, NEW n \in 0 .. arrived[s], CutAt(s, n),
         tainted' = tainted,
         s \notin tainted => \/ n = Len(stream[s])
                             \/ n = Len(stream[s]) - 1 /\ stream[s][Len(stream[s])].kind = "body",
         \A t \in Servers : t # s /\ t \notin tainted => Idle(t)
  PROVE  \A t \in Servers : t \notin tainted' => Idle(t)'
<1>1. stream \in [Servers -> Seq(Part)] /\ arrived \in [Servers -> Nat]
      /\ arrived[s] \in 0 .. Len(stream[s])
  BY DEF TypeInv, ClientTypeOK
<1> DEFINE q == stream[s]
           cut == SubSeq(q, n + 1, Len(q))
<1>2. q \in Seq(Part) /\ Len(q) \in Nat /\ n \in 0 .. Len(q)
  BY <1>1, LenProperties
<1>3. Len(cut) = Len(q) - n /\ \A i \in 1 .. (Len(q) - n) : cut[i] = q[i + n]
  BY <1>2, CutType
<1>4. stream'[s] = cut
  BY <1>1 DEF CutAt
<1>5. \A t \in Servers : t # s => stream'[t] = stream[t]
  BY <1>1 DEF CutAt
<1> HIDE DEF cut
<1>6. s \notin tainted => Idle(s)'
  <2>1. CASE n = Len(q)
    <3>1. Len(cut) = 0
      BY <1>2, <1>3, <2>1
    <3>2. IsStale(cut)
      BY <3>1 DEF IsStale
    <3> QED
      BY <1>4, <3>2 DEF Idle
  <2>2. CASE n = Len(q) - 1 /\ q[Len(q)].kind = "body"
    <3>1. Len(cut) = 1 /\ cut[1] = q[1 + n] /\ 1 + n = Len(q)
      BY <1>2, <1>3, <2>2
    <3>2. cut[1].kind = "body"
      BY <2>2, <3>1, Zenon
    <3>3. IsStale(cut)
      BY <3>1, <3>2 DEF IsStale
    <3> QED
      BY <1>4, <3>3 DEF Idle
  <2> QED
    BY <2>1, <2>2
<1> TAKE t \in Servers
<1>7. CASE t = s
  BY <1>6, <1>7
<1>8. CASE t # s
  BY <1>5, <1>8 DEF Idle
<1> QED
  BY <1>7, <1>8

\* An attempt that ends leaves an idle connection, if it is clean.
LEMMA AttemptLeavesIdle ==
  ASSUME TypeInv, ConnInv, RequestsOK, Operate, ~Send, ~RecvHead
  PROVE  ConnInv'
<1> DEFINE s == Head(rest)
<1>1. pc # "idle" /\ s \in Servers /\ pc' \notin {"head", "body"}
  BY RestType, AttemptConns
<1>2. \A t \in Servers : t # s /\ t \notin tainted => Idle(t)
  BY RestIdle
<1>3. stream[s] \in Seq(Part) /\ Len(stream[s]) \in Nat /\ arrived[s] \in Nat
      /\ arrived[s] \in 0 .. Len(stream[s])
  BY <1>1, LenProperties DEF TypeInv, ClientTypeOK
<1> HIDE DEF s
<1>4. CASE Cleared(s) /\ tainted' = tainted \ {s}
  <2>1. \A t \in Servers : t \notin tainted' => Idle(t)'
    BY <1>1, <1>2, <1>4, ClearedIdle
  <2> QED
    BY <1>1, <2>1, NobodyWaits
<1>5. ASSUME NEW n \in 0 .. arrived[s], CutAt(s, n), tainted' = tainted,
             s \notin tainted =>
               \/ n = Len(stream[s])
               \/ n = Len(stream[s]) - 1 /\ stream[s][Len(stream[s])].kind = "body"
      PROVE  ConnInv'
  <2>1. \A t \in Servers : t \notin tainted' => Idle(t)'
    BY <1>1, <1>2, <1>5, CutIdle
  <2> QED
    BY <1>1, <2>1, NobodyWaits
<1>6. ClosedConn(s) => Cleared(s) /\ tainted' = tainted \ {s}
  BY DEF ClosedConn, Cleared
<1>7. ASSUME pc = "head", HeadAt(s) # 0, Consumed(s), keep_alive PROVE ConnInv'
  <2>1. CutAt(s, arrived[s]) /\ arrived[s] \in 0 .. arrived[s] /\ tainted' = tainted
    <3>1. arrived[s] - arrived[s] = 0 /\ arrived[s] \in 0 .. arrived[s]
      BY <1>3
    <3> QED
      BY <1>7, <3>1, Zenon DEF Consumed, CutAt
  <2>2. ASSUME s \notin tainted
        PROVE  \/ arrived[s] = Len(stream[s])
               \/ arrived[s] = Len(stream[s]) - 1 /\ stream[s][Len(stream[s])].kind = "body"
    <3>1. Clean(s)
      BY <2>2 DEF Clean
    <3>2. PICK k \in {0, 1} : ReplyAt(s, k) /\ arrived[s] >= k + 1 /\ arrived[s] <= Len(stream[s])
      BY <1>1, <1>7, <3>1, Reading DEF s
    <3>3. Len(stream[s]) = k + 2 /\ stream[s][k + 2].kind = "body"
      BY <2>2, <3>2 DEF ReplyAt
    <3>4. arrived[s] = Len(stream[s]) \/ arrived[s] = Len(stream[s]) - 1
      BY <1>3, <3>2, <3>3
    <3>5. stream[s][Len(stream[s])].kind = "body"
      BY <3>3, Zenon
    <3> QED
      BY <3>4, <3>5
  <2> QED
    BY <1>5, <2>1, <2>2
<1>8. CASE RecvEnd \/ RecvAll
  <2>1. pc = "head" /\ HeadAt(s) # 0 /\ (Consumed(s) \/ ClosedConn(s))
    BY <1>8, Zenon DEF RecvEnd, RecvAll, s
  <2>2. ~keep_alive /\ Consumed(s) => ClosedConn(s)
    BY Zenon DEF Consumed
  <2> QED
    BY <1>4, <1>6, <1>7, <2>1, <2>2
<1>9. CASE RecvBody
  <2>1. pc = "body" /\ arrived[s] > 0
    BY <1>9 DEF RecvBody, s
  <2>2. CASE keep_alive
    <3>1. /\ stream' = [stream EXCEPT ![s] = Tail(stream[s])]
          /\ arrived' = [arrived EXCEPT ![s] = arrived[s] - 1] /\ tainted' = tainted
      BY <1>9, <2>2 DEF RecvBody, s
    <3>2. stream[s] # << >>
      BY <1>3, <2>1, EmptySeq
    <3>3. Tail(stream[s]) = SubSeq(stream[s], 1 + 1, Len(stream[s]))
      BY <1>3, <3>2, TailIsSubSeq
    <3>4. 1 \in 0 .. arrived[s]
      BY <1>3, <2>1
    <3>5. CutAt(s, 1)
      BY <3>1, <3>3, Zenon DEF CutAt
    <3>6. s \notin tainted => 1 = Len(stream[s])
      <4> SUFFICES ASSUME s \notin tainted PROVE 1 = Len(stream[s])
        OBVIOUS
      <4>1. Clean(s) /\ Waits(s)
        BY <2>1 DEF Clean, Waits, s
      <4>2. HasBody(s)
        BY <1>1, <2>1, <4>1, Zenon DEF ConnInv, ConnOK
      <4> QED
        BY <4>2 DEF HasBody
    <3> QED
      BY <1>5, <3>1, <3>4, <3>5, <3>6
  <2>3. CASE ~keep_alive
    BY <1>4, <1>6, <1>9, <2>3 DEF RecvBody, s
  <2> QED
    BY <2>2, <2>3
<1>10. CASE SendFails \/ TimeOut
  BY <1>4, <1>6, <1>10 DEF SendFails, TimeOut, s
<1> QED
  BY <1>8, <1>9, <1>10 DEF Operate, Receive

\* A connection whose stream and call stay.
LEMMA ConnKept ==
  ASSUME ConnInv, NEW s \in Servers, stream'[s] = stream[s],
         Waits(s)' <=> Waits(s), Unanswered(s)' <=> Unanswered(s),
         s \in tainted' <=> s \in tainted, muddled' = muddled,
         pc' = pc, call' = call, opt' = opt, ret'.reply = ret.reply, Clean(s)'
  PROVE  ConnOK(s)'
<1>1. Clean(s)
  BY DEF Clean
<1>2. ConnOK(s)
  BY <1>1, Zenon DEF ConnInv
<1>3. IsStale(stream[s])' <=> IsStale(stream[s])
  BY DEF IsStale
<1>4. /\ ReplyAt(s, 0)' <=> ReplyAt(s, 0)
      /\ ReplyAt(s, 1)' <=> ReplyAt(s, 1)
  BY DEF ReplyAt
<1>5. HasBody(s)' <=> HasBody(s)
  BY DEF HasBody
<1> QED
  BY <1>2, <1>3, <1>4, <1>5, Zenon DEF ConnOK, HasReply

\* Reading the head leaves the body of the same reply first.
LEMMA HeadLeavesBody ==
  ASSUME TypeInv, ConnInv, RequestsOK, RecvHead
  PROVE  ConnInv'
<1> PICK s : s = Head(rest)
  OBVIOUS
<1> DEFINE q == stream[s]
           cut == SubSeq(q, arrived[s] + 1, Len(q))
<1>1. pc = "head" /\ HeadAt(s) # 0 /\ s \in Servers /\ arrived[s] = HeadAt(s)
  BY RestType DEF RecvHead
<1>2. /\ pc' = "body" /\ rest' = rest /\ call' = call /\ requests' = requests
      /\ tainted' = tainted /\ muddled' = muddled
      /\ stream' = [stream EXCEPT ![s] = cut]
      /\ ret' = [ret EXCEPT !.result = ResultOf(s), !.reply = Taken(s)[HeadAt(s)]]
  BY DEF RecvHead
<1>3. q \in Seq(Part) /\ arrived[s] \in 0 .. Len(q) /\ stream \in [Servers -> Seq(Part)]
      /\ Len(q) \in Nat /\ ret \in RetType
  BY <1>1, LenProperties DEF TypeInv, ClientTypeOK, RetType
<1>4. Len(cut) = Len(q) - arrived[s] /\ \A i \in 1 .. (Len(q) - arrived[s]) : cut[i] = q[i + arrived[s]]
  BY <1>3, CutType
<1>5. stream'[s] = cut /\ \A t \in Servers : t # s => stream'[t] = stream[t]
  BY <1>1, <1>2, <1>3
<1>6. \A t : (Waits(t)' <=> Waits(t)) /\ (Clean(t)' <=> Clean(t)) /\ (Unanswered(t)' <=> Unanswered(t))
  BY <1>1, <1>2 DEF Waits, Clean, Unanswered
<1> HIDE DEF cut
<1>7. ASSUME Clean(s) PROVE ConnOK(s)'
  <2>1. /\ ~Unanswered(s)
        /\ \E k \in {0, 1} :
             /\ ReplyAt(s, k) /\ HeadAt(s) = k + 1
             /\ \A i \in 1 .. arrived[s] : Taken(s)[i] = q[i]
    BY <1>1, <1>7, Reading
  <2>2. PICK k \in {0, 1} : /\ ReplyAt(s, k) /\ HeadAt(s) = k + 1
                            /\ \A i \in 1 .. arrived[s] : Taken(s)[i] = q[i]
    BY <2>1
  <2>3. /\ Len(q) = k + 2 \/ (Len(q) = k + 4 /\ s \in tainted)
        /\ q[k + 2].kind = "body" /\ q[k + 1].call = call /\ q[k + 2].data = q[k + 1].data
    BY <2>2 DEF ReplyAt
  <2> HIDE DEF q
  <2>4. arrived[s] = k + 1 /\ k + 1 \in 1 .. arrived[s]
    BY <1>1, <2>2
  <2>5. Len(cut) = 1 \/ (Len(cut) > 1 /\ s \in tainted)
    BY <1>4, <2>3, <2>4
  <2>6. cut[1] = q[k + 2]
    <3>1. 1 \in 1 .. (Len(q) - arrived[s]) /\ 1 + arrived[s] = k + 2
      BY <2>3, <2>4
    <3> QED
      BY <1>4, <3>1, Zenon
  <2>7. ret'.reply = q[k + 1]
    <3>1. ret'.reply = Taken(s)[HeadAt(s)]
      BY <1>2, <1>3 DEF RetType
    <3>2. Taken(s)[HeadAt(s)] = q[k + 1]
      BY <2>2, <2>4, Zenon
    <3> QED
      BY <3>1, <3>2
  <2>8. HasBody(s)'
    <3>1. /\ Len(cut) = 1 \/ (Len(cut) > 1 /\ s \in tainted')
          /\ cut[1].kind = "body" /\ cut[1].data = ret'.reply.data /\ ret'.reply.call = call'
      BY <1>2, <2>3, <2>5, <2>6, <2>7
    <3> QED
      BY <1>5, <3>1 DEF HasBody
  <2>9. ~Unanswered(s)' /\ Waits(s)' /\ pc' # "head"
    BY <1>1, <1>2, <1>6, <2>1 DEF Waits
  <2> QED
    BY <2>8, <2>9, Zenon DEF ConnOK
<1>8. ASSUME NEW t \in Servers, Clean(t), t # s PROVE ConnOK(t)'
  <2>1. ~Waits(t)
    BY <1>8 DEF Waits
  <2>2. Idle(t) /\ stream'[t] = stream[t] /\ ~Waits(t)'
    BY <1>5, <1>6, <1>8, <2>1, OthersIdle
  <2>3. IsStale(stream[t])'
    BY <2>2 DEF Idle
  <2> QED
    BY <2>2, <2>3, Zenon DEF ConnOK
<1> QED
  BY <1>6, <1>7, <1>8, Zenon DEF ConnInv

\* Sending on an idle connection makes the own reply the only one that can come.
LEMMA SendWaits ==
  ASSUME TypeInv, ConnInv, RequestsOK, Send
  PROVE  ConnInv'
<1> PICK s : s = Head(rest)
  OBVIOUS
<1> DEFINE new == [call |-> call, opt |-> Sent(opt), srv |-> s, live |-> TRUE]
<1>1. /\ pc = "connect" /\ pc' = "head" /\ rest' = rest /\ call' = call
      /\ \/ /\ stream' = stream /\ tainted' = tainted
            /\ muddled' = IF s \in tainted THEN muddled \cup {call} ELSE muddled
         \/ /\ Cleared(s) /\ tainted' = tainted \ {s}
      /\ new \in requests'
  BY Zenon DEF Send, Fresh, Cleared, conns
<1>2. s \in Servers
  BY <1>1, RestType
<1>3. \A t \in Servers : t \notin tainted => Idle(t)
  BY <1>1, RestIdle
<1>4. Unanswered(s)'
  <2>1. new.live /\ new.srv = s
    OBVIOUS
  <2> HIDE DEF new
  <2> QED
    BY <1>1, <2>1 DEF Unanswered
<1>5. \A t : Waits(t)' <=> t = s
  BY <1>1 DEF Waits
<1>6. \A t \in Servers : t \notin tainted' => Idle(t)'
  <2>1. CASE stream' = stream /\ tainted' = tainted
    BY <1>3, <2>1 DEF Idle
  <2>2. CASE Cleared(s) /\ tainted' = tainted \ {s}
    BY <1>2, <1>3, <2>2, ClearedIdle
  <2> QED
    BY <1>1, <2>1, <2>2
<1>7. ASSUME NEW t \in Servers, Clean(t)' PROVE ConnOK(t)'
  <2>1. t \notin tainted'
    BY <1>1, <1>5, <1>7 DEF Clean
  <2>2. IsStale(stream[t])'
    BY <1>6, <2>1 DEF Idle
  <2>3. pc' # "body" /\ (Waits(t)' => Unanswered(t)')
    BY <1>1, <1>4, <1>5
  <2> QED
    BY <2>2, <2>3, Zenon DEF ConnOK
<1> QED
  BY <1>7, Zenon DEF ConnInv

\* A server that carries a request out puts its reply on the connection of that
\* request, and a second one only if the connection is then no longer clean for
\* later calls.
LEMMA ExecuteAnswers ==
  ASSUME TypeInv, ConnInv, RequestsOK, NEW r \in requests, Execute(r)
  PROVE  ConnInv'
<1>1. /\ UNCHANGED <<pc, call, opt, rest, ret, muddled>> /\ requests' = requests \ {r}
  BY ExecuteConns
<1>2. PICK o \in Outcomes(r) :
        /\ IF r.live THEN Grown(r, o) ELSE UNCHANGED <<stream, arrived>>
        /\ tainted' = IF r.live /\ o.second # NoSecond THEN tainted \cup {r.srv} ELSE tainted
  BY ExecuteConns
<1>3. r.srv \in Servers /\ r.live \in BOOLEAN
  BY DEF TypeInv, ClientTypeOK
<1>4. \A t : Waits(t)' <=> Waits(t)
  BY <1>1 DEF Waits
<1>5. ASSUME NEW t \in Servers, Clean(t)', ~r.live \/ t # r.srv PROVE ConnOK(t)'
  <2>1. Unanswered(t)' <=> Unanswered(t)
    BY <1>1, <1>5 DEF Unanswered
  <2>2. stream'[t] = stream[t]
    <3>1. Grown(r, o) => (t # r.srv => stream'[t] = stream[t])
      BY GrownStream
    <3> QED
      BY <1>2, <1>5, <3>1
  <2>3. t \in tainted' <=> t \in tainted
    BY <1>2, <1>5
  <2> QED
    BY <1>1, <1>4, <1>5, <2>1, <2>2, <2>3, ConnKept
<1>6. ASSUME r.live, Clean(r.srv)' PROVE ConnOK(r.srv)'
  <2> DEFINE q == stream[r.srv]
             z == stream'[r.srv]
             s == r.srv
  <2>1. Clean(s)
    BY <1>1, <1>2, <1>4, <1>6 DEF Clean
  <2>2. /\ pc = "head" /\ s \notin tainted
        /\ \A x \in requests : x.live /\ x.srv = s => x = r
        /\ r = [call |-> call, opt |-> Sent(opt), srv |-> Head(rest), live |-> TRUE]
    BY <1>6, <2>1, Zenon DEF RequestsOK
  <2>3. r.srv = Head(rest) /\ r.call = call /\ r.opt = Sent(opt)
    BY <2>2
  <2>4. ~Unanswered(s)' /\ Waits(s)' /\ pc' = "head"
    BY <1>1, <2>2, <2>3 DEF Unanswered, Waits
  <2>5. Unanswered(s)
    BY <1>6 DEF Unanswered
  <2>6. IsStale(q)
    BY <1>3, <2>1, <2>5, OthersIdle DEF Idle
  <2>7. Grown(r, o)
    BY <1>2, <1>6
  <2>8. /\ Len(q) \in Nat
        /\ Len(z) = Len(q) + 2 \/ (Len(z) = Len(q) + 4 /\ o.second # NoSecond)
        /\ \A i \in 1 .. Len(q) : z[i] = q[i]
        /\ z[Len(q) + 1] = PartOf(r, o, "head", o.result)
        /\ z[Len(q) + 2] = PartOf(r, o, "body", o.result)
    BY <2>7, GrownStream
  <2>9. PICK k \in {0, 1} : k = Len(q)
    <3>1. Len(q) <= 1
      BY <2>6 DEF IsStale
    <3>2. PICK n \in Nat : n = Len(q)
      BY <2>8
    <3>3. n <= 1
      BY <3>1, <3>2, Zenon
    <3>4. n \in {0, 1}
      BY <3>3
    <3> QED
      BY <3>2, <3>4, Zenon
  <2>10. k = 1 => z[1].kind = "body"
    <3> SUFFICES ASSUME k = 1 PROVE z[1].kind = "body"
      OBVIOUS
    <3>1. 1 = Len(q)
      BY <2>9
    <3>2. 1 \in 1 .. Len(q)
      <4>1. 1 \in 1 .. 1
        OBVIOUS
      <4> QED
        BY <3>1, <4>1, Zenon
    <3>3. z[1] = q[1]
      BY <2>8, <3>2, Zenon
    <3>4. q[1].kind = "body"
      BY <2>6, <3>2, Zenon DEF IsStale
    <3> QED
      BY <3>3, <3>4, Zenon
  <2>11. /\ PartOf(r, o, "head", o.result).kind = "head"
         /\ PartOf(r, o, "body", o.result).kind = "body"
         /\ PartOf(r, o, "head", o.result).call = call
         /\ PartOf(r, o, "head", o.result).result = o.result
         /\ PartOf(r, o, "body", o.result).data = PartOf(r, o, "head", o.result).data
    BY <2>3 DEF PartOf
  <2>12. /\ opt = "put" => o.result # 404
         /\ opt \in {"put", "get"} => o.second = NoSecond
    BY <2>3, OutcomesType DEF Sent
  <2>13. o.second # NoSecond => s \in tainted'
    BY <1>2, <1>6
  <2>14. ReplyAt(s, k)'
    <3>1. Len(z) = k + 2 \/ (Len(z) = k + 4 /\ s \in tainted' /\ opt' \notin {"put", "get"})
      <4>1. CASE Len(z) = Len(q) + 2
        BY <2>9, <4>1, Zenon
      <4>2. CASE Len(z) = Len(q) + 4 /\ o.second # NoSecond
        BY <1>1, <2>9, <2>12, <2>13, <4>2
      <4> QED
        BY <2>8, <4>1, <4>2
    <3>2. z[k + 1] = PartOf(r, o, "head", o.result) /\ z[k + 2] = PartOf(r, o, "body", o.result)
      BY <2>8, <2>9, Zenon
    <3>3. /\ z[k + 1].kind = "head" /\ z[k + 2].kind = "body"
          /\ z[k + 1].call = call' /\ z[k + 2].data = z[k + 1].data
          /\ opt' = "put" => z[k + 1].result # 404
      BY <1>1, <2>11, <2>12, <3>2
    <3> QED
      BY <2>10, <3>1, <3>3, Zenon DEF ReplyAt
  <2>15. HasReply(s)'
    BY <2>14 DEF HasReply
  <2> QED
    BY <2>4, <2>15, Zenon DEF ConnOK
<1>7. ASSUME NEW t \in Servers, Clean(t)' PROVE ConnOK(t)'
  BY <1>5, <1>6, <1>7
<1> QED
  BY <1>7, Zenon DEF ConnInv

\* In every step, a clean connection holds at most the reply to the request sent
\* last on it.
LEMMA ConnStep ==
  ASSUME TypeInv, ConnInv, RequestsOK, [Next]_vars
  PROVE  ConnInv'
<1>1. CASE \E o \in Opts : Start(o)
  <2>1. /\ pc = "idle" /\ pc' = "connect" /\ UNCHANGED <<stream, tainted>>
    BY <1>1 DEF Start, conns
  <2>2. \A t \in Servers : t \notin tainted => Idle(t)
    BY <2>1, RestIdle
  <2>3. \A t \in Servers : t \notin tainted' => Idle(t)'
    BY <2>1, <2>2 DEF Idle
  <2>4. pc' \notin {"head", "body"}
    BY <2>1
  <2> QED
    BY <2>3, <2>4, NobodyWaits
<1>2. ASSUME NEW s \in Servers, ServerCloses(s) PROVE ConnInv'
  <2>1. pc = "idle" /\ pc' = "idle" /\ Cleared(s) /\ tainted' = tainted \ {s}
    BY <1>2 DEF ServerCloses, ClosedConn, Cleared
  <2>2. \A t \in Servers : t \notin tainted => Idle(t)
    BY <2>1, RestIdle
  <2>3. \A t \in Servers : t \notin tainted' => Idle(t)'
    BY <2>1, <2>2, ClearedIdle
  <2>4. pc' \notin {"head", "body"}
    BY <2>1
  <2> QED
    BY <2>3, <2>4, NobodyWaits
<1>3. CASE UNCHANGED <<pc, call, opt, rest, ret, stream, tainted, muddled, requests>>
  <2>1. ASSUME NEW t \in Servers, Clean(t)' PROVE ConnOK(t)'
    <3>1. /\ stream'[t] = stream[t]
          /\ (Waits(t)' <=> Waits(t)) /\ (Unanswered(t)' <=> Unanswered(t))
          /\ (t \in tainted' <=> t \in tainted)
      BY <1>3 DEF Waits, Unanswered
    <3> QED
      BY <1>3, <2>1, <3>1, ConnKept
  <2> QED
    BY <2>1, Zenon DEF ConnInv
<1>4. \A s : OthersPut(s) \/ Arrive(s) =>
        UNCHANGED <<pc, call, opt, rest, ret, stream, tainted, muddled, requests>>
  BY DEF OthersPut, Arrive, conns
<1>5. UNCHANGED vars =>
        UNCHANGED <<pc, call, opt, rest, ret, stream, tainted, muddled, requests>>
  BY DEF vars, conns
<1> QED
  BY <1>1, <1>2, <1>3, <1>4, <1>5, SendWaits, HeadLeavesBody, AttemptLeavesIdle,
     ExecuteAnswers DEF Next

(***************************************************************************)
(* Answers                                                                 *)
(***************************************************************************)

\* What was read so far belongs to the current call.
LEMMA OwnStep ==
  ASSUME TypeInv, ConnInv, RequestsOK, OwnInv, [Next]_vars
  PROVE  OwnInv'
<1>1. ret \in RetType /\ ret.ok \in BOOLEAN
  BY DEF TypeInv, ClientTypeOK, RetType
<1>2. pc # "idle" => Head(rest) \in Servers
  BY RestType
<1>3. CASE \E o \in Opts : Start(o)
  <2>1. pc' = "connect" /\ ret' = [ok |-> FALSE, result |-> -1, data |-> 0, reply |-> NoReply]
    BY <1>3 DEF Start
  <2>2. ret'.ok = FALSE /\ pc' # "idle"
    BY <2>1
  <2> QED
    BY <2>2 DEF OwnInv, AnswerIsOwn
<1>4. CASE pc # "idle" /\ ret'.ok = ret.ok
  BY <1>1, <1>4, Zenon DEF OwnInv, AnswerIsOwn
<1>40. muddled \subseteq muddled'
  BY HistorySteps
<1>5. SendFails \/ RecvEnd \/ RecvHead \/ TimeOut \/ Send => pc # "idle" /\ ret'.ok = ret.ok
  <2>1. \A v : [ret EXCEPT !.result = v].ok = ret.ok
    BY <1>1 DEF RetType
  <2>2. \A v, p : [ret EXCEPT !.result = v, !.reply = p].ok = ret.ok
    BY <1>1 DEF RetType
  <2>3. SendFails \/ RecvEnd \/ RecvHead \/ TimeOut \/ Send => pc # "idle"
    BY DEF SendFails, RecvEnd, RecvHead, TimeOut, Send
  <2>4. SendFails \/ RecvEnd \/ RecvHead \/ TimeOut \/ Send =>
          \/ ret' = ret \/ (\E v : ret' = [ret EXCEPT !.result = v])
          \/ \E v, p : ret' = [ret EXCEPT !.result = v, !.reply = p]
    <3>1. SendFails \/ RecvEnd => \E v : ret' = [ret EXCEPT !.result = v]
      BY Zenon DEF SendFails, RecvEnd
    <3>2. RecvHead => \E v, p : ret' = [ret EXCEPT !.result = v, !.reply = p]
      BY Zenon DEF RecvHead
    <3>3. TimeOut => ret' = ret \/ ret' = [ret EXCEPT !.result = Errno]
      BY Zenon DEF TimeOut
    <3>4. Send => ret' = ret
      BY DEF Send
    <3> QED
      BY <3>1, <3>2, <3>3, <3>4, Zenon
  <2>5. ASSUME NEW v, ret' = [ret EXCEPT !.result = v] PROVE ret'.ok = ret.ok
    BY <2>1, <2>5, Zenon
  <2>6. ASSUME NEW v, NEW p, ret' = [ret EXCEPT !.result = v, !.reply = p] PROVE ret'.ok = ret.ok
    BY <2>2, <2>6, Zenon
  <2> QED
    BY <2>3, <2>4, <2>5, <2>6
<1>6. CASE RecvAll
  <2> DEFINE s == Head(rest)
             h == HeadAt(s)
             q == stream[s]
  <2>1. pc = "head" /\ h # 0 /\ arrived[s] > h /\ call' = call /\ pc # "idle"
    BY <1>6 DEF RecvAll
  <2>2. CASE arrived[s] # h + 1
    <3>1. ret' = [ret EXCEPT !.result = ResultOf(s)]
      BY <1>6, <2>2, Zenon DEF RecvAll
    <3>2. ret'.ok = ret.ok
      BY <1>1, <3>1 DEF RetType
    <3> QED
      BY <1>4, <2>1, <3>2
  <2>3. CASE arrived[s] = h + 1
    <3>1. /\ ret' = [ok |-> TRUE, result |-> ResultOf(s), data |-> Taken(s)[h + 1].data,
                     reply |-> Taken(s)[h]]
          /\ pc' = "idle" /\ muddled' = muddled
      BY <1>6, <2>3, Zenon DEF RecvAll, Succeeded
    <3> SUFFICES ASSUME call \notin muddled
                 PROVE  ret'.reply.call = call /\ ret'.data = ret'.reply.data
      BY <2>1, <3>1, Zenon DEF OwnInv, AnswerIsOwn
    <3>2. Clean(s)
      BY <2>1 DEF Clean, Waits
    <3>3. PICK k \in {0, 1} : /\ ReplyAt(s, k) /\ h = k + 1
                              /\ \A i \in 1 .. arrived[s] : Taken(s)[i] = q[i]
      BY <1>2, <2>1, <3>2, Reading
    <3>4. q[k + 1].call = call /\ q[k + 2].data = q[k + 1].data
      BY <3>3 DEF ReplyAt
    <3> HIDE DEF h, q
    <3>5. h \in 1 .. arrived[s] /\ h + 1 \in 1 .. arrived[s] /\ h + 1 = k + 2
      BY <2>3, <3>3
    <3>6. Taken(s)[h] = q[k + 1] /\ Taken(s)[h + 1] = q[k + 2]
      BY <3>3, <3>5, Zenon
    <3>7. ret'.reply = Taken(s)[h] /\ ret'.data = Taken(s)[h + 1].data
      BY <3>1
    <3> QED
      BY <3>4, <3>6, <3>7
  <2> QED
    BY <2>2, <2>3
<1>7. CASE RecvBody
  <2> DEFINE s == Head(rest)
  <2>1. /\ pc = "body" /\ pc' = "idle" /\ call' = call /\ muddled' = muddled
        /\ ret' = [ret EXCEPT !.ok = TRUE, !.data = stream[s][1].data]
    BY <1>7, Zenon DEF RecvBody, Succeeded
  <2>2. ret'.data = stream[s][1].data /\ ret'.reply = ret.reply
    BY <1>1, <2>1 DEF RetType
  <2> SUFFICES ASSUME call \notin muddled
               PROVE  ret'.reply.call = call /\ ret'.data = ret'.reply.data
    BY <2>1, Zenon DEF OwnInv, AnswerIsOwn
  <2>3. Waits(s) /\ Clean(s) /\ s \in Servers
    BY <1>2, <2>1 DEF Waits, Clean
  <2>4. HasBody(s)
    BY <2>1, <2>3, Zenon DEF ConnInv, ConnOK
  <2> QED
    BY <2>2, <2>4 DEF HasBody
<1>8. CASE UNCHANGED <<pc, call, ret>>
  BY <1>8, <1>40 DEF OwnInv, AnswerIsOwn
<1>9. Next => \/ (\E o \in Opts : Start(o)) \/ SendFails \/ RecvEnd \/ RecvHead \/ TimeOut \/ Send
              \/ RecvAll \/ RecvBody \/ UNCHANGED <<pc, call, ret>>
  BY Zenon DEF Next, Operate, Receive, Execute, OthersPut, Arrive, ServerCloses
<1>10. UNCHANGED vars => UNCHANGED <<pc, call, ret>>
  BY DEF vars
<1> QED
  BY <1>3, <1>4, <1>5, <1>6, <1>7, <1>8, <1>9, <1>10, Zenon

\* With whole replies, what the return value says came from a reply to the call.
LEMMA WholeStep ==
  ASSUME TypeInv, ConnInv, PairsInv, RequestsOK, WholeInv, OwnInv, [Next]_vars
  PROVE  WholeInv'
<1>1. /\ ret \in RetType /\ ret.ok \in BOOLEAN /\ split' = split /\ muddled \subseteq muddled'
  <2>1. Next => split' = split
    BY Zenon DEF Next, Start, Operate, Send, SendFails, Receive, RecvEnd, RecvAll, RecvHead,
       RecvBody, TimeOut, Execute, OthersPut, Arrive, ServerCloses
  <2>2. muddled \subseteq muddled'
    BY HistorySteps
  <2> QED
    BY <2>1, <2>2 DEF vars, TypeInv, ClientTypeOK, RetType
<1> DEFINE Ends == /\ opt' = "get" /\ (pc' # "idle" \/ ret'.result = 404) =>
                        \A h \in read' : h.result = 404
                   /\ pc' = "idle" /\ ret'.ok => ret'.result = ret'.reply.result
<1> SUFFICES ASSUME ~split, call' \notin muddled' PROVE Ends
  BY <1>1, Zenon DEF WholeInv
<1>2. CASE \E o \in Opts : Start(o)
  <2>1. pc' = "connect" /\ read' = {}
    BY <1>2 DEF Start
  <2> QED
    BY <2>1
<1>3. CASE ~ \E o \in Opts : Start(o)
  <2>1. call' = call /\ opt' = opt
    <3>1. Next => call' = call /\ opt' = opt
      BY <1>3, Zenon DEF Next, Operate, Send, SendFails, Receive, RecvEnd, RecvAll, RecvHead,
         RecvBody, TimeOut, Execute, OthersPut, Arrive, ServerCloses
    <3> QED
      BY <3>1 DEF vars
  <2>2. call \notin muddled
    BY <1>1, <2>1
  <2>3. /\ opt = "get" /\ (pc # "idle" \/ ret.result = 404) => \A h \in read : h.result = 404
        /\ pc = "idle" /\ ret.ok => ret.result = ret.reply.result
        /\ pc # "idle" => ret.ok = FALSE
        /\ pc # "body"
    BY <1>1, <2>2 DEF WholeInv, OwnInv, PairsInv
  <2>4. CASE UNCHANGED <<pc, ret, read>>
    BY <2>1, <2>3, <2>4
  <2>5. CASE Send
    BY <2>1, <2>3, <2>5 DEF Send
  <2>6. CASE SendFails \/ TimeOut
    <3>1. pc # "idle" /\ read' = read /\ ret'.ok = ret.ok
      <4>1. [ret EXCEPT !.result = Errno].ok = ret.ok
        BY <1>1 DEF RetType
      <4> QED
        BY <2>6, <4>1 DEF SendFails, TimeOut
    <3> QED
      BY <2>1, <2>3, <3>1
  <2>7. CASE RecvEnd \/ RecvAll \/ RecvHead
    <3> DEFINE s == Head(rest)
               q == stream[s]
               h == Taken(s)[HeadAt(s)]
    <3>1. pc = "head" /\ pc # "idle" /\ HeadAt(s) # 0 /\ read' = read \cup {h}
      BY <2>7 DEF RecvEnd, RecvAll, RecvHead
    <3>2. s \in Servers
      BY <3>1, RestType
    <3>3. Clean(s)
      BY <2>2, <3>1 DEF Clean, Waits
    <3>4. PICK k \in {0, 1} :
            /\ ReplyAt(s, k) /\ HeadAt(s) = k + 1
            /\ arrived[s] >= k + 1 /\ arrived[s] <= Len(q)
            /\ \A i \in 1 .. arrived[s] : Taken(s)[i] = q[i]
            /\ ResultOf(s) = IF k = 0 THEN q[1].result ELSE ret.result
      BY <3>1, <3>2, <3>3, Reading
    <3>5. /\ Len(q) = k + 2 \/ (Len(q) = k + 4 /\ opt \notin {"put", "get"})
          /\ q[k + 1].kind = "head"
      BY <3>4 DEF ReplyAt
    <3>6. /\ arrived[s] % 2 = 0 /\ arrived[s] \in Nat
          /\ \A i \in 1 .. Len(q) : q[i].kind = "head" => i % 2 = 1
      BY <3>2 DEF PairsInv, PairsOK, TypeInv
    <3> HIDE DEF q
    <3>7. k = 0
      <4> SUFFICES ASSUME k = 1 PROVE FALSE
        OBVIOUS
      <4>1. 2 \in 1 .. Len(q) /\ q[2].kind = "head"
        BY <3>5
      <4>2. 2 % 2 = 1
        BY <3>6, <4>1, Zenon
      <4> QED
        BY <4>2
    <3>8. HeadAt(s) = 1 /\ arrived[s] # 1
      <4>1. HeadAt(s) = 0 + 1 /\ arrived[s] # 1
        BY <3>4, <3>6, <3>7
      <4> QED
        BY <4>1
    <3>9. h = q[1] /\ ResultOf(s) = h.result
      <4>1. 1 \in 1 .. arrived[s]
        BY <3>4, <3>6, <3>7
      <4> QED
        BY <3>4, <3>7, <3>8, <4>1, Zenon
    <3> HIDE DEF h, s
    <3>10. CASE RecvEnd
      <4>1. ResultOf(s) = 404 /\ ret' = [ret EXCEPT !.result = 404]
        BY <3>10, Zenon DEF RecvEnd, s
      <4>2. ret'.ok = ret.ok
        BY <1>1, <4>1 DEF RetType
      <4>3. opt = "get" => \A x \in read' : x.result = 404
        BY <2>3, <3>1, <3>9, <4>1
      <4> QED
        BY <2>1, <2>3, <3>1, <4>2, <4>3
    <3>11. CASE RecvAll /\ arrived[s] = HeadAt(s) + 1
      <4>1. /\ ret' = [ok |-> TRUE, result |-> ResultOf(s),
                       data |-> Taken(s)[HeadAt(s) + 1].data, reply |-> h]
            /\ pc' = "idle" /\ ResultOf(s) # 404
        BY <3>11, Zenon DEF RecvAll, Succeeded, h, s
      <4>2. ret'.result = ResultOf(s) /\ ret'.reply = h
        BY <4>1
      <4> QED
        BY <3>9, <4>1, <4>2
    <3>12. CASE RecvAll /\ arrived[s] # HeadAt(s) + 1
      <4>1. ret' = [ret EXCEPT !.result = ResultOf(s)] /\ arrived[s] > HeadAt(s)
        BY <3>12, Zenon DEF RecvAll, s
      <4>2. ret'.ok = ret.ok
        BY <1>1, <4>1 DEF RetType
      <4>3. opt # "get"
        <5>1. Len(q) # 2
          BY <3>4, <3>6, <3>8, <3>12, <4>1
        <5> QED
          BY <3>5, <3>7, <5>1
      <4> QED
        BY <2>1, <2>3, <3>1, <4>2, <4>3
    <3>13. CASE RecvHead
      <4>1. arrived[s] = HeadAt(s)
        BY <3>13 DEF RecvHead, s
      <4> QED
        BY <3>8, <4>1
    <3> QED
      BY <2>7, <3>10, <3>11, <3>12, <3>13
  <2>8. ~RecvBody
    BY <2>3 DEF RecvBody
  <2>9. Next => \/ UNCHANGED <<pc, ret, read>> \/ Send
                \/ SendFails \/ TimeOut \/ RecvEnd \/ RecvAll \/ RecvHead \/ RecvBody
    BY <1>3, Zenon DEF Next, Operate, Receive, Execute, OthersPut, Arrive, ServerCloses
  <2> QED
    BY <2>4, <2>5, <2>6, <2>7, <2>8, <2>9 DEF vars
<1> QED
  BY <1>2, <1>3

(***************************************************************************)
(* Puts                                                                    *)
(***************************************************************************)

\* Only a Send adds a place for a message.
LEMMA PlacesStep ==
  ASSUME TypeInv, RequestsOK, [Next]_vars, NEW c, NEW s, PutAt(c, s)'
  PROVE  \/ PutAt(c, s)
         \/ Send /\ c = call /\ s = Head(rest) /\ opt = "put"
<1>1. CASE Send
  <2> DEFINE new == [call |-> call, opt |-> Sent(opt), srv |-> Head(rest), live |-> TRUE]
  <2>1. /\ requests' = requests \cup {new} \/ requests' = {new} \cup Dead(Head(rest))
        /\ executed' = executed
    BY <1>1, Zenon DEF Send, Dead
  <2>2. CASE [call |-> c, opt |-> "put", srv |-> s] \in executed'
    BY <2>1, <2>2 DEF PutAt
  <2>3. CASE \E r \in requests' : r.call = c /\ r.opt = "put" /\ r.srv = s
    <3>1. PICK r \in requests' : r.call = c /\ r.opt = "put" /\ r.srv = s
      BY <2>3
    <3>2. CASE r = new
      <4>1. call = c /\ Sent(opt) = "put" /\ Head(rest) = s
        BY <3>1, <3>2
      <4>2. opt = "put"
        BY <4>1 DEF Sent
      <4> QED
        BY <1>1, <4>1, <4>2
    <3>3. CASE r \in requests
      BY <3>1, <3>3, Zenon DEF PutAt
    <3>4. CASE r \in Dead(Head(rest))
      <4>1. PICK x \in requests : r.call = x.call /\ r.opt = x.opt /\ r.srv = x.srv
        BY <3>4, DeadRequests
      <4> QED
        BY <3>1, <4>1, Zenon DEF PutAt
    <3> HIDE DEF new
    <3> QED
      BY <2>1, <3>2, <3>3, <3>4
  <2> QED
    BY <2>2, <2>3 DEF PutAt
<1>2. CASE (\E t : requests' = Dead(t)) /\ executed' = executed
  <2>1. CASE [call |-> c, opt |-> "put", srv |-> s] \in executed'
    BY <1>2, <2>1 DEF PutAt
  <2>2. CASE \E r \in requests' : r.call = c /\ r.opt = "put" /\ r.srv = s
    <3>1. PICK r \in requests' : r.call = c /\ r.opt = "put" /\ r.srv = s
      BY <2>2
    <3>2. PICK x \in requests : r.call = x.call /\ r.opt = x.opt /\ r.srv = x.srv
      BY <1>2, <3>1, DeadRequests
    <3> QED
      BY <3>1, <3>2, Zenon DEF PutAt
  <2> QED
    BY <2>1, <2>2 DEF PutAt
<1>3. CASE requests' = requests /\ executed' = executed
  BY <1>3 DEF PutAt
<1>4. ASSUME NEW r \in requests, Execute(r) PROVE PutAt(c, s)
  <2>1. /\ requests' \subseteq requests
        /\ \/ executed' = executed
           \/ executed' = executed \cup {[call |-> r.call, opt |-> r.opt, srv |-> r.srv]}
    BY <1>4, Zenon DEF Execute
  <2>2. CASE [call |-> c, opt |-> "put", srv |-> s] \in executed' /\ PutAt(c, s)'
    <3>1. CASE [call |-> c, opt |-> "put", srv |-> s] \in executed
      BY <3>1 DEF PutAt
    <3>2. CASE [call |-> c, opt |-> "put", srv |-> s] = [call |-> r.call, opt |-> r.opt, srv |-> r.srv]
      <4>1. r.call = c /\ r.opt = "put" /\ r.srv = s
        BY <3>2
      <4> QED
        BY <4>1, Zenon DEF PutAt
    <3> QED
      BY <2>1, <2>2, <3>1, <3>2
  <2>3. CASE \E x \in requests' : x.call = c /\ x.opt = "put" /\ x.srv = s
    BY <2>1, <2>3 DEF PutAt
  <2> QED
    BY <2>2, <2>3 DEF PutAt
<1> QED
  BY <1>1, <1>2, <1>3, <1>4, RequestSteps

\* No call that was not started yet has a message anywhere.
LEMMA NoPutYet ==
  ASSUME TypeInv, RequestsOK, NEW c \in Nat, c > call, NEW s
  PROVE  ~PutAt(c, s)
<1>1. call \in Nat /\ \A r \in requests : r.call \in Nat /\ r.call <= call
  BY ClientAssumption DEF TypeInv, ClientTypeOK, RequestsOK
<1>2. \A e \in executed : e.call \in Nat /\ e.call <= call
  BY ClientAssumption DEF TypeInv, ClientTypeOK, RequestsOK
<1>3. [call |-> c, opt |-> "put", srv |-> s] \notin executed
  BY <1>1, <1>2
<1>4. \A r \in requests : r.call # c
  BY <1>1
<1> QED
  BY <1>3, <1>4 DEF PutAt

\* "end" never is the answer to a put, and a put goes on to the next server only
\* if it could not be sent or was given up.
LEMMA PutGoesOn ==
  ASSUME TypeInv, ConnInv, RequestsOK, PutInv, [Next]_vars, opt = "put", pc # "idle",
         call \notin muddled
  PROVE  /\ pc' # "idle" => ret'.result # 404
         /\ pc' = "connect" => (pc = "connect" \/ call \in late')
<1>1. ret \in RetType /\ Head(rest) \in Servers /\ ret.result # 404
  BY RestType DEF TypeInv, RetType, PutInv
<1>2. CASE SendFails \/ TimeOut
  <2>1. ret' = ret \/ ret' = [ret EXCEPT !.result = Errno]
    BY <1>2 DEF SendFails, TimeOut
  <2>2. pc = "connect" \/ late' = late \cup {call}
    BY <1>2, Zenon DEF SendFails, TimeOut
  <2>3. ret'.result # 404
    BY <1>1, <2>1 DEF RetType, Errno
  <2> QED
    BY <2>2, <2>3
<1>3. CASE RecvEnd \/ RecvAll \/ RecvHead
  <2> DEFINE s == Head(rest)
             q == stream[s]
  <2>1. pc = "head" /\ HeadAt(s) # 0
    BY <1>3 DEF RecvEnd, RecvAll, RecvHead
  <2>2. Clean(s)
    BY <2>1 DEF Clean, Waits
  <2>3. PICK k \in {0, 1} :
          /\ ReplyAt(s, k) /\ HeadAt(s) = k + 1
          /\ arrived[s] >= k + 1 /\ arrived[s] <= Len(q)
          /\ ResultOf(s) = IF k = 0 THEN q[1].result ELSE ret.result
    BY <1>1, <2>1, <2>2, Reading
  <2>31. Len(q) = k + 2 /\ q[k + 1].result # 404
    BY <2>3 DEF ReplyAt
  <2> HIDE DEF q
  <2>4. ResultOf(s) # 404
    <3>1. CASE k = 0
      <4>1. k + 1 = 1
        BY <3>1
      <4>2. q[1].result # 404
        BY <2>31, <4>1, Zenon
      <4>3. ResultOf(s) = q[1].result
        BY <2>3, <3>1, Zenon
      <4> QED
        BY <4>2, <4>3, Zenon
    <3>2. CASE k # 0
      BY <1>1, <2>3, <3>2, Zenon
    <3> QED
      BY <3>1, <3>2
  <2>5. ~RecvEnd
    BY <2>4 DEF RecvEnd
  <2>6. CASE RecvHead
    <3>1. pc' = "body" /\ ret' = [ret EXCEPT !.result = ResultOf(s), !.reply = Taken(s)[HeadAt(s)]]
      BY <2>6 DEF RecvHead
    <3>2. ret'.result = ResultOf(s)
      BY <1>1, <3>1 DEF RetType
    <3> QED
      BY <2>4, <3>1, <3>2
  <2>7. CASE RecvAll
    <3>1. arrived[s] > HeadAt(s)
      BY <2>7 DEF RecvAll
    <3>2. arrived[s] = HeadAt(s) + 1
      <4>1. arrived[s] \in Nat
        BY <1>1 DEF TypeInv
      <4> QED
        BY <2>3, <2>31, <3>1, <4>1
    <3>3. pc' = "idle"
      BY <2>7, <3>2, Zenon DEF RecvAll, Succeeded
    <3> QED
      BY <3>3
  <2> QED
    BY <1>3, <2>5, <2>6, <2>7
<1>4. CASE RecvBody
  <2>1. pc' = "idle"
    BY <1>4, Zenon DEF RecvBody, Succeeded
  <2> QED
    BY <2>1
<1>5. CASE Send
  <2>1. pc' = "head" /\ ret' = ret
    BY <1>5 DEF Send
  <2> QED
    BY <1>1, <2>1
<1>6. CASE UNCHANGED <<pc, ret>>
  BY <1>1, <1>6
<1>7. ~ \E o \in Opts : Start(o)
  BY DEF Start
<1>8. Next => \/ (\E o \in Opts : Start(o)) \/ Send \/ SendFails \/ TimeOut \/ RecvEnd \/ RecvAll
              \/ RecvHead \/ RecvBody \/ UNCHANGED <<pc, ret>>
  BY Zenon DEF Next, Operate, Receive, Execute, OthersPut, Arrive, ServerCloses
<1> QED
  BY <1>2, <1>3, <1>4, <1>5, <1>6, <1>7, <1>8 DEF vars

\* Without a time-out only one server has or may get the message of a call.
LEMMA PutStep ==
  ASSUME TypeInv, ConnInv, RequestsOK, PutInv, [Next]_vars
  PROVE  PutInv'
<1>1. call \in Nat /\ Spoiled \subseteq Spoiled' /\ (pc # "idle" => Head(rest) \in Servers)
  <2>1. Next => late' = late \/ late' = late \cup {call}
    BY Zenon DEF Next, Start, Operate, Send, SendFails, Receive, RecvEnd, RecvAll, RecvHead,
       RecvBody, TimeOut, Execute, OthersPut, Arrive, ServerCloses
  <2>2. UNCHANGED vars => late' = late
    BY DEF vars
  <2>3. call \in Nat
    BY ClientAssumption DEF TypeInv, ClientTypeOK
  <2>4. muddled \subseteq muddled'
    BY HistorySteps
  <2>5. Spoiled \subseteq Spoiled'
    BY <2>1, <2>2, <2>4 DEF Spoiled
  <2> QED
    BY <2>3, <2>5, RestType
<1>2. /\ \A c \in 1 .. call : c \notin Spoiled =>
           \A s, t \in Servers : PutAt(c, s) /\ PutAt(c, t) => s = t
      /\ pc = "connect" /\ call \notin Spoiled => \A s \in Servers : ~PutAt(call, s)
      /\ pc \in {"head", "body"} /\ call \notin Spoiled =>
           \A s \in Servers : PutAt(call, s) => s = Head(rest)
      /\ opt # "put" => \A s \in Servers : ~PutAt(call, s)
  BY DEF PutInv
<1>3. PICK k : k = call'
  OBVIOUS
<1>4. \A s : PutAt(call, s)' <=> PutAt(k, s)'
  BY <1>3 DEF PutAt
<1>5. CASE \E o \in Opts : Start(o)
  <2>1. PICK o \in Opts : Start(o)
    BY <1>5
  <2>2. call' = call + 1 /\ pc' = "connect" /\ ret'.result = -1 /\ pc = "idle"
    BY <2>1 DEF Start
  <2>3. ~Send
    BY <2>2 DEF Send
  <2>4. \A c, s : PutAt(c, s)' => PutAt(c, s)
    BY <2>3, PlacesStep
  <2>5. \A s : ~PutAt(k, s)'
    <3>1. k \in Nat /\ k > call
      BY <1>1, <1>3, <2>2
    <3> QED
      BY <2>4, <3>1, NoPutYet
  <2>6. \A c \in 1 .. call' : c \notin Spoiled' =>
          \A s, t \in Servers : PutAt(c, s)' /\ PutAt(c, t)' => s = t
    <3> SUFFICES ASSUME NEW c \in 1 .. call', c \notin Spoiled', NEW s \in Servers, NEW t \in Servers,
                        PutAt(c, s)', PutAt(c, t)'
                 PROVE  s = t
      OBVIOUS
    <3>1. c # k
      BY <2>5
    <3>2. c \in 1 .. call
      BY <1>1, <1>3, <2>2, <3>1
    <3> QED
      BY <1>1, <1>2, <2>4, <3>2
  <2>7. \A s \in Servers : ~PutAt(call, s)'
    BY <1>4, <2>5
  <2> QED
    BY <2>2, <2>6, <2>7 DEF PutInv
<1>6. CASE ~ \E o \in Opts : Start(o)
  <2>1. /\ call' = call /\ opt' = opt /\ (pc = "idle" => pc' = "idle")
        /\ pc' \in {"head", "body"} => rest' = rest /\ (pc \in {"head", "body"} \/ Send)
    <3>1. Next => call' = call /\ opt' = opt
      BY <1>6, Zenon DEF Next, Operate, Send, SendFails, Receive, RecvEnd, RecvAll, RecvHead,
         RecvBody, TimeOut, Execute, OthersPut, Arrive, ServerCloses
    <3>2. pc = "idle" => ~Operate
      BY DEF Operate, Send, SendFails, Receive, RecvEnd, RecvAll, RecvHead, RecvBody, TimeOut
    <3>3. Next => Operate \/ UNCHANGED <<pc, rest>>
      BY <1>6, Zenon DEF Next, Execute, OthersPut, Arrive, ServerCloses
    <3>4. Failed => pc' \notin {"head", "body"}
      BY DEF Failed
    <3>5. Succeeded => pc' \notin {"head", "body"}
      BY DEF Succeeded
    <3>6. Operate => Send \/ RecvHead \/ Failed \/ Succeeded
      BY Zenon DEF Operate, SendFails, Receive, RecvEnd, RecvAll, RecvBody, TimeOut
    <3>7. Send \/ RecvHead => rest' = rest
      BY DEF Send, RecvHead
    <3>8. RecvHead => pc = "head"
      BY DEF RecvHead
    <3> QED
      BY <3>1, <3>2, <3>3, <3>4, <3>5, <3>6, <3>7, <3>8 DEF vars
  <2>2. Send => pc = "connect" /\ pc' = "head"
    BY DEF Send
  <2>3. \A c, s : PutAt(c, s)' =>
          PutAt(c, s) \/ (Send /\ c = call /\ s = Head(rest) /\ opt = "put")
    BY PlacesStep
  <2>4. ASSUME NEW c \in 1 .. call', c \notin Spoiled', NEW s \in Servers, NEW t \in Servers,
               PutAt(c, s)', PutAt(c, t)'
        PROVE  s = t
    <3>1. c \in 1 .. call /\ c \notin Spoiled
      BY <1>1, <2>1, <2>4
    <3>2. CASE Send /\ c = call
      <4>1. ~PutAt(c, s) /\ ~PutAt(c, t)
        BY <1>2, <2>2, <3>1, <3>2
      <4> QED
        BY <2>3, <2>4, <4>1
    <3>3. CASE ~(Send /\ c = call)
      BY <1>2, <2>3, <2>4, <3>1, <3>3
    <3> QED
      BY <3>2, <3>3
  <2>5. ASSUME pc' = "connect", call' \notin Spoiled', NEW s \in Servers PROVE ~PutAt(k, s)'
    <3>1. ~Send /\ pc # "idle" /\ call \notin Spoiled' /\ call \notin Spoiled /\ k = call
      BY <1>1, <1>3, <2>1, <2>2, <2>5
    <3>2. opt = "put" => pc = "connect"
      <4>1. call \notin muddled /\ call \notin late'
        BY <3>1 DEF Spoiled
      <4> QED
        BY <2>5, <3>1, <4>1, PutGoesOn
    <3>3. ~PutAt(call, s)
      BY <1>2, <3>1, <3>2
    <3> QED
      BY <2>3, <3>1, <3>3
  <2>6. ASSUME pc' \in {"head", "body"}, call' \notin Spoiled', NEW s \in Servers, PutAt(k, s)'
        PROVE  s = Head(rest')
    <3>1. call \notin Spoiled /\ k = call /\ rest' = rest
      BY <1>1, <1>3, <2>1, <2>6
    <3>2. CASE Send
      <4>1. ~PutAt(call, s)
        BY <1>2, <2>2, <3>1, <3>2
      <4> QED
        BY <2>3, <2>6, <3>1, <4>1
    <3>3. CASE ~Send
      <4>1. PutAt(call, s) /\ pc \in {"head", "body"}
        BY <2>1, <2>3, <2>6, <3>1, <3>3
      <4> QED
        BY <1>2, <3>1, <4>1
    <3> QED
      BY <3>2, <3>3
  <2>7. opt' = "put" /\ pc' # "idle" /\ call' \notin muddled' => ret'.result # 404
    <3>1. muddled \subseteq muddled'
      BY HistorySteps
    <3> QED
      BY <2>1, <3>1, PutGoesOn
  <2>8. ASSUME opt' # "put", NEW s \in Servers PROVE ~PutAt(k, s)'
    BY <1>2, <1>3, <2>1, <2>3, <2>8
  <2>9. /\ \A c \in 1 .. call' : c \notin Spoiled' =>
             \A s, t \in Servers : PutAt(c, s)' /\ PutAt(c, t)' => s = t
        /\ pc' = "connect" /\ call' \notin Spoiled' => \A s \in Servers : ~PutAt(call, s)'
        /\ pc' \in {"head", "body"} /\ call' \notin Spoiled' =>
             \A s \in Servers : PutAt(call, s)' => s = Head(rest')
        /\ opt' # "put" => \A s \in Servers : ~PutAt(call, s)'
    BY <1>4, <2>4, <2>5, <2>6, <2>8
  <2> QED
    BY <2>7, <2>9, Zenon DEF PutInv
<1> QED
  BY <1>5, <1>6

(***************************************************************************)
(* The theorems                                                            *)
(***************************************************************************)

ClientInv == TypeInv /\ ConnInv /\ PairsInv /\ RequestsOK /\ OwnInv /\ PutInv /\ WholeInv

\* At the start there are no calls, connections or requests.
LEMMA InitClient == Init => ClientInv
<1> SUFFICES ASSUME Init PROVE ClientInv
  OBVIOUS
<1>1. /\ pc = "idle" /\ call = 0 /\ opt = "none" /\ rest = << >> /\ open = {}
      /\ stream = [s \in Servers |-> << >>] /\ arrived = [s \in Servers |-> 0]
      /\ requests = {} /\ queue = [s \in Servers |-> << >>]
      /\ read = {} /\ executed = {} /\ late = {} /\ tainted = {} /\ muddled = {}
      /\ keep_alive \in BOOLEAN /\ look_up \in {"order", "random"} /\ split \in BOOLEAN
  BY ClientAssumption DEF Init
<1>2. ret \in RetType /\ ret.ok = FALSE /\ ret.result = -1
  <2>1. ret = [ok |-> FALSE, result |-> -1, data |-> 0, reply |-> NoReply]
    BY DEF Init
  <2> QED
    BY <2>1, NoReplyType
<1>3. \A s \in Servers : stream[s] = << >> /\ arrived[s] = 0
  BY <1>1
<1>4. TypeInv
  <2>1. stream \in [Servers -> Seq(Part)] /\ queue \in [Servers -> Seq(1 .. (MaxCalls + 1))]
        /\ arrived \in [Servers -> Nat] /\ rest \in Seq(Servers)
    BY <1>1
  <2>2. \A s \in Servers : arrived[s] \in 0 .. Len(stream[s])
    <3>1. Len(<< >>) = 0
      OBVIOUS
    <3> QED
      BY <1>3, <3>1
  <2>3. call \in 0 .. MaxCalls /\ opt \in Opts \cup {"none"}
    BY <1>1, ClientAssumption
  <2>4. /\ ret.ok \in BOOLEAN /\ ret.result \in Results /\ ret.data \in Nat /\ ret.reply \in Part
    BY <1>2 DEF RetType
  <2> QED
    BY <1>1, <1>2, <2>1, <2>2, <2>3, <2>4 DEF TypeInv, ClientTypeOK, RetType
<1>5. ConnInv
  <2>1. \A s : ~Waits(s)
    BY <1>1 DEF Waits
  <2>2. \A s \in Servers : IsStale(stream[s])
    BY <1>3, StaleEmpty
  <2> QED
    BY <2>1, <2>2, Zenon DEF ConnInv, ConnOK
<1>50. PairsInv
  <2>1. Len(<< >>) = 0 /\ 0 % 2 = 0
    OBVIOUS
  <2>2. ASSUME NEW s \in Servers PROVE PairsOK(s)
    <3>1. Len(stream[s]) = 0 /\ arrived[s] = 0
      BY <1>3, <2>1
    <3>2. Len(stream[s]) % 2 = 0 /\ arrived[s] % 2 = 0
      BY <2>1, <3>1, Zenon
    <3>3. 1 .. Len(stream[s]) = {}
      BY <3>1
    <3> QED
      BY <3>2, <3>3 DEF PairsOK
  <2> QED
    BY <1>1, <2>2 DEF PairsInv
<1>6. RequestsOK
  BY <1>1 DEF RequestsOK
<1>7. OwnInv /\ WholeInv
  BY <1>1, <1>2 DEF OwnInv, AnswerIsOwn, WholeInv
<1>8. PutInv
  <2>1. \A c, s : ~PutAt(c, s)
    BY <1>1 DEF PutAt
  <2> QED
    <3>1. opt = "put" => FALSE
      BY <1>1
    <3> QED
      BY <2>1, <3>1, Zenon DEF PutInv
<1> QED
  BY <1>4, <1>5, <1>50, <1>6, <1>7, <1>8 DEF ClientInv

\* From the start of the program on, whatever calls it makes and servers do,
\* the inductive invariant of connections, requests and replies holds.
THEOREM ClientInvHolds == Spec => []ClientInv
<1>1. ClientInv /\ [Next]_vars => ClientInv'
  BY TypeStep, ConnStep, PairsStep, RequestsStep, OwnStep, PutStep, WholeStep DEF ClientInv
<1> QED
  BY <1>1, InitClient, PTL DEF Spec

\* The object, the call, the connections and the servers keep their types.
THEOREM ClientTypeCorrect == Spec => []ClientTypeOK
<1>1. ClientInv => ClientTypeOK
  BY DEF ClientInv, TypeInv
<1> QED
  BY <1>1, ClientInvHolds, PTL

\* No reply is taken for that of another call, unless the call was sent on a
\* connection on which the server had answered a request twice.
THEOREM AnswersAreOwn == Spec => []AnswerIsOwn
<1>1. ClientInv => AnswerIsOwn
  BY DEF ClientInv, OwnInv
<1> QED
  BY <1>1, ClientInvHolds, PTL

\* With whole replies, "end" means that no server had a message, unless the call
\* was sent on such a connection.
THEOREM WholeRepliesAreTrue == Spec => []WholeIsTrue
<1>1. ClientInv => WholeIsTrue
  BY Zenon DEF ClientInv, WholeInv, WholeIsTrue, EndIsTrue
<1> QED
  BY <1>1, ClientInvHolds, PTL

\* A message is on two servers only after the client gave one of them up, or was
\* sent on such a connection.
THEOREM PutsAreSingle == Spec => []PutOnce
<1>1. ClientInv => PutOnce
  <2> SUFFICES ASSUME ClientInv, NEW c \in 1 .. call, c \notin Spoiled
               PROVE  ~(Cardinality({e \in executed : e.call = c /\ e.opt = "put"}) > 1)
    BY DEF PutOnce, Spoiled
  <2> DEFINE E == {e \in executed : e.call = c /\ e.opt = "put"}
  <2>1. \A e \in E : e = [call |-> c, opt |-> "put", srv |-> e.srv] /\ e.srv \in Servers
    BY DEF ClientInv, TypeInv, ClientTypeOK
  <2>2. \A e \in E : PutAt(c, e.srv)
    BY <2>1, Zenon DEF PutAt
  <2>3. \A e, f \in E : e.srv = f.srv
    BY <2>1, <2>2 DEF ClientInv, PutInv
  <2>4. \A e, f \in E : e = f
    BY <2>1, <2>3, Zenon
  <2>5. E = {} \/ \E e : E = {e}
    BY <2>4
  <2>6. Cardinality(E) = 0 \/ Cardinality(E) = 1
    BY <2>5, FS_EmptySet, FS_Singleton
  <2> HIDE DEF E
  <2>7. ~(Cardinality(E) > 1)
    BY <2>6
  <2> QED
    BY <2>7 DEF E
<1> QED
  BY <1>1, ClientInvHolds, PTL

(***************************************************************************)
(* How long a call can take: the safety part of CallReturns.               *)
(***************************************************************************)

\* How many steps the call has at most before it: three for each server it may
\* still try, less those of the current one it has done.
Left ==
  IF pc = "idle" THEN 0
  ELSE 3 * Len(rest) - (CASE pc = "connect" -> 0 [] pc = "head" -> 1 [] OTHER -> 2)

\* A call has at most all servers before it.
RestInv == pc # "idle" => Len(rest) <= Count

\* Both ways to look servers up name no more than there are.
LEMMA LookupsAreShort ==
  /\ \A s \in Servers : Len(<<s>>) <= Count
  /\ \A mode : \A p \in Lookups(mode) : Len(p) <= Count
<1>1. Count \in Nat /\ Count >= 1
  BY ClientAssumption
<1>2. \A p \in [1 .. Count -> Servers] : Len(p) = Count
  BY <1>1
<1>3. \A mode : \A p \in Lookups(mode) : p \in [1 .. Count -> Servers]
  BY Zenon DEF Lookups, Servers
<1> QED
  BY <1>1, <1>2, <1>3

\* The attempts of a call end with the next server or with the call.
LEMMA AttemptSteps ==
  ASSUME Operate
  PROVE  /\ pc # "idle"
         /\ \/ pc = "connect" /\ pc' = "head" /\ rest' = rest
            \/ pc = "head" /\ pc' = "body" /\ rest' = rest
            \/ Len(rest) > 1 /\ pc' = "connect" /\ rest' = Tail(rest)
            \/ pc' = "idle"
BY Zenon DEF Operate, Send, SendFails, Receive, RecvEnd, RecvAll, RecvHead, RecvBody, TimeOut,
       Failed, Succeeded

\* The rest of the world leaves a running call where it is.
LEMMA OthersWait ==
  ASSUME [Next]_vars, ~Operate, pc # "idle"
  PROVE  pc' = pc /\ rest' = rest
BY Zenon DEF vars, Next, Start, Execute, OthersPut, Arrive, ServerCloses

\* The servers before a call get fewer with every failure.
LEMMA RestStep ==
  ASSUME TypeInv, RestInv, [Next]_vars
  PROVE  RestInv'
<1>1. CASE \E o \in Opts : Start(o)
  <2>1. PICK o \in Opts : Start(o)
    BY <1>1
  <2>2. rest' \in {<<s>> : s \in Servers} \/ rest' \in Lookups(look_up')
    BY <2>1 DEF Start
  <2>3. Len(rest') <= Count
    BY <2>2, LookupsAreShort, Zenon
  <2> QED
    BY <2>3 DEF RestInv
<1>2. CASE Operate
  <2>1. pc # "idle" /\ (pc' = "idle" \/ rest' = rest \/ rest' = Tail(rest))
    BY <1>2, AttemptSteps
  <2>2. rest \in Seq(Servers) /\ rest # << >>
    BY <2>1 DEF TypeInv, ClientTypeOK
  <2>3. Len(Tail(rest)) = Len(rest) - 1 /\ Len(rest) \in Nat
    BY <2>2
  <2>4. Len(rest) <= Count /\ Count \in Nat
    BY <2>1, ClientAssumption DEF RestInv
  <2>5. pc' # "idle" => Len(rest') = Len(rest) \/ Len(rest') = Len(rest) - 1
    BY <2>1, <2>3, Zenon
  <2> QED
    BY <2>3, <2>4, <2>5 DEF RestInv
<1>3. CASE pc' = pc /\ rest' = rest
  BY <1>3 DEF RestInv
<1> QED
  BY <1>1, <1>2, <1>3, Zenon DEF vars, Next, Execute, OthersPut, Arrive, ServerCloses

\* A call is never more than three steps for each of the servers away from its
\* end, whatever order random lookup gives,
THEOREM CallsAreShort == Spec => [](Left \in 0 .. 3 * Count)
<1>1. Init => RestInv
  BY DEF Init, RestInv
<1>2. ClientInv => TypeInv
  BY DEF ClientInv
<1>3. ClientInv /\ RestInv => Left \in 0 .. 3 * Count
  <2> SUFFICES ASSUME ClientInv, RestInv, pc # "idle"
               PROVE  Left \in 0 .. 3 * Count
    BY ClientAssumption DEF Left
  <2>1. rest \in Seq(Servers) /\ rest # << >>
    BY <1>2 DEF TypeInv, ClientTypeOK
  <2>2. Len(rest) \in Nat /\ Len(rest) # 0
    BY <2>1
  <2>3. Len(rest) <= Count /\ Count \in Nat
    BY ClientAssumption DEF RestInv
  <2> PICK n : n = Len(rest)
    OBVIOUS
  <2>4. Left \in {3 * n - 0, 3 * n - 1, 3 * n - 2}
    BY DEF Left
  <2> QED
    BY <2>2, <2>3, <2>4
<1> QED
  BY <1>1, <1>2, <1>3, ClientInvHolds, RestStep, PTL DEF Spec

\* and every step of in_do_operate brings it nearer, with servers that fail,
\* time out or answer too late; what servers and network do never takes it
\* back.  With the time-out that ends each wait, this is why a call returns.
THEOREM CallsGetNearer ==
  Spec => [][pc # "idle" =>
               IF Operate THEN Left' < Left ELSE UNCHANGED <<pc, rest>>]_vars
<1>1. ClientInv /\ [Next]_vars =>
        [pc # "idle" => IF Operate THEN Left' < Left ELSE UNCHANGED <<pc, rest>>]_vars
  <2> SUFFICES ASSUME ClientInv, [Next]_vars, pc # "idle"
               PROVE  IF Operate THEN Left' < Left ELSE UNCHANGED <<pc, rest>>
    BY Zenon
  <2>1. rest \in Seq(Servers) /\ rest # << >>
    BY DEF ClientInv, TypeInv, ClientTypeOK
  <2>2. Len(rest) \in Nat \ {0} /\ Len(Tail(rest)) = Len(rest) - 1
    BY <2>1
  <2> PICK n : n = Len(rest)
    OBVIOUS
  <2>3. n \in Nat /\ n >= 1
    BY <2>2
  <2>4. Left \in {3 * n - 0, 3 * n - 1, 3 * n - 2}
    BY DEF Left
  <2>5. ASSUME Operate PROVE Left' < Left
    <3>1. CASE pc = "connect" /\ pc' = "head" /\ rest' = rest
      <4>1. Left = 3 * n - 0 /\ Left' = 3 * n - 1
        BY <3>1 DEF Left
      <4> QED
        BY <2>3, <4>1
    <3>2. CASE pc = "head" /\ pc' = "body" /\ rest' = rest
      <4>1. Left = 3 * n - 1 /\ Left' = 3 * n - 2
        BY <3>2 DEF Left
      <4> QED
        BY <2>3, <4>1
    <3>3. CASE pc' = "connect" /\ rest' = Tail(rest)
      <4>1. Len(rest') = n - 1
        BY <2>2, <3>3, Zenon
      <4>2. Left' = 3 * (n - 1) - 0
        BY <3>3, <4>1 DEF Left
      <4> QED
        BY <2>3, <2>4, <4>2
    <3>4. CASE pc' = "idle"
      <4>1. Left' = 0
        BY <3>4 DEF Left
      <4> QED
        BY <2>3, <2>4, <4>1
    <3> QED
      BY <2>5, <3>1, <3>2, <3>3, <3>4, AttemptSteps
  <2>6. ~Operate => UNCHANGED <<pc, rest>>
    BY OthersWait
  <2> QED
    BY <2>5, <2>6
<1> QED
  BY <1>1, ClientInvHolds, PTL DEF Spec

==============================================================================
