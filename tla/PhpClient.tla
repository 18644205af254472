------------------------------ MODULE PhpClient ------------------------------
(***************************************************************************)
(* A PHP process with the extension client/php/ucmq.c: calls one after the *)
(* other, each tried on a list of servers, over connections kept in the    *)
(* small table mq_list across calls and PHP requests.  Descriptors are     *)
(* numbers that the system hands out again after a close, so that a stale  *)
(* one would name another connection.                                      *)
(*                                                                         *)
(* What a server does is reduced to what the client can tell apart: it     *)
(* carries a request out at any time after it was sent, answers with a     *)
(* head and a body, twice if it refuses a number (QueueServer, Delay), and *)
(* may close a connection at any time.                                     *)
(***************************************************************************)
EXTENDS Integers, Sequences, FiniteSets, FiniteSetsExt

CONSTANTS
  Dests,     \* the servers, as "host:port"
  BadDest,   \* an address without a port
  Slots,     \* the length of mq_list
  KeepTime,  \* mq_srv_info.timeout in units of the clock
  Opts,      \* the operations the program uses
  MaxTry,    \* bound: the longest list of servers
  MaxCalls,  \* bound: how many calls the process makes
  MaxTime    \* bound: the last value of the clock

ASSUME PhpAssumption ==
  /\ IsFiniteSet(Dests) /\ BadDest \notin Dests
  /\ Slots \in Nat \ {0}
  /\ KeepTime \in Nat
  /\ Opts \subseteq {"put", "get", "set"}
  /\ MaxTry \in Nat \ {0} /\ MaxCalls \in Nat /\ MaxTime \in Nat

VARIABLES
  mq_list,   \* the table of kept connections
  peer,      \* the descriptors the process has open: which server is behind
  closing,   \* the descriptors whose server has closed the connection
  stream,    \* what is under way or unread on each open descriptor
  arrived,   \* how much of it is in the socket
  requests,  \* requests that a server has and has not carried out yet
  now,       \* CLOCK_MONOTONIC
  pc,        \* "idle", "op", "head" or "body": what the call waits for
  call,      \* the number of calls made
  opt,       \* the operation of the current or last call
  rest,      \* the addresses still to try, the current one first
  fd,        \* the socket of mq_op
  ret,       \* what the call returns
  stored,    \* history: puts that servers carried out, and where
  late,      \* history: calls that gave a server up after they wrote to it
  tainted    \* history: descriptors on which a request was answered twice

socks == <<peer, closing, stream, arrived, requests, tainted>>
vars == <<mq_list, socks, now, pc, call, opt, rest, fd, ret, stored, late>>

NoDest == "none"

\* Enough numbers: add_to_list opens one before it closes the oldest.
Fds == 1 .. (Slots + 1)

FreeSlot == [fd |-> -1, dest |-> NoDest, last_use |-> 0]

Code == {-1, 200, 400}

Part == [kind: {"head", "body"}, call: 1 .. MaxCalls, code: Code]

NoReturn == [ok |-> FALSE, code |-> -1, of |-> 0, clean |-> TRUE]

PhpTypeOK ==
  /\ mq_list \in [1 .. Slots -> [fd: Fds \cup {-1}, dest: Dests \cup {NoDest},
                                 last_use: 0 .. MaxTime]]
  /\ DOMAIN peer \subseteq Fds /\ \A f \in DOMAIN peer : peer[f] \in Dests
  /\ DOMAIN stream = DOMAIN peer /\ DOMAIN arrived = DOMAIN peer
  /\ \A f \in DOMAIN peer : stream[f] \in Seq(Part) /\ arrived[f] \in 0 .. Len(stream[f])
  /\ closing \subseteq DOMAIN peer /\ tainted \subseteq DOMAIN peer
  /\ requests \subseteq [call: 1 .. MaxCalls, opt: Opts, srv: Dests, fd: Fds \cup {-1}]
  /\ now \in 0 .. MaxTime
  /\ pc \in {"idle", "op", "head", "body"} /\ (pc \in {"head", "body"} => fd \in DOMAIN peer)
  /\ call \in 0 .. MaxCalls /\ opt \in Opts \cup {"none"}
  /\ rest \in Seq(Dests \cup {BadDest}) /\ (pc # "idle" => rest # << >>)
  /\ fd \in Fds \cup {-1}
  /\ ret \in [ok: BOOLEAN, code: Code, of: 0 .. MaxCalls, clean: BOOLEAN]
  /\ stored \subseteq (1 .. MaxCalls) \X Dests /\ late \subseteq 1 .. MaxCalls

\* PHP_MINIT_FUNCTION.
Init ==
  /\ mq_list = [i \in 1 .. Slots |-> FreeSlot]
  /\ peer = << >> /\ closing = {} /\ stream = << >> /\ arrived = << >>
  /\ requests = {} /\ tainted = {}
  /\ now = 0
  /\ pc = "idle" /\ call = 0 /\ opt = "none" /\ rest = << >> /\ fd = -1
  /\ ret = NoReturn
  /\ stored = {} /\ late = {}

(***************************************************************************)
(* Descriptors                                                             *)
(***************************************************************************)

Without(f, S) == [x \in DOMAIN f \ S |-> f[x]]
With(f, x, v) == [y \in DOMAIN f \cup {x} |-> IF y = x THEN v ELSE f[y]]

\* A server carries out what it has received on a connection that is gone; only
\* of a put anything is seen later.
Orphaned(S) ==
  {r \in requests : r.fd \notin S}
    \cup {[r EXCEPT !.fd = -1] : r \in {q \in requests : q.fd \in S /\ q.opt = "put"}}

\* close(2) on the descriptors S.
Close(S) ==
  /\ peer' = Without(peer, S)
  /\ stream' = Without(stream, S)
  /\ arrived' = Without(arrived, S)
  /\ closing' = closing \ S
  /\ tainted' = tainted \ S
  /\ requests' = Orphaned(S)

\* close(2) on S and a new connection to d under the number f.
CloseAndOpen(S, f, d) ==
  /\ peer' = With(Without(peer, S), f, d)
  /\ stream' = With(Without(stream, S), f, << >>)
  /\ arrived' = With(Without(arrived, S), f, 0)
  /\ closing' = closing \ (S \cup {f})
  /\ tainted' = tainted \ (S \cup {f})

(***************************************************************************)
(* mq_list                                                                 *)
(***************************************************************************)

\* recv with MSG_PEEK returns 0: the server has closed and all was read.
AtEnd(f) == f \in closing /\ arrived[f] = 0

\* get_from_list: the slots of d with a socket.  One with unread bytes counts as
\* usable; at the end of its stream it is closed.
Matching(d) == {i \in 1 .. Slots : mq_list[i].fd # -1 /\ mq_list[i].dest = d}
Usable(d)   == {i \in Matching(d) : ~AtEnd(mq_list[i].fd)}

\* Mutant of ListWithoutDead: the slot keeps the number of the closed socket.
ListWithDead(d) == mq_list

ListWithoutDead(d) ==
  [i \in 1 .. Slots |->
     IF i \in Matching(d) \ Usable(d) THEN [mq_list[i] EXCEPT !.fd = -1] ELSE mq_list[i]]

\* The sockets get_from_list closes on its way.
Dead(d) == {mq_list[i].fd : i \in Matching(d) \ Usable(d)}

\* add_to_list: the first free slot, else the first of those used longest ago.
SlotFor(list) ==
  LET free == {i \in 1 .. Slots : list[i].fd = -1}
      oldest == Min({list[i].last_use : i \in 1 .. Slots})
  IN  IF free # {} THEN Min(free)
      ELSE Min({i \in 1 .. Slots : list[i].last_use = oldest})

\* The socket that has to go.
Evicted(list) == {list[SlotFor(list)].fd} \ {-1}

\* del_from_list: also called with -1, which matches only free slots.
DelFromList(f) ==
  mq_list' = [i \in 1 .. Slots |->
                IF mq_list[i].fd = f THEN [mq_list[i] EXCEPT !.fd = -1] ELSE mq_list[i]]

(***************************************************************************)
(* The calls                                                               *)
(***************************************************************************)

\* A program names a server once in a list.
Lists ==
  {l \in UNION {[1 .. n -> Dests \cup {BadDest}] : n \in 1 .. MaxTry} :
     \A i, j \in DOMAIN l : l[i] = l[j] => i = j}

\* Mutant of Start: what the last call returned stays.
StartKeepsReturn(o, list) ==
  /\ pc = "idle"
  /\ call < MaxCalls
  /\ o = "set" => Len(list) = 1
  /\ call' = call + 1
  /\ opt' = o
  /\ rest' = list
  /\ pc' = "op"
  /\ UNCHANGED <<mq_list, socks, now, fd, ret, stored, late>>

\* mq_put_msg and mq_get_msg take a list of servers, mq_set_opt and mq_get_opt
\* one.  INIT_INFO clears what is returned.  Past this point a get goes the way of
\* a put: mq_op does not look at the operation.
Start(o, list) ==
  /\ pc = "idle"
  /\ call < MaxCalls
  /\ o = "set" => Len(list) = 1
  /\ call' = call + 1
  /\ opt' = o
  /\ rest' = list
  /\ ret' = NoReturn
  /\ pc' = "op"
  /\ UNCHANGED <<mq_list, socks, now, fd, stored, late>>

\* Mutants of Failed: past the end of the list, and the same server again.
FailedPastEnd == rest' = Tail(rest) /\ pc' = "op" /\ fd' = -1

FailedRetries == rest' = rest /\ pc' = "op" /\ fd' = -1

\* The next address of the list, or the end of the call.
Failed ==
  /\ rest' = Tail(rest)
  /\ pc' = IF Len(rest) > 1 THEN "op" ELSE "idle"
  /\ fd' = -1

\* mq_op returned 0: MQ_TRY_ONE returns, whatever the status of the reply.
Succeeded == rest' = << >> /\ pc' = "idle" /\ fd' = -1

\* MQ_TRY_ONE skips an address without a port.
SkipBad ==
  /\ pc = "op"
  /\ Head(rest) = BadDest
  /\ Failed
  /\ UNCHANGED <<mq_list, socks, now, call, opt, ret, stored, late>>

(***************************************************************************)
(* mq_op                                                                   *)
(***************************************************************************)

Request(f, d) == [call |-> call, opt |-> opt, srv |-> d, fd |-> f]

\* get_socket finds one in the table, send_http_req writes the request.
Reuse ==
  LET d == Head(rest)
      i == Min(Usable(d))
      f == mq_list[i].fd
  IN  /\ pc = "op"
      /\ Usable(d) # {}
      /\ mq_list' = [mq_list EXCEPT ![i].last_use = now]
      /\ fd' = f
      \* A server that has closed the connection takes no more requests.
      /\ requests' = IF f \in closing THEN requests ELSE requests \cup {Request(f, d)}
      /\ pc' = "head"
      /\ UNCHANGED <<peer, closing, stream, arrived, tainted, now, call, opt, rest, ret, stored,
                     late>>

\* get_socket connects, add_to_list finds room, send_http_req writes.
Connect ==
  LET d == Head(rest)
      list == ListWithoutDead(d)
      f == Min(Fds \ (DOMAIN peer \ Dead(d)))
      gone == (Dead(d) \cup Evicted(list)) \ {f}
  IN  /\ pc = "op"
      /\ d # BadDest
      /\ Usable(d) = {}
      /\ CloseAndOpen(gone, f, d)
      /\ mq_list' = [list EXCEPT ![SlotFor(list)] = [fd |-> f, dest |-> d, last_use |-> now]]
      /\ fd' = f
      /\ requests' = Orphaned(Dead(d) \cup gone) \cup {Request(f, d)}
      /\ pc' = "head"
      /\ UNCHANGED <<now, call, opt, rest, ret, stored, late>>

\* create_socket fails or times out: del_from_list(-1) changes nothing.
ConnectFails ==
  LET d == Head(rest)
  IN  /\ pc = "op"
      /\ d # BadDest
      /\ Usable(d) = {}
      /\ mq_list' = ListWithoutDead(d)
      /\ Close(Dead(d))
      /\ Failed
      /\ UNCHANGED <<now, call, opt, ret, stored, late>>

\* The request is not written or only in part, which no server carries out: the
\* connection is given up.
SendFails ==
  LET d == Head(rest)
      f == mq_list[Min(Usable(d))].fd
  IN  /\ pc = "op"
      /\ Usable(d) # {}
      /\ DelFromList(f)
      /\ Close({f})
      /\ Failed
      /\ UNCHANGED <<now, call, opt, ret, stored, late>>

\* The same on a new connection, for which an old one may have had to go.
FirstSendFails ==
  LET d == Head(rest)
      list == ListWithoutDead(d)
  IN  /\ pc = "op"
      /\ d # BadDest
      /\ Usable(d) = {}
      /\ mq_list' = [list EXCEPT ![SlotFor(list)] = [fd |-> -1, dest |-> d, last_use |-> now]]
      /\ Close(Dead(d) \cup Evicted(list))
      /\ Failed
      /\ UNCHANGED <<now, call, opt, ret, stored, late>>

\* What recv_n has read when the end of a head is in it.
Taken == SubSeq(stream[fd], 1, arrived[fd])

Consume(n) ==
  /\ stream' = [stream EXCEPT ![fd] = SubSeq(@, n + 1, Len(@))]
  /\ arrived' = [arrived EXCEPT ![fd] = @ - n]
  /\ UNCHANGED <<peer, closing, requests, tainted>>

Answered(code) ==
  [ok |-> TRUE, code |-> code, of |-> Head(stream[fd]).call, clean |-> fd \notin tainted]

\* Head and body at once.
RecvAll ==
  /\ pc = "head"
  /\ arrived[fd] = 2
  /\ ret' = Answered(Taken[1].code)
  /\ Consume(2)
  /\ Succeeded
  /\ UNCHANGED <<mq_list, now, call, opt, stored, late>>

\* More bytes than Content-Length says: the connection is given up, the code
\* stays.
RecvTooMuch ==
  /\ pc = "head"
  /\ arrived[fd] > 2
  /\ ret' = [ret EXCEPT !.code = Taken[1].code, !.clean = @ /\ fd \notin tainted]
  /\ DelFromList(fd)
  /\ Close({fd})
  /\ Failed
  /\ late' = late \cup {call}
  /\ UNCHANGED <<now, call, opt, stored>>

\* The head alone; recv_n is called again for the body.
RecvHead ==
  /\ pc = "head"
  /\ arrived[fd] = 1
  /\ ret' = [ret EXCEPT !.code = Taken[1].code, !.clean = @ /\ fd \notin tainted]
  /\ Consume(1)
  /\ pc' = "body"
  /\ UNCHANGED <<mq_list, now, call, opt, rest, fd, stored, late>>

\* No more than the body is read.
RecvBody ==
  /\ pc = "body"
  /\ arrived[fd] > 0
  /\ ret' = Answered(ret.code)
  /\ Consume(1)
  /\ Succeeded
  /\ UNCHANGED <<mq_list, now, call, opt, stored, late>>

\* Mutant of RecvFails: the connection stays in the table.
RecvFailsKept ==
  /\ pc \in {"head", "body"}
  /\ Failed
  /\ late' = late \cup {call}
  /\ UNCHANGED <<mq_list, socks, now, call, opt, ret, stored>>

\* The time is up, the stream ends, or recv fails.
RecvFails ==
  /\ pc \in {"head", "body"}
  /\ DelFromList(fd)
  /\ Close({fd})
  /\ Failed
  /\ late' = late \cup {call}
  /\ UNCHANGED <<now, call, opt, ret, stored>>

(***************************************************************************)
(* The process                                                             *)
(***************************************************************************)

\* PHP_RSHUTDOWN_FUNCTION: at the end of a PHP request.
Expired == {i \in 1 .. Slots : /\ mq_list[i].fd # -1
                               /\ \/ mq_list[i].last_use + KeepTime < now
                                  \/ AtEnd(mq_list[i].fd)}

RequestShutdown ==
  /\ pc = "idle"
  /\ Expired # {}
  /\ mq_list' = [i \in 1 .. Slots |->
                   IF i \in Expired THEN [mq_list[i] EXCEPT !.fd = -1, !.dest = NoDest]
                   ELSE mq_list[i]]
  /\ Close({mq_list[i].fd : i \in Expired})
  /\ UNCHANGED <<now, pc, call, opt, rest, fd, ret, stored, late>>

\* PHP_MSHUTDOWN_FUNCTION, and PHP_MINIT_FUNCTION of the next process.
ModuleShutdown ==
  /\ pc = "idle"
  /\ DOMAIN peer # {}
  /\ mq_list' = [i \in 1 .. Slots |-> FreeSlot]
  /\ Close({mq_list[i].fd : i \in 1 .. Slots})
  /\ UNCHANGED <<now, pc, call, opt, rest, fd, ret, stored, late>>

\* Time passes between calls; within one, only its start is compared.
Tick ==
  /\ pc = "idle"
  /\ now < MaxTime
  /\ now' = now + 1
  /\ UNCHANGED <<mq_list, socks, pc, call, opt, rest, fd, ret, stored, late>>

(***************************************************************************)
(* Servers and network                                                     *)
(***************************************************************************)

\* A put is stored or refused; a set with a bad number is answered twice.
Execute(r, code, twice) ==
  LET reply == <<[kind |-> "head", call |-> r.call, code |-> code],
                 [kind |-> "body", call |-> r.call, code |-> code]>>
  IN  /\ r.opt = "set" => twice = (code = 400)
      /\ twice => r.opt = "set"
      /\ requests' = requests \ {r}
      /\ stored' = IF r.opt = "put" /\ code = 200 THEN stored \cup {<<r.call, r.srv>>} ELSE stored
      /\ stream' = IF r.fd = -1 THEN stream
                   ELSE [stream EXCEPT ![r.fd] = @ \o IF twice THEN reply \o reply ELSE reply]
      /\ tainted' = IF twice /\ r.fd # -1 THEN tainted \cup {r.fd} ELSE tainted
      /\ UNCHANGED <<mq_list, peer, closing, arrived, now, pc, call, opt, rest, fd, ret, late>>

Arrive(f) ==
  /\ arrived[f] < Len(stream[f])
  /\ \E n \in {arrived[f] + 1, Len(stream[f])} : arrived' = [arrived EXCEPT ![f] = n]
  /\ UNCHANGED <<mq_list, peer, closing, stream, requests, tainted, now, pc, call, opt, rest, fd,
                 ret, stored, late>>

\* A server closes a connection, also with a request on its way to it, which is
\* then lost.
ServerCloses(f) ==
  /\ f \notin closing
  /\ closing' = closing \cup {f}
  /\ requests' = {r \in requests : r.fd # f}
  /\ UNCHANGED <<mq_list, peer, stream, arrived, tainted, now, pc, call, opt, rest, fd, ret,
                 stored, late>>

Receive == RecvAll \/ RecvTooMuch \/ RecvHead \/ RecvBody

mq_op == Reuse \/ Connect \/ ConnectFails \/ SendFails \/ FirstSendFails \/ Receive \/ RecvFails

Next ==
  \/ \E o \in Opts, list \in Lists : Start(o, list)
  \/ SkipBad
  \/ mq_op
  \/ RequestShutdown \/ ModuleShutdown \/ Tick
  \/ \E r \in requests, code \in {200, 400}, twice \in BOOLEAN : Execute(r, code, twice)
  \/ \E f \in DOMAIN peer : Arrive(f) \/ ServerCloses(f)

Spec == Init /\ [][Next]_vars

(***************************************************************************)
(* Properties                                                              *)
(***************************************************************************)

\* The table holds exactly the sockets of the process, one for a server: none
\* is leaked by an eviction, and no slot keeps the number of a socket that was
\* closed, which by now may belong to another server.
PoolIsExact ==
  /\ \A f \in DOMAIN peer : \E i \in 1 .. Slots : mq_list[i].fd = f
  /\ \A i \in 1 .. Slots : mq_list[i].fd # -1 =>
       mq_list[i].fd \in DOMAIN peer /\ peer[mq_list[i].fd] = mq_list[i].dest
  /\ \A i, j \in 1 .. Slots : i # j /\ mq_list[i].fd # -1 /\ mq_list[j].fd # -1 =>
       mq_list[i].fd # mq_list[j].fd /\ mq_list[i].dest # mq_list[j].dest

\* A call that returns a reply returns the reply to its own request, unless a
\* server had answered an earlier request on that connection twice:
\* get_from_list takes a connection with unread bytes for a usable one.
AnswerIsOwn == pc = "idle" /\ ret.ok /\ ret.clean => ret.of = call

\* What the caller reads off httpcode after a put: 200 only if some server has
\* stored the message, and anything else, if one has stored it all the same,
\* only after the client gave up on a server it had written to.  Only then may
\* two servers have it.
PutIsTold ==
  /\ pc = "idle" /\ opt = "put" /\ ret.clean =>
       /\ ret.code = 200 => \E s \in stored : s[1] = call
       /\ (\E s \in stored : s[1] = call) /\ ret.code # 200 => call \in late
  /\ \A s, t \in stored : s[1] = t[1] /\ s # t => s[1] \in late

Rank == 3 * Len(rest) - (CASE pc = "head" -> 1 [] pc = "body" -> 2 [] OTHER -> 0)

\* A call ends after a bounded number of steps, whatever the servers do: every
\* step it takes brings it closer to its end, none starts a server over, and
\* the time-out of the poll calls makes it take one.
CallEnds == [][pc # "idle" /\ <<pc, rest>>' # <<pc, rest>> => Rank' < Rank]_vars
==============================================================================
