------------------------------- MODULE MqClient -------------------------------
(***************************************************************************)
(* A program that uses the C client (client/c/mq_client.c) with several    *)
(* servers: one call at a time, each tried on one server after the other,  *)
(* over connections that are kept.  The servers carry a request out at any *)
(* time after it was sent, also when the client no longer waits for it,    *)
(* and the parts of a reply arrive some time later.                        *)
(*                                                                         *)
(* The client asks for version 1 of the protocol: a get from an empty      *)
(* queue is answered 404, a refused request 400, each with a body.  A      *)
(* number out of range is refused by some handlers with a reply of its own *)
(* and the request is carried out and answered all the same: the second    *)
(* reply is left on the kept connection.  That goes for every remove,      *)
(* which the client sends as a delay without a number.                     *)
(***************************************************************************)
EXTENDS Integers, Sequences, FiniteSets, SequencesExt

CONSTANTS
  Count,     \* mq_object.count: how many servers there are
  Opts,      \* the operations the program uses
  Splits,    \* TRUE is in it if head and body of a reply may arrive apart,
             \* FALSE if they may arrive together throughout
  Faults,    \* TRUE if servers may be unreachable, slow or gone
  MaxCalls   \* bound: how many calls the program makes

ASSUME ClientAssumption ==
  /\ Count \in Nat \ {0}
  /\ Opts \subseteq {"put", "get", "all_set", "set", "remove"}
  /\ Splits \subseteq BOOLEAN /\ Faults \in BOOLEAN
  /\ MaxCalls \in Nat

Servers == 1 .. Count

VARIABLES
  keep_alive, look_up,  \* mq_object_t
  split,     \* the network delivers head and body of a reply apart
  pc,        \* "idle", "connect", "head" or "body": what the call waits for
  call,      \* the number of calls made; a put carries its number
  opt,       \* the operation of the current or last call
  rest,      \* the servers this call has still to try, the current one first
  ret,       \* mq_return_t of the current or last call
  open,      \* the servers with an fd in conn_list
  stream,    \* what is under way or unread on each connection
  arrived,   \* how much of it is in the client's socket
  requests,  \* requests a server has not carried out yet
  queue,     \* the messages of each server
  tainted,   \* history: the servers that answered a request twice on the
             \* connection that is open now
  muddled,   \* history: the calls that were sent on such a connection
  read,      \* history: the heads this call has read
  executed,  \* history: what servers carried out, of which call
  late       \* history: the calls that gave up waiting for a server

conns == <<open, stream, arrived, tainted>>
vars == <<keep_alive, look_up, split, pc, call, opt, rest, ret, conns, requests, queue,
          muddled, read, executed, late>>

Errno == 110

Results == {-1, Errno, 200, 400, 404}

\* A part of a reply: of which call, and what it says.
Part == [kind: {"head", "body"}, call: Nat, result: Results, data: Nat]

NoReply == [kind |-> "head", call |-> 0, result |-> -1, data |-> 0]

ClientTypeOK ==
  /\ keep_alive \in BOOLEAN /\ look_up \in {"order", "random"} /\ split \in BOOLEAN
  /\ pc \in {"idle", "connect", "head", "body"}
  /\ call \in 0 .. MaxCalls
  /\ opt \in Opts \cup {"none"}
  /\ rest \in Seq(Servers) /\ (pc # "idle" => rest # << >>)
  /\ ret.ok \in BOOLEAN /\ ret.result \in Results /\ ret.data \in Nat
  /\ ret.reply \in Part
  /\ open \subseteq Servers
  /\ stream \in [Servers -> Seq(Part)]
  /\ \A s \in Servers : arrived[s] \in 0 .. Len(stream[s])
  /\ requests \subseteq [call: 1 .. MaxCalls, opt: Opts \cup {"delay"}, srv: Servers,
                         live: BOOLEAN]
  /\ queue \in [Servers -> Seq(1 .. (MaxCalls + 1))]
  /\ tainted \subseteq Servers
  /\ read \subseteq Part /\ late \subseteq 1 .. MaxCalls /\ muddled \subseteq 1 .. MaxCalls
  /\ executed \subseteq [call: 1 .. MaxCalls, opt: Opts \cup {"delay"}, srv: Servers]

\* mq_init.
Init ==
  /\ keep_alive \in BOOLEAN /\ look_up \in {"order", "random"}
  /\ split \in Splits
  /\ pc = "idle" /\ call = 0 /\ opt = "none" /\ rest = << >>
  /\ ret = [ok |-> FALSE, result |-> -1, data |-> 0, reply |-> NoReply]
  /\ open = {}
  /\ stream = [s \in Servers |-> << >>]
  /\ arrived = [s \in Servers |-> 0]
  /\ requests = {}
  /\ queue = [s \in Servers |-> << >>]
  /\ tainted = {} /\ muddled = {}
  /\ read = {} /\ executed = {} /\ late = {}

(***************************************************************************)
(* The calls                                                               *)
(***************************************************************************)

\* in_do_operate: in the order of the servers or in a random one.
Lookups(mode) ==
  {p \in [Servers -> Servers] :
     /\ \A s, t \in Servers : s # t => p[s] # p[t]
     /\ mode = "order" => \A s \in Servers : p[s] = s}

\* put and get use the lookup of the object, all_set changes it for good, the
\* calls for one server find it in the list.
Start(o) ==
  /\ pc = "idle"
  /\ call < MaxCalls
  /\ call' = call + 1
  /\ opt' = o
  /\ look_up' = IF o = "all_set" THEN "order" ELSE look_up
  /\ rest' \in IF o \in {"set", "remove"} THEN {<<s>> : s \in Servers}
               ELSE Lookups(look_up')
  /\ ret' = [ok |-> FALSE, result |-> -1, data |-> 0, reply |-> NoReply]
  /\ read' = {}
  /\ pc' = "connect"
  /\ UNCHANGED <<keep_alive, split, conns, requests, queue, muddled, executed, late>>

\* The operation in the request: the switch of mq_set_opt and mq_all_set_opt
\* falls through from remove to delay.
Sent(o) == IF o = "remove" THEN "delay" ELSE o

\* The connection to s is closed: what was on it is lost, but the server still
\* carries out what it has received.
ClosedConn(s) ==
  /\ open' = open \ {s}
  /\ stream' = [stream EXCEPT ![s] = << >>]
  /\ arrived' = [arrived EXCEPT ![s] = 0]
  /\ tainted' = tainted \ {s}
  /\ requests' = {IF r.srv = s THEN [r EXCEPT !.live = FALSE] ELSE r : r \in requests}

\* Mutant of Failed: the same server is tried again.
FailedRetries == rest' = rest /\ pc' = "connect"

\* in_mq_operate returned MQ_FAIL: in_do_operate goes on to the next server.
Failed ==
  /\ rest' = IF Len(rest) > 1 THEN Tail(rest) ELSE rest
  /\ pc' = IF Len(rest) > 1 THEN "connect" ELSE "idle"

\* Mutant of Succeeded: the loop does not stop.
SucceededGoesOn ==
  /\ rest' = IF Len(rest) > 1 THEN Tail(rest) ELSE rest
  /\ pc' = IF Len(rest) > 1 THEN "connect" ELSE "idle"

\* It returned MQ_OK: the loop ends.
Succeeded == UNCHANGED rest /\ pc' = "idle"

(***************************************************************************)
(* in_mq_operate                                                           *)
(***************************************************************************)

\* in_get_from_list: a kept connection is used if poll sees nothing on it.
Reusable(s) == keep_alive /\ s \in open /\ arrived[s] = 0

\* Mutant of Fresh: the old bytes stay.
FreshDirty(s) ==
  /\ open' = IF keep_alive THEN open \cup {s} ELSE open
  /\ stream' = [stream EXCEPT ![s] = << >>]
  /\ tainted' = tainted \ {s}
  /\ UNCHANGED arrived

Fresh(s) ==
  /\ open' = IF keep_alive THEN open \cup {s} ELSE open
  /\ stream' = [stream EXCEPT ![s] = << >>]
  /\ arrived' = [arrived EXCEPT ![s] = 0]
  /\ tainted' = tainted \ {s}

\* comm_get_socket or comm_create_socket, and comm_send_http_req.
Send ==
  LET s == Head(rest)
      new == [call |-> call, opt |-> Sent(opt), srv |-> s, live |-> TRUE]
  IN  /\ pc = "connect"
      /\ \/ /\ Reusable(s)
            /\ UNCHANGED conns
            /\ requests' = requests \cup {new}
            /\ muddled' = IF s \in tainted THEN muddled \cup {call} ELSE muddled
         \/ /\ ~Reusable(s)
            /\ Fresh(s)
            /\ muddled' = muddled
            /\ requests' = {new} \cup
                 {IF r.srv = s THEN [r EXCEPT !.live = FALSE] ELSE r : r \in requests}
      /\ pc' = "head"
      /\ UNCHANGED <<keep_alive, split, look_up, call, opt, rest, ret, queue, read, executed,
                     late>>

\* No connection, or the request cannot be written.
SendFails ==
  /\ Faults
  /\ pc = "connect"
  /\ ClosedConn(Head(rest))
  /\ ret' = [ret EXCEPT !.result = Errno]
  /\ Failed
  /\ UNCHANGED <<keep_alive, split, look_up, call, opt, queue, muddled, read, executed, late>>

\* comm_recv_n takes what has arrived, once a head is in it.
Taken(s) == SubSeq(stream[s], 1, arrived[s])
HeadAt(s) == SelectInSeq(Taken(s), LAMBDA p : p.kind = "head")

\* What is unread on the connection stays there, unless it is closed.
Consumed(s) ==
  IF keep_alive
  THEN /\ stream' = [stream EXCEPT ![s] = SubSeq(@, arrived[s] + 1, Len(@))]
       /\ arrived' = [arrived EXCEPT ![s] = 0]
       /\ UNCHANGED <<open, tainted, requests>>
  ELSE ClosedConn(s)

\* Mutant of ResultOf: the error of an earlier server stays.
ResultOfFirst(s) == IF ret.result = -1 THEN Taken(s)[1].result ELSE ret.result

\* The result the head leaves in ret: sscanf only sees it at the start of the
\* buffer, behind other bytes it changes nothing.
ResultOf(s) ==
  IF HeadAt(s) = 1 THEN Taken(s)[1].result ELSE ret.result

\* 404 ends the attempt before the body is looked at and keeps the connection.
RecvEnd ==
  LET s == Head(rest)
  IN  /\ pc = "head"
      /\ HeadAt(s) # 0
      /\ ResultOf(s) = 404
      /\ ret' = [ret EXCEPT !.result = 404]
      /\ read' = read \cup {Taken(s)[HeadAt(s)]}
      /\ Consumed(s)
      /\ Failed
      /\ UNCHANGED <<keep_alive, split, look_up, call, opt, queue, muddled, executed, late>>

\* Head and body are there; with more bytes than that the connection is given
\* up.
RecvAll ==
  LET s == Head(rest)
      h == HeadAt(s)
  IN  /\ pc = "head"
      /\ h # 0
      /\ ResultOf(s) # 404
      /\ arrived[s] > h
      /\ read' = read \cup {Taken(s)[h]}
      /\ IF arrived[s] = h + 1
         THEN /\ ret' = [ok |-> TRUE, result |-> ResultOf(s),
                         data |-> Taken(s)[h + 1].data, reply |-> Taken(s)[h]]
              /\ Consumed(s)
              /\ Succeeded
         ELSE /\ ret' = [ret EXCEPT !.result = ResultOf(s)]
              /\ ClosedConn(s)
              /\ Failed
      /\ UNCHANGED <<keep_alive, split, look_up, call, opt, queue, muddled, executed, late>>

\* The head is there, the body is waited for.
RecvHead ==
  LET s == Head(rest)
  IN  /\ pc = "head"
      /\ HeadAt(s) # 0
      /\ ResultOf(s) # 404
      /\ arrived[s] = HeadAt(s)
      /\ ret' = [ret EXCEPT !.result = ResultOf(s), !.reply = Taken(s)[HeadAt(s)]]
      /\ read' = read \cup {Taken(s)[HeadAt(s)]}
      /\ stream' = [stream EXCEPT ![s] = SubSeq(@, arrived[s] + 1, Len(@))]
      /\ arrived' = [arrived EXCEPT ![s] = 0]
      /\ pc' = "body"
      /\ UNCHANGED <<keep_alive, split, look_up, call, opt, rest, open, tainted, requests,
                     queue, muddled, executed, late>>

RecvBody ==
  LET s == Head(rest)
  IN  /\ pc = "body"
      /\ arrived[s] > 0
      /\ ret' = [ret EXCEPT !.ok = TRUE, !.data = stream[s][1].data]
      /\ IF keep_alive
         THEN /\ stream' = [stream EXCEPT ![s] = Tail(@)]
              /\ arrived' = [arrived EXCEPT ![s] = @ - 1]
              /\ UNCHANGED <<open, tainted, requests>>
         ELSE ClosedConn(s)
      /\ Succeeded
      /\ UNCHANGED <<keep_alive, split, look_up, call, opt, queue, muddled, read, executed,
                     late>>

\* Mutant of TimeOut: the connection is kept.
TimeOutKept ==
  /\ Faults
  /\ pc \in {"head", "body"}
  /\ ret' = IF pc = "head" THEN [ret EXCEPT !.result = Errno] ELSE ret
  /\ late' = late \cup {call}
  /\ Failed
  /\ UNCHANGED <<keep_alive, split, look_up, call, opt, conns, requests, queue, muddled, read,
                 executed>>

\* The time is up, or the server closed the connection.
TimeOut ==
  /\ Faults
  /\ pc \in {"head", "body"}
  /\ ret' = IF pc = "head" THEN [ret EXCEPT !.result = Errno] ELSE ret
  /\ ClosedConn(Head(rest))
  /\ late' = late \cup {call}
  /\ Failed
  /\ UNCHANGED <<keep_alive, split, look_up, call, opt, queue, muddled, read, executed>>

(***************************************************************************)
(* Servers and network                                                     *)
(***************************************************************************)

NoSecond == 0

Answer(result, data, q) ==
  [result |-> result, second |-> NoSecond, data |-> data, queue |-> q]

\* A number out of range: 400, and then what the request would be answered.
Answers(q) ==
  {[result |-> 400, second |-> x, data |-> 0, queue |-> q] : x \in {200, 400}}

\* The reply to a request, the second reply if there is one, and the queue after
\* it: a put may be refused, a setting may be a reset, may be refused, and may
\* have a number that prints as a negative one.
Outcomes(r) ==
  LET q == queue[r.srv]
  IN  CASE r.opt = "put"   -> {Answer(200, 0, Append(q, r.call)), Answer(400, 0, q)}
        [] r.opt = "get"   -> IF q = << >> THEN {Answer(404, 0, q)}
                              ELSE {Answer(200, Head(q), Tail(q))}
        [] r.opt = "delay" -> Answers(q)
        [] OTHER           -> {Answer(200, 0, q), Answer(200, 0, << >>), Answer(400, 0, q)}
                                \cup Answers(q)

Execute(r) ==
  \E o \in Outcomes(r) :
    LET part(kind, result) ==
          [kind |-> kind, call |-> r.call, result |-> result, data |-> o.data]
        reply(result) == <<part("head", result), part("body", result)>>
        parts == IF o.second = NoSecond THEN reply(o.result)
                 ELSE reply(o.result) \o reply(o.second)
    IN  /\ queue' = [queue EXCEPT ![r.srv] = o.queue]
        /\ stream' = IF r.live THEN [stream EXCEPT ![r.srv] = @ \o parts] ELSE stream
        /\ tainted' = IF r.live /\ o.second # NoSecond THEN tainted \cup {r.srv} ELSE tainted
        /\ executed' = IF o.result = 400 /\ o.second # 200 THEN executed
                       ELSE executed \cup {[call |-> r.call, opt |-> r.opt, srv |-> r.srv]}
        /\ requests' = requests \ {r}
        /\ UNCHANGED <<keep_alive, split, look_up, pc, call, opt, rest, ret, open, arrived,
                       muddled, read, late>>

\* Another program puts a message of its own into the queue of s.
OthersPut(s) ==
  /\ queue[s] = << >>
  /\ queue' = [queue EXCEPT ![s] = <<MaxCalls + 1>>]
  /\ UNCHANGED <<keep_alive, split, look_up, pc, call, opt, rest, ret, conns, requests, read,
                 muddled, executed, late>>

\* The next part, or the rest of a reply, reaches the client's socket.
Arrive(s) ==
  /\ arrived[s] < Len(stream[s])
  /\ arrived' = [arrived EXCEPT ![s] = @ + IF split THEN 1 ELSE 2]
  /\ UNCHANGED <<keep_alive, split, look_up, pc, call, opt, rest, ret, open, stream, tainted,
                 requests, queue, muddled, read, executed, late>>

\* A server closes an idle connection; poll tells the next call.
ServerCloses(s) ==
  /\ Faults
  /\ pc = "idle"
  /\ s \in open
  /\ ClosedConn(s)
  /\ UNCHANGED <<keep_alive, split, look_up, pc, call, opt, rest, ret, queue, muddled, read,
                 executed, late>>

Receive == RecvEnd \/ RecvAll \/ RecvHead \/ RecvBody

Operate == Send \/ SendFails \/ Receive \/ TimeOut

Next ==
  \/ \E o \in Opts : Start(o)
  \/ Operate
  \/ \E r \in requests : Execute(r)
  \/ \E s \in Servers : OthersPut(s) \/ Arrive(s) \/ ServerCloses(s)

Spec == Init /\ [][Next]_vars

\* The client runs and its waits end with the time-out at the latest.
FairSpec == Spec /\ WF_vars(Operate)

(***************************************************************************)
(* Properties                                                              *)
(***************************************************************************)

\* A call that returns a reply returns the data of the reply to its own
\* request: nothing a server sends after the client gave up on it, or behind an
\* "end" reply, is taken for the answer to a later call on the kept connection.
\* The calls after a request that was answered twice, on the same connection, do
\* take such replies; no others do.
AnswerIsOwn ==
  pc = "idle" /\ ret.ok /\ call \notin muddled =>
    ret.reply.call = call /\ ret.data = ret.reply.data

\* A get returns "end" only if no server whose answer the client saw had handed
\* out a message: messages of all queues have been taken.
EndIsTrue ==
  pc = "idle" /\ opt = "get" /\ ret.result = 404 => \A h \in read : h.result = 404

\* When replies arrive in one piece, and no request was answered twice before on
\* a connection the call used, the result returned is the one in the reply
\* returned, and "end" is true.
WholeIsTrue ==
  ~split /\ call \notin muddled =>
    EndIsTrue /\ (pc = "idle" /\ ret.ok => ret.result = ret.reply.result)

\* A message is stored on two servers only if the client gave up waiting for
\* the answer of one of them, or used a connection on which a request had been
\* answered twice.
PutOnce ==
  \A c \in 1 .. call :
    Cardinality({e \in executed : e.call = c /\ e.opt = "put"}) > 1 => c \in late \cup muddled

\* Every call returns, whatever the servers do.
CallReturns == pc # "idle" ~> pc = "idle"
==============================================================================
