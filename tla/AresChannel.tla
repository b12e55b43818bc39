----------------------------- MODULE AresChannel -----------------------------
(***************************************************************************)
(* The query engine of c-ares as fakedns.c uses it: one channel, its       *)
(* servers, and the queries in flight (ares_send.c, ares_process.c,        *)
(* ares_cancel.c, ares_destroy.c, ares__close_sockets.c).                  *)
(*                                                                         *)
(* One thread runs the channel.  The mutual recursion of ares__send_query, *)
(* next_server and end_query is unrolled into steps of the query being     *)
(* worked on (cur, with its program counter pc); a callback that calls     *)
(* ares_send again nests: the new query remembers the query whose callback *)
(* started it (caller), so cur and the callers are the C call stack.       *)
(*                                                                         *)
(* The network is a nondeterministic environment: a server may answer,     *)
(* any number of times and at any later time, each query that reached it   *)
(* over a socket that is still open.  Lost, late, repeated and reordered   *)
(* answers are all behaviours of that environment.  Time is abstracted to  *)
(* the set of queries whose deadline has passed.  Query ids are taken to   *)
(* be distinct (AresTables is about when they are).                        *)
(***************************************************************************)
EXTENDS Integers, Sequences, FiniteSets

CONSTANTS
  NServers,     \* channel->nservers
  Tries,        \* channel->tries
  MaxQueries,   \* bound: how many times ares_send is called in a behaviour
  StayOpen,     \* ARES_FLAG_STAYOPEN
  UseVc,        \* ARES_FLAG_USEVC
  IgnTc,        \* ARES_FLAG_IGNTC
  NoCheckResp,  \* ARES_FLAG_NOCHECKRESP
  Rotate,       \* channel->rotate
  AppMay        \* what the application does besides sending and processing

ASSUME ServersAssumption == NServers \in Nat \ {0}
ASSUME TriesAssumption == Tries \in Nat \ {0}
ASSUME QueriesAssumption == MaxQueries \in Nat
ASSUME FlagsAssumption == /\ {StayOpen, UseVc, IgnTc, NoCheckResp, Rotate} \subseteq BOOLEAN
                          /\ AppMay \subseteq {"cancel", "destroy", "chain"}

Server == 0 .. NServers - 1
Query == 1 .. MaxQueries
NoQuery == 0
NoServer == -1

Status == {"NONE", "SUCCESS", "ETIMEOUT", "ECONNREFUSED", "ENOMEM", "EBADQUERY",
           "ECANCELLED", "EDESTRUCTION"}
Phase == {"app", "write", "readTcp", "readUdp", "timeouts", "broken",
          "cancel", "destroy", "destroyed", "aborted"}

\* A queued send_request.  The data pointer leads into the tcpbuf of query
\* "of", to a copy of its own (data_storage), or nowhere.
Request == [owner : Query \cup {NoQuery}, of : Query, data : {"tcpbuf", "copy", "null"}]

VARIABLES
  issued,      \* how many queries ares_send has accepted or refused so far
  live,        \* channel->all_queries; queries are numbered in list order
  lastServer,  \* channel->last_server
  chanGen,     \* channel->tcp_connection_generation
  qry,         \* struct query, one record per query
  srv,         \* struct server_state, one record per server
  phase,       \* which library function the application is in
  at,          \* index of the server loop of the current phase
  reading,     \* the recvfrom loop on the UDP socket of server at has begun
  todo,        \* list nodes the running list loop has still to visit
  err,         \* the server handle_error is working on
  cur,         \* the query whose library code is running
  calls        \* history: how often the callback of each query was invoked

chanVars == <<issued, live, lastServer, chanGen>>
ctlVars == <<phase, at, reading, todo, err>>
vars == <<issued, live, lastServer, chanGen, qry, srv, phase, at, reading, todo, err, cur, calls>>

\* sends is history: attempts to transmit.
FreshQuery ==
  [server |-> 0, tryCount |-> 0, skip |-> {}, usingTcp |-> FALSE,
   gen |-> [s \in Server |-> 0], error |-> "ECONNREFUSED", armed |-> FALSE,
   result |-> "NONE", pc |-> "none", caller |-> NoQuery, sends |-> 0]

\* udpAsked and tcpAsked are the environment: the live queries that left
\* over the socket that is open now.
ClosedServer(g) ==
  [udp |-> FALSE, tcp |-> FALSE, gen |-> g, queue |-> <<>>, broken |-> FALSE,
   clients |-> {}, udpAsked |-> {}, tcpAsked |-> {}]

Init ==
  /\ issued = 0
  /\ live = {}
  /\ lastServer = 0
  /\ chanGen = NServers
  /\ qry = [q \in Query |-> FreshQuery]
  /\ srv = [s \in Server |-> ClosedServer(s + 1)]
  /\ phase = "app"
  /\ at = 0
  /\ reading = FALSE
  /\ todo = {}
  /\ err = NoServer
  /\ cur = NoQuery
  /\ calls = [q \in Query |-> 0]

-----------------------------------------------------------------------------
(* Helpers *)

\* The TCP sockets of servers 0 .. s that are open: each one closed takes a
\* new generation number.
OpenTcpUpTo(s) == {r \in 0 .. s : srv[r].tcp}

\* Mutant: the broken mark outlives the connection.
ClosedStaysBroken(sv, g) ==
  [sv EXCEPT !.udp = FALSE, !.tcp = FALSE, !.queue = <<>>,
             !.udpAsked = {}, !.tcpAsked = {}, !.gen = IF sv.tcp THEN g ELSE @]

\* Mutant: the pending output buffers are not freed.
ClosedKeepsQueue(sv, g) ==
  [sv EXCEPT !.udp = FALSE, !.tcp = FALSE, !.broken = FALSE,
             !.udpAsked = {}, !.tcpAsked = {}, !.gen = IF sv.tcp THEN g ELSE @]

\* ares__close_sockets leaves the list of queries alone.
Closed(sv, g) ==
  [sv EXCEPT !.udp = FALSE, !.tcp = FALSE, !.queue = <<>>, !.broken = FALSE,
             !.udpAsked = {}, !.tcpAsked = {}, !.gen = IF sv.tcp THEN g ELSE @]

CloseAll ==
  /\ srv' = [s \in Server |->
               [Closed(srv[s], chanGen + Cardinality(OpenTcpUpTo(s)))
                  EXCEPT !.clients = @ \ {cur}]]
  /\ chanGen' = chanGen + Cardinality(OpenTcpUpTo(NServers - 1))

\* skip_server spares the only server there is.
SkipServer(skip, s) == IF NServers > 1 THEN skip \cup {s} ELSE skip

\* Mutant: the query stays in queries_to_server.
ReleasedButListed(sv, q) ==
  [sv EXCEPT !.udpAsked = @ \ {q}, !.tcpAsked = @ \ {q}]

\* ares__free_query: the query leaves every list it is in.
Released(sv, q) ==
  [sv EXCEPT !.clients = @ \ {q}, !.udpAsked = @ \ {q}, !.tcpAsked = @ \ {q}]

\* No query code is running and the current list loop is through.
LoopDone == cur = NoQuery /\ todo = {}

-----------------------------------------------------------------------------
(* ares_send *)

\* Mutant: the rotation forgets to wrap around.
RotatedTooFar == IF Rotate THEN lastServer + 1 ELSE lastServer

\* The server the next query starts with.
Rotated == IF Rotate THEN (lastServer + 1) % NServers ELSE lastServer

\* ares_send called by the application (c = NoQuery) or by the callback of c.
AresSend(c) ==
  LET q == issued + 1 IN
  /\ issued < MaxQueries
  /\ issued' = q
  /\ cur' = q
  /\ \/ \* the packet has no room for a header, or an allocation fails
        /\ \E status \in {"EBADQUERY", "ENOMEM"} :
             qry' = [qry EXCEPT ![q] = [FreshQuery EXCEPT
                       !.pc = "callback", !.caller = c, !.result = status]]
        /\ calls' = [calls EXCEPT ![q] = @ + 1]
        /\ UNCHANGED <<live, lastServer>>
     \/ \* qlen > PACKETSZ forces TCP just as the flag does
        /\ \E large \in BOOLEAN :
             qry' = [qry EXCEPT ![q] = [FreshQuery EXCEPT
                       !.pc = "send", !.caller = c, !.server = lastServer,
                       !.usingTcp = UseVc \/ large]]
        /\ lastServer' = Rotated
        /\ live' = live \cup {q}
        /\ UNCHANGED calls
  /\ UNCHANGED <<chanGen, srv, ctlVars>>

Send == phase = "app" /\ LoopDone /\ AresSend(NoQuery)

-----------------------------------------------------------------------------
(* ares__send_query *)

Sending(q) == cur = q /\ qry[q].pc = "send"

\* The attempt failed: skip_server and next_server.
GiveUpServer(q) ==
  qry' = [qry EXCEPT ![q] = [qry[q] EXCEPT !.pc = "next", !.sends = @ + 1,
                                      !.skip = SkipServer(@, qry[q].server)]]

SocketOpen(q) == LET sv == srv[qry[q].server] IN IF qry[q].usingTcp THEN sv.tcp ELSE sv.udp

\* open_tcp_socket, when the server has no connection.
TcpReady(sv) == IF sv.tcp THEN sv ELSE [sv EXCEPT !.tcp = TRUE, !.gen = chanGen + 1]

TakeGeneration(sv) == chanGen' = IF sv.tcp THEN chanGen ELSE chanGen + 1

OpenFails(q) ==
  /\ Sending(q)
  /\ ~SocketOpen(q)
  /\ GiveUpServer(q)
  /\ UNCHANGED <<chanVars, srv, ctlVars, cur, calls>>

\* Mutant: only the first transmission starts the timer.
RegisteredUnarmed(q, s) ==
  /\ qry' = [qry EXCEPT ![q] = [qry[q] EXCEPT !.pc = "rest", !.armed = qry[q].tryCount = 0,
                                  !.sends = @ + 1, !.caller = NoQuery,
                                  !.gen = IF qry[q].usingTcp
                                          THEN [@ EXCEPT ![s] = srv'[s].gen] ELSE @]]
  /\ cur' = qry[q].caller

\* The timer is set and the query moves to the list of its server.
Registered(q, s) ==
  /\ qry' = [qry EXCEPT ![q] = [qry[q] EXCEPT !.pc = "rest", !.armed = TRUE, !.sends = @ + 1,
                                  !.caller = NoQuery,
                                  !.gen = IF qry[q].usingTcp
                                          THEN [@ EXCEPT ![s] = srv'[s].gen] ELSE @]]
  /\ cur' = qry[q].caller

\* Mutant: the query is not taken out of the list of its old server.
MovedButListed(q, s, sv) ==
  [r \in Server |-> IF r = s THEN [sv EXCEPT !.clients = @ \cup {q}] ELSE srv[r]]

Moved(q, s, sv) ==
  [r \in Server |-> IF r = s THEN [sv EXCEPT !.clients = @ \cup {q}]
                             ELSE [srv[r] EXCEPT !.clients = @ \ {q}]]

SendTcp(q) ==
  LET s == qry[q].server
      request == [owner |-> q, of |-> q, data |-> "tcpbuf"]
  IN
  /\ Sending(q)
  /\ qry[q].usingTcp
  /\ srv' = Moved(q, s, [TcpReady(srv[s]) EXCEPT !.queue = Append(@, request)])
  /\ TakeGeneration(srv[s])
  /\ Registered(q, s)
  /\ UNCHANGED <<issued, live, lastServer, ctlVars, calls>>

\* calloc of the send_request fails.
SendTcpNoMemory(q) ==
  LET s == qry[q].server IN
  /\ Sending(q)
  /\ qry[q].usingTcp
  /\ srv' = [srv EXCEPT ![s] = TcpReady(@)]
  /\ TakeGeneration(srv[s])
  /\ qry' = [qry EXCEPT ![q].pc = "end", ![q].result = "ENOMEM"]
  /\ UNCHANGED <<issued, live, lastServer, ctlVars, cur, calls>>

SendUdp(q) ==
  LET s == qry[q].server IN
  /\ Sending(q)
  /\ ~qry[q].usingTcp
  /\ srv' = Moved(q, s, [srv[s] EXCEPT !.udp = TRUE, !.udpAsked = @ \cup {q}])
  /\ Registered(q, s)
  /\ UNCHANGED <<chanVars, ctlVars, calls>>

\* The socket is open but swrite fails.
SendUdpFails(q) ==
  /\ Sending(q)
  /\ ~qry[q].usingTcp
  /\ srv' = [srv EXCEPT ![qry[q].server].udp = TRUE]
  /\ GiveUpServer(q)
  /\ UNCHANGED <<chanVars, ctlVars, cur, calls>>

-----------------------------------------------------------------------------
(* next_server: one turn of its loop *)

\* Mutant: a connection that carried the query already is used again.
UsableAgain(q, s) == ~srv[s].broken /\ s \notin qry[q].skip

\* Mutant: the skip marks are ignored.
UsableThoughSkipped(q, s) ==
  /\ ~srv[s].broken
  /\ ~(qry[q].usingTcp /\ qry[q].gen[s] = srv[s].gen)

Usable(q, s) ==
  /\ ~srv[s].broken
  /\ s \notin qry[q].skip
  /\ ~(qry[q].usingTcp /\ qry[q].gen[s] = srv[s].gen)

\* Mutant: one try too many.
ExhaustedLate(t) == t > NServers * Tries

Exhausted(t) == t >= NServers * Tries

NextServer(q) ==
  LET t == qry[q].tryCount + 1
      s == (qry[q].server + 1) % NServers
  IN
  /\ cur = q
  /\ qry[q].pc = "next"
  /\ qry' = [qry EXCEPT ![q] =
       IF Exhausted(t)
       THEN [qry[q] EXCEPT !.tryCount = t, !.pc = "end", !.result = qry[q].error]
       ELSE [qry[q] EXCEPT !.tryCount = t, !.server = s,
                      !.pc = IF Usable(q, s) THEN "send" ELSE "next"]]
  /\ UNCHANGED <<chanVars, srv, ctlVars, cur, calls>>

-----------------------------------------------------------------------------
(* end_query and the callback *)

\* What end_query makes of a queued request of the query that ends.
Disowned(r, q, copied) ==
  IF r.owner # q THEN r
  ELSE [r EXCEPT !.owner = NoQuery, !.data = IF copied THEN "copy" ELSE "null"]

HasRequest(sv, q) == \E i \in DOMAIN sv.queue : sv.queue[i].owner = q

EndQuery(q) ==
  /\ cur = q
  /\ qry[q].pc = "end"
  /\ \E copied \in SUBSET Server :  \* servers where the copy was made
       /\ qry[q].result # "SUCCESS" => copied = {}
       /\ srv' = [s \in Server |->
            [srv[s] EXCEPT
               !.queue = [i \in DOMAIN srv[s].queue |->
                            Disowned(srv[s].queue[i], q, s \in copied)],
               !.broken = @ \/ (s \notin copied /\ HasRequest(srv[s], q))]]
  /\ qry' = [qry EXCEPT ![q].pc = "callback"]
  /\ calls' = [calls EXCEPT ![q] = @ + 1]
  /\ UNCHANGED <<chanVars, ctlVars, cur>>

\* The callback asks the next question before it returns.
CallbackSends(q) ==
  /\ cur = q
  /\ qry[q].pc = "callback"
  /\ "chain" \in AppMay
  /\ AresSend(q)

\* Mutant: a query started by the callback is overlooked.
IsLastOld(q) == \A p \in live : p >= q

\* No query but q is left in all_queries.
IsLast(q) == live \subseteq {q}

\* The callback returns and the query is freed; the sockets go with the last
\* query unless the channel stays open.  The loops of ares_cancel and
\* ares_destroy free the query but leave the sockets to their end.
CallbackReturns(q) ==
  LET swept == qry[q].result \in {"ECANCELLED", "EDESTRUCTION"}
  IN
  /\ cur = q
  /\ qry[q].pc = "callback"
  /\ qry' = [qry EXCEPT ![q] = [FreshQuery EXCEPT !.pc = "done", !.result = qry[q].result,
                                                     !.sends = qry[q].sends]]
  /\ live' = live \ {q}
  /\ IF q \in live /\ ~swept /\ IsLast(q) /\ ~StayOpen
     THEN CloseAll
     ELSE /\ srv' = [s \in Server |-> Released(srv[s], q)]
          /\ UNCHANGED chanGen
  /\ cur' = qry[q].caller
  /\ UNCHANGED <<issued, lastServer, ctlVars, calls>>

QueryStep ==
  \E q \in Query :
    \/ OpenFails(q) \/ SendTcp(q) \/ SendTcpNoMemory(q) \/ SendUdp(q) \/ SendUdpFails(q)
    \/ NextServer(q)
    \/ EndQuery(q) \/ CallbackSends(q) \/ CallbackReturns(q)

-----------------------------------------------------------------------------
(* ares_process *)

\* handle_error: close the sockets of s and steal its list of queries.
HandleError(s) ==
  /\ srv' = [srv EXCEPT ![s] = [Closed(@, chanGen + 1) EXCEPT !.clients = {}]]
  /\ chanGen' = IF srv[s].tcp THEN chanGen + 1 ELSE chanGen
  /\ todo' = srv[s].clients
  /\ err' = s
  /\ at' = at + 1
  /\ reading' = FALSE
  /\ UNCHANGED <<issued, live, lastServer, qry, phase, cur, calls>>

\* handle_error moves the next stolen query on.
MoveOn ==
  /\ phase \in {"write", "readTcp", "readUdp", "broken"}
  /\ cur = NoQuery
  /\ \E q \in todo :
       /\ qry' = [qry EXCEPT ![q].pc = "next", ![q].skip = SkipServer(@, err)]
       /\ todo' = todo \ {q}
       /\ cur' = q
  /\ UNCHANGED <<chanVars, srv, phase, at, reading, err, calls>>

ServerTurn(p) == phase = p /\ LoopDone /\ at < NServers

BeginProcess ==
  /\ phase = "app"
  /\ LoopDone
  /\ phase' = "write"
  /\ at' = 0
  /\ UNCHANGED <<chanVars, qry, srv, reading, todo, err, cur, calls>>

\* The server at hand is not selected, or is left with no more to do.  (From
\* a UDP socket that is gone recvfrom only returns an error.)
Advance ==
  /\ phase \in {"write", "readTcp", "readUdp", "broken"}
  /\ LoopDone
  /\ at < NServers
  /\ phase = "broken" => ~srv[at].broken
  /\ reading => srv[at].udp
  /\ at' = at + 1
  /\ reading' = FALSE
  /\ UNCHANGED <<chanVars, qry, srv, phase, todo, err, cur, calls>>

\* The server loop is through; the next part of processfds begins.
EndLoop ==
  /\ LoopDone
  /\ at = NServers
  /\ \/ phase = "write" /\ phase' = "readTcp"
     \/ phase = "readTcp" /\ phase' = "readUdp"
     \/ phase = "broken" /\ phase' = "app"
  /\ at' = 0
  /\ err' = NoServer
  /\ UNCHANGED <<chanVars, qry, srv, reading, todo, cur, calls>>

\* Mutant: the queue is advanced past a request that was not written.
UnwrittenOffByOne(queue, n) == SubSeq(queue, n + 2, Len(queue))

\* advance_tcp_send_queue
Unwritten(queue, n) == SubSeq(queue, n + 1, Len(queue))

\* writev takes the first n requests whole and perhaps part of the next one;
\* only a request that is gone from the queue has reached the server.
WriteTcp ==
  /\ ServerTurn("write")
  /\ srv[at].tcp /\ ~srv[at].broken
  /\ \E n \in 1 .. Len(srv[at].queue) :
       srv' = [srv EXCEPT ![at] = [srv[at] EXCEPT
                 !.queue = Unwritten(@, n),
                 !.tcpAsked = @ \cup ({srv[at].queue[i].owner : i \in 1 .. n} \cap live)]]
  /\ at' = at + 1
  /\ UNCHANGED <<chanVars, qry, phase, reading, todo, err, cur, calls>>

\* The write fails.
WriteTcpFails ==
  /\ ServerTurn("write")
  /\ srv[at].tcp /\ ~srv[at].broken /\ srv[at].queue # <<>>
  /\ HandleError(at)

\* The server closed the connection, or the read or its allocation fails.
ReadTcpFails ==
  /\ ServerTurn("readTcp")
  /\ srv[at].tcp /\ ~srv[at].broken
  /\ HandleError(at)

\* A server that is broken is not read from, but a loop that has begun goes
\* on until there is nothing to read.
UdpTurn == ServerTurn("readUdp") /\ (reading \/ (srv[at].udp /\ ~srv[at].broken))

\* An ICMP error on the UDP socket, an empty packet, or a socket closed by
\* the callback of the last answer.
ReadUdpFails ==
  /\ UdpTurn
  /\ HandleError(at)

\* process_answer, once the packet is matched with query q.
ProcessAnswer(q, s, tcp, kind) ==
  LET truncated == kind = "truncated" /\ ~tcp /\ ~IgnTc
      refused == kind = "servfail" /\ ~NoCheckResp
      skipped == [qry[q] EXCEPT !.skip = SkipServer(@, s)]
      runs(r) == qry' = [qry EXCEPT ![q] = r] /\ cur' = q
      drops(r) == qry' = [qry EXCEPT ![q] = r] /\ UNCHANGED cur
  IN
  IF truncated
  THEN IF qry[q].usingTcp THEN UNCHANGED <<qry, cur>>
       ELSE runs([qry[q] EXCEPT !.usingTcp = TRUE, !.pc = "send"])
  ELSE IF refused
  THEN IF qry[q].server = s THEN runs([skipped EXCEPT !.pc = "next"])
       ELSE drops(skipped)
  ELSE runs([qry[q] EXCEPT !.pc = "end", !.result = "SUCCESS"])

\* One answer of a TCP connection per call of ares_process.
ReadTcpAnswer ==
  /\ ServerTurn("readTcp")
  /\ srv[at].tcp /\ ~srv[at].broken
  /\ \E q \in srv[at].tcpAsked, kind \in {"ok", "servfail"} : ProcessAnswer(q, at, TRUE, kind)
  /\ at' = at + 1
  /\ UNCHANGED <<chanVars, srv, phase, reading, todo, err, calls>>

\* All waiting packets of a UDP socket are read in one go.
ReadUdpAnswer ==
  /\ UdpTurn
  /\ reading' = TRUE
  /\ \E q \in srv[at].udpAsked, kind \in {"ok", "servfail", "truncated"} :
       ProcessAnswer(q, at, FALSE, kind)
  /\ UNCHANGED <<chanVars, srv, phase, at, todo, err, calls>>

\* process_timeouts finds the queries whose deadline has passed ...
BeginTimeouts(late) ==
  /\ phase = "readUdp"
  /\ LoopDone
  /\ at = NServers
  /\ late \subseteq {q \in live : qry[q].armed}
  /\ phase' = "timeouts"
  /\ todo' = late
  /\ err' = NoServer
  /\ UNCHANGED <<chanVars, qry, srv, at, reading, cur, calls>>

\* ... and moves each of them to its next server.
Timeout ==
  /\ phase = "timeouts"
  /\ cur = NoQuery
  /\ \E q \in todo :
       /\ qry' = [qry EXCEPT ![q].pc = "next", ![q].error = "ETIMEOUT"]
       /\ todo' = todo \ {q}
       /\ cur' = q
  /\ UNCHANGED <<chanVars, srv, phase, at, reading, err, calls>>

EndTimeouts ==
  /\ phase = "timeouts"
  /\ LoopDone
  /\ phase' = "broken"
  /\ at' = 0
  /\ UNCHANGED <<chanVars, qry, srv, reading, todo, err, cur, calls>>

\* process_broken_connections
CloseBroken ==
  /\ ServerTurn("broken")
  /\ srv[at].broken
  /\ HandleError(at)

ProcessStep ==
  \/ BeginProcess \/ Advance \/ EndLoop \/ MoveOn
  \/ WriteTcp \/ WriteTcpFails \/ ReadTcpFails \/ ReadTcpAnswer \/ ReadUdpFails \/ ReadUdpAnswer
  \/ \E late \in SUBSET Query : BeginTimeouts(late)
  \/ Timeout \/ EndTimeouts \/ CloseBroken

-----------------------------------------------------------------------------
(* ares_cancel and ares_destroy *)

\* Mutant: the walk visits the node it has just freed.
FollowingItself(q) ==
  IF q # NoQuery THEN {q}
  ELSE {r \in live : \A p \in live : r <= p}

\* The node a walk over all_queries visits after q: lists grow at the tail,
\* so list order is the order of the numbers.
Following(q) == {r \in live : r > q /\ \A p \in live : p > q => r <= p}

BeginSweep(kind) ==
  /\ phase = "app"
  /\ LoopDone
  /\ kind \in AppMay
  /\ phase' = kind
  /\ todo' = Following(NoQuery)
  /\ UNCHANGED <<chanVars, qry, srv, at, reading, err, cur, calls>>

\* The next node is read before the callback runs.
SweepQuery ==
  /\ phase \in {"cancel", "destroy"}
  /\ cur = NoQuery
  /\ \E q \in todo :
       /\ todo' = Following(q)
       /\ qry' = [qry EXCEPT ![q].pc = "callback", ![q].caller = NoQuery,
                    ![q].result = IF phase = "cancel" THEN "ECANCELLED" ELSE "EDESTRUCTION"]
       /\ calls' = [calls EXCEPT ![q] = @ + 1]
       /\ cur' = q
  /\ UNCHANGED <<chanVars, srv, phase, at, reading, err>>

\* After the loop the lists must be empty, or an assertion stops the program.
EndSweep ==
  /\ phase \in {"cancel", "destroy"}
  /\ LoopDone
  /\ IF live # {} THEN phase' = "aborted" /\ UNCHANGED <<srv, chanGen>>
     ELSE /\ phase' = IF phase = "cancel" THEN "app" ELSE "destroyed"
          /\ IF phase = "cancel" /\ StayOpen THEN UNCHANGED <<srv, chanGen>> ELSE CloseAll
  /\ UNCHANGED <<issued, live, lastServer, qry, at, reading, todo, err, cur, calls>>

SweepStep == (\E kind \in {"cancel", "destroy"} : BeginSweep(kind)) \/ SweepQuery \/ EndSweep

Next == Send \/ QueryStep \/ ProcessStep \/ SweepStep

Spec == Init /\ [][Next]_vars

-----------------------------------------------------------------------------
(* ares_fds, ares_getsock: what the application waits for *)

\* The UDP sockets, only while there are queries, and the TCP sockets.
Sockets ==
  {<<s, "udp">> : s \in {r \in Server : srv[r].udp /\ live # {}}}
  \cup {<<s, "tcp">> : s \in {r \in Server : srv[r].tcp}}

WritableTcp == {<<s, "tcp">> : s \in {r \in Server : srv[r].tcp /\ srv[r].queue # <<>>}}

AresFds == [read |-> Sockets, write |-> WritableTcp]

GetsockMax == 16   \* ARES_GETSOCK_MAXNUM

\* What ares_getsock has counted (sockindex) when it comes to server s, and
\* when it comes to the socket x: UDP goes before TCP.
CountBefore(s) == Cardinality({y \in Sockets : y[1] < s})

Position(x) == CountBefore(x[1]) + (IF x[2] = "tcp" /\ <<x[1], "udp">> \in Sockets THEN 1 ELSE 0)

\* The first numsocks sockets; no server is looked at once there are GetsockMax.
AresGetsock(numsocks) ==
  LET listed == {x \in Sockets : CountBefore(x[1]) < GetsockMax /\ Position(x) < numsocks}
  IN  [read |-> listed, write |-> IF live = {} THEN {} ELSE listed \cap WritableTcp]

-----------------------------------------------------------------------------
(* Properties *)

QueryRecord ==
  [server : Server, tryCount : Nat, skip : SUBSET Server, usingTcp : BOOLEAN,
   gen : [Server -> Nat], error : Status, armed : BOOLEAN, result : Status,
   pc : {"none", "send", "next", "rest", "end", "callback", "done"},
   caller : Query \cup {NoQuery}, sends : Nat]

ServerRecord ==
  [udp : BOOLEAN, tcp : BOOLEAN, gen : Nat, queue : Seq(Request), broken : BOOLEAN,
   clients : SUBSET Query, udpAsked : SUBSET Query, tcpAsked : SUBSET Query]

\* Every variable of the channel has its type.
TypeOK ==
  /\ issued \in 0 .. MaxQueries
  /\ live \subseteq Query
  /\ lastServer \in Server
  /\ chanGen \in Nat
  /\ qry \in [Query -> QueryRecord]
  /\ srv \in [Server -> ServerRecord]
  /\ phase \in Phase
  /\ at \in 0 .. NServers
  /\ reading \in BOOLEAN
  /\ todo \subseteq Query
  /\ err \in Server \cup {NoServer}
  /\ cur \in Query \cup {NoQuery}
  /\ calls \in [Query -> Nat]

\* The callback of a query is invoked exactly once: not while the query waits,
\* and once when the query has left the channel, however it ended
\* (end_query, ares_cancel, ares_destroy, or ares_send refusing it).
CallbackOnce ==
  \A q \in Query :
    /\ calls[q] = IF qry[q].pc \in {"callback", "done"} THEN 1 ELSE 0
    /\ qry[q].pc = "done" => q \notin live

\* The queries handle_error has stolen and not yet moved on.
Stolen == IF phase \in {"write", "readTcp", "readUdp", "broken"} THEN todo ELSE {}

\* A query that waits is where the library looks for it: in the list of its
\* server and of no other, so that an error of the server reaches it; with a
\* timer, so that process_timeouts does; and ares_fds and ares_getsock report
\* the socket it was sent over, for writing too while its request is queued.
WaitingIsRegistered ==
  \A q \in live : (qry[q].pc = "rest" /\ q \notin Stolen) =>
    LET s == qry[q].server
        socket == <<s, IF qry[q].usingTcp THEN "tcp" ELSE "udp">>
    IN
    /\ {r \in Server : q \in srv[r].clients} = {s}
    /\ qry[q].armed
    /\ \A waitsFor \in {AresFds, AresGetsock(2 * NServers)} :
         /\ socket \in waitsFor.read
         /\ HasRequest(srv[s], q) => <<s, "tcp">> \in waitsFor.write

\* A query that waits over TCP still has its request in the queue of the
\* connection it was given to, or the request was written there in full: no
\* reconnect and no write drops it silently.
RequestNotLost ==
  \A q \in live : (qry[q].pc = "rest" /\ qry[q].usingTcp /\ q \notin Stolen) =>
    LET sv == srv[qry[q].server] IN
    /\ qry[q].gen[qry[q].server] = sv.gen
    /\ q \in sv.tcpAsked \/ HasRequest(sv, q)

\* The assertions of handle_error and of the list loops: every stolen query
\* is still assigned to the server that failed, and the node a loop saved
\* before it ran a callback has not been freed by that callback.
SavedNodesAlive ==
  /\ todo \subseteq live
  /\ \A q \in Stolen : qry[q].server = err /\ qry[q].pc = "rest"

\* When ares_process can write, no queued request points into the packet
\* buffer of a query that is gone (the comments of ares__send_query and
\* end_query promise it); one that points nowhere makes its connection broken,
\* and only such a connection is; without a connection none is queued.
NoDanglingRequest ==
  phase \notin {"cancel", "destroy", "aborted"} => \A s \in Server :
    LET queue == srv[s].queue IN
    /\ \A i \in DOMAIN queue :
         /\ queue[i].data = "tcpbuf" => queue[i].of \in live
         /\ queue[i].owner # NoQuery => queue[i].owner \in live
    /\ srv[s].broken <=> \E i \in DOMAIN queue : queue[i].data = "null"
    /\ queue # <<>> => srv[s].tcp

\* A query is given at most once to one TCP connection: a retransmission on
\* the same connection is suppressed by the generation numbers.
OncePerConnection ==
  \A s \in Server, q \in Query :
    LET queued == {i \in DOMAIN srv[s].queue : srv[s].queue[i].owner = q} IN
    /\ Cardinality(queued) <= 1
    /\ queued # {} => q \notin srv[s].tcpAsked

\* A query is transmitted at most nservers * tries times, plus once when a
\* truncated answer moves it to TCP.
SendsBounded ==
  \A q \in Query : qry[q].sends <= NServers * Tries + (IF UseVc THEN 0 ELSE 1)

\* A transmission never goes to a server this query was told to skip, even
\* when late answers of earlier servers arrive while it waits for another.
SkippedStaySkipped ==
  \A q \in live : qry[q].pc \in {"send", "rest"} /\ q \notin Stolen =>
    qry[q].server \notin qry[q].skip

\* When control is back with the application and nothing is in flight, every
\* socket is closed unless ARES_FLAG_STAYOPEN is set, no request is queued
\* and no server is left marked as broken.
ClosedWhenIdle ==
  phase = "app" /\ cur = NoQuery /\ live = {} /\ ~StayOpen =>
    \A s \in Server : ~srv[s].udp /\ ~srv[s].tcp /\ srv[s].queue = <<>> /\ ~srv[s].broken

\* The assertions at the end of ares_cancel and in ares__destroy_servers_state:
\* after the walk no query is left.
SweepLeavesNothing == phase # "aborted"

\* ares_destroy answers every query, leaves no socket open, no request queued
\* and no query in the list of a server (the assertion of
\* ares__destroy_servers_state).
DestroyedIsClean ==
  phase = "destroyed" =>
    /\ \A q \in 1 .. issued : calls[q] = 1
    /\ \A s \in Server : ~srv[s].udp /\ ~srv[s].tcp /\ srv[s].queue = <<>> /\ srv[s].clients = {}

-----------------------------------------------------------------------------
(* The inductive invariant behind CallbackOnce and SavedNodesAlive *)

\* The queries on the C call stack.
Active == {q \in Query : qry[q].pc \in {"send", "next", "end", "callback"}}

\* cur is the top of the call stack: a callback only starts younger queries,
\* and only a callback starts any.
CallStack ==
  /\ cur \in Active \cup {NoQuery}
  /\ \A q \in Active :
       /\ q <= cur
       /\ qry[q].caller \in Active \cup {NoQuery}
       /\ qry[q].caller < q
       /\ \A p \in Active : p < q => p <= qry[q].caller

\* live holds the accepted queries that have not ended.
LiveQueries ==
  /\ \A q \in Query : q > issued => qry[q].pc = "none"
  /\ \A q \in live : q <= issued /\ qry[q].pc \notin {"none", "done"}
  /\ \A q \in Query : qry[q].pc \in {"send", "next", "rest", "end"} => q \in live
  /\ \A q \in Query : qry[q].pc = "rest" => qry[q].caller = NoQuery

\* Servers hold live queries only, and in the list of a server are the
\* queries that wait for it.
ServerLists ==
  \A s \in Server :
    /\ srv[s].clients \cup srv[s].udpAsked \cup srv[s].tcpAsked \subseteq live
    /\ \A q \in srv[s].clients : qry[q].pc = "rest" => qry[q].server = s

\* The nodes a list loop has still to visit belong to waiting queries.
SavedWait == \A q \in todo : qry[q].pc = "rest" /\ (q \in Stolen => qry[q].server = err)

\* Control over the queries in flight is never lost or doubled: the stack, the
\* lists and the saved nodes agree on which query is where.
InFlight == CallStack /\ LiveQueries /\ ServerLists /\ SavedWait /\ CallbackOnce

=============================================================================
