--------------------------- MODULE AresSocketProofs ---------------------------
(***************************************************************************)
(* Queries and the sockets of their servers, up to their end: a waiting    *)
(* query can be reached by every event that may end its wait, its request  *)
(* is not lost and is not written twice.  No queued request outlives its   *)
(* query, the sockets go with the last query, ares_cancel and ares_destroy *)
(* leave no query behind, and a destroyed channel has answered everything. *)
(* For every number of servers, tries and queries.                         *)
(***************************************************************************)
EXTENDS AresServiceProofs, NaturalsInduction, WellFoundedInduction

-----------------------------------------------------------------------------
(* The inductive invariant *)

\* Below the top of the call stack there are only callbacks.
TopRuns == \A q \in Active \ {cur} : qry[q].pc = "callback"

\* No query has two requests in one queue.
DistinctOwners(queue) ==
  \A i, j \in DOMAIN queue : queue[i].owner = queue[j].owner /\ queue[i].owner # NoQuery => i = j

\* Without a connection nothing is queued and nothing is awaited.
ConnectionsSound ==
  \A s \in Server :
    /\ srv[s].gen > 0
    /\ ~srv[s].tcp => srv[s].queue = <<>> /\ srv[s].tcpAsked = {}
    /\ DistinctOwners(srv[s].queue)

\* A query that this connection carries, queued or written.
Carries(s, q) == HasRequest(srv[s], q) \/ q \in srv[s].tcpAsked

\* The generation numbers tell which connections carry a query.
GenerationsSound ==
  /\ \A s \in Server, q \in Query : Carries(s, q) => qry[q].pc # "none"
  /\ \A s \in Server, q \in live : Carries(s, q) => qry[q].gen[s] = srv[s].gen
  /\ \A s \in Server, q \in Query : ~(HasRequest(srv[s], q) /\ q \in srv[s].tcpAsked)
  /\ \A q \in Query : qry[q].pc = "send" /\ qry[q].usingTcp =>
       qry[q].gen[qry[q].server] # srv[qry[q].server].gen

Reachable(q) ==
  LET sv == srv[qry[q].server] IN
  /\ q \in sv.clients
  /\ IF qry[q].usingTcp THEN sv.tcp /\ Carries(qry[q].server, q) ELSE sv.udp

WaitersReachable == \A q \in live \ Stolen : qry[q].pc = "rest" => Reachable(q)

SocketInv == TopRuns /\ ConnectionsSound /\ GenerationsSound /\ WaitersReachable

-----------------------------------------------------------------------------
(* What the kinds of steps have in common *)

\* At most a query moves along a path that leaves the sockets alone.
Quiet ==
  /\ UNCHANGED <<srv, chanGen>>
  /\ live \subseteq live'
  /\ qry' = qry \/ \E q \in Query : QuietPath(q)
  /\ \A q \in live' \ live : q \in Query /\ qry[q].pc = "none"

SocketStep(q) ==
  SendTcp(q) \/ SendTcpNoMemory(q) \/ SendUdp(q) \/ SendUdpFails(q) \/ EndQuery(q) \/ CallbackReturns(q)

LEMMA SendQuiet ==
  ASSUME Inv, NEW c \in Query \cup {NoQuery}, AresSend(c)
  PROVE  Quiet
<1>. DEFINE q == issued + 1
<1>1. live \subseteq live' /\ live' \subseteq live \cup {q} /\ UNCHANGED <<srv, chanGen>>
  BY DEF AresSend
<1>2. issued < MaxQueries /\ issued \in 0 .. MaxQueries
  BY DEF AresSend, Inv, TypeOK
<1>3. q \in Query /\ q > issued
  BY <1>2, QueriesAssumption DEF Query
<1>. HIDE DEF q
<1>4. qry[q].pc = "none"
  BY <1>3 DEF Inv, InFlight, LiveQueries
<1>. QED
  BY <1>1, <1>3, <1>4, SendPath DEF Quiet

LEMMA KindsOfSteps ==
  ASSUME Inv, [Next]_vars
  PROVE  \/ Quiet
         \/ \E q \in Query : SocketStep(q)
         \/ /\ at \in Server /\ LoopDone /\ HandleError(at)
            /\ phase \in {"write", "readTcp", "readUdp", "broken"}
         \/ at \in Server /\ LoopDone /\ WriteTcp
         \/ EndSweep
<1>. USE DEF chanVars
<1>1. CASE Send
  BY <1>1, SendQuiet DEF Send
<1>2. ASSUME NEW q \in Query, CallbackSends(q) PROVE Quiet
  BY <1>2, SendQuiet DEF CallbackSends
<1>3. ASSUME NEW q \in Query, OpenFails(q) \/ NextServer(q) PROVE Quiet
  <2>1. QuietPath(q) /\ UNCHANGED <<srv, chanGen, live>>
    BY <1>3 DEF OpenFails, NextServer, Sending, QuietPath, AttemptFails
  <2>. QED
    BY <2>1 DEF Quiet
<1>4. CASE QueryStep
  BY <1>2, <1>3, <1>4 DEF QueryStep, SocketStep
<1>5. CASE ProcessStep
  <2>1. CASE WriteTcpFails \/ ReadTcpFails \/ ReadUdpFails \/ CloseBroken
    <3>1. /\ HandleError(at) /\ at < NServers /\ LoopDone
          /\ phase \in {"write", "readTcp", "readUdp", "broken"}
      BY <2>1 DEF WriteTcpFails, ReadTcpFails, ReadUdpFails, CloseBroken, UdpTurn, ServerTurn
    <3>. QED
      BY <3>1, TurnIndex DEF Inv
  <2>3. CASE WriteTcp
    BY <2>3, TurnIndex DEF Inv, WriteTcp, ServerTurn
  <2>2. CASE UNCHANGED <<srv, chanGen, live>>
    BY <1>5, <2>2, ProcessStepPath DEF Quiet
  <2>. QED
    BY <1>5, <2>1, <2>2, <2>3
       DEF ProcessStep, BeginProcess, Advance, EndLoop, MoveOn, ReadTcpAnswer, ReadUdpAnswer,
           BeginTimeouts, Timeout, EndTimeouts
<1>6. CASE SweepStep
  <2>1. CASE UNCHANGED <<srv, chanGen, live>>
    BY <1>6, <2>1, SweepStepPath DEF Quiet
  <2>. QED
    BY <1>6, <2>1 DEF SweepStep, BeginSweep, SweepQuery
<1>7. CASE UNCHANGED vars
  BY <1>7 DEF vars, Quiet
<1>. QED
  BY <1>1, <1>4, <1>5, <1>6, <1>7 DEF Next

-----------------------------------------------------------------------------
(* TopRuns *)

\* The query on top of the stack is the one that moves.
LEMMA TopMoves ==
  ASSUME TypeOK, TopRuns, NEW q \in Query, OthersKeep(q), q # cur,
         cur = NoQuery \/ qry[cur].pc = "callback", cur' = q
  PROVE  TopRuns'
BY QueryNumbers DEF TopRuns, Active, OthersKeep

LEMMA TopLeaves ==
  ASSUME TypeOK, TopRuns, NEW q \in Query, OthersKeep(q), q = cur,
         cur' = q \/ qry'[q].pc \in {"rest", "done"}
  PROVE  TopRuns'
<1>1. q \in Active' => cur' = q
  BY DEF Active
<1>. QED
  BY <1>1 DEF TopRuns, Active, OthersKeep

LEMMA StackKeeps ==
  ASSUME TypeOK, TopRuns, UNCHANGED cur, \A q \in Query : qry'[q].pc = qry[q].pc
  PROVE  TopRuns'
BY DEF TopRuns, Active

LEMMA AnswerTop ==
  ASSUME TypeOK, TopRuns, cur = NoQuery, NEW q \in Query, NEW s \in Server, NEW tcp, NEW kind,
         ProcessAnswer(q, s, tcp, kind)
  PROVE  TopRuns'
<1>. DEFINE skipped == [qry[q] EXCEPT !.skip = SkipServer(@, s)]
<1>0. qry[q] \in QueryRecord /\ DOMAIN qry = Query /\ q # cur
  BY QueryNumbers DEF TypeOK
<1>1. skipped.pc = qry[q].pc
  BY <1>0 DEF QueryRecord
<1>2. \/ cur' = cur /\ (qry' = qry \/ qry' = [qry EXCEPT ![q] = skipped])
      \/ cur' = q /\ \E r : qry' = [qry EXCEPT ![q] = r]
  BY Zenon DEF ProcessAnswer
<1>3. CASE cur' = cur /\ (qry' = qry \/ qry' = [qry EXCEPT ![q] = skipped])
  <2>1. \A p \in Query : qry'[p].pc = qry[p].pc
    BY <1>0, <1>1, <1>3
  <2>. QED
    BY <1>3, <2>1, StackKeeps
<1>4. CASE cur' = q /\ \E r : qry' = [qry EXCEPT ![q] = r]
  BY <1>0, <1>4, TopMoves DEF OthersKeep
<1>. QED
  BY <1>2, <1>3, <1>4

LEMMA NextTop ==
  ASSUME Inv, TopRuns, [Next]_vars
  PROVE  TopRuns'
<1>. USE DEF chanVars, ctlVars
<1>0. TypeOK /\ DOMAIN qry = Query /\ \A q \in Query : DOMAIN qry[q] =
        {"server", "tryCount", "skip", "usingTcp", "gen", "error", "armed",
         "result", "pc", "caller", "sends"}
  BY DEF Inv, TypeOK, QueryRecord
<1>1. ASSUME NEW c, AresSend(c), c = cur, c = NoQuery \/ qry[c].pc = "callback" PROVE TopRuns'
  <2>. DEFINE q == issued + 1
  <2>1. issued < MaxQueries /\ issued \in 0 .. MaxQueries /\ cur' = q
    BY <1>0, <1>1 DEF AresSend, TypeOK
  <2>2. q \in Query /\ q > issued
    BY <2>1, QueriesAssumption DEF Query
  <2>3. OthersKeep(q)
    BY <1>0, <1>1, <2>1 DEF AresSend, OthersKeep
  <2>. HIDE DEF q
  <2>4. qry[q].pc = "none"
    BY <2>2 DEF Inv, InFlight, LiveQueries
  <2>. QED
    BY <1>0, <1>1, <2>1, <2>2, <2>3, <2>4, QueryNumbers, TopMoves
<1>2. ASSUME NEW q \in Query,
             \/ OpenFails(q) \/ SendTcp(q) \/ SendTcpNoMemory(q) \/ SendUdp(q)
             \/ SendUdpFails(q) \/ NextServer(q) \/ EndQuery(q) \/ CallbackReturns(q)
      PROVE  TopRuns'
  <2>1. Path(q)
    BY <1>2, QueryStepPath
  <2>2. OthersKeep(q)
    BY <1>0, <2>1, PathChangesOne
  <2>3. q = cur
    BY <1>2 DEF OpenFails, SendTcp, SendTcpNoMemory, SendUdp, SendUdpFails, Sending, NextServer,
                EndQuery, CallbackReturns
  <2>4. cur' = q \/ qry'[q].pc \in {"rest", "done"}
    <3>1. CASE OpenFails(q) \/ SendTcpNoMemory(q) \/ SendUdpFails(q) \/ NextServer(q) \/ EndQuery(q)
      BY <2>3, <3>1 DEF OpenFails, SendTcpNoMemory, SendUdpFails, NextServer, EndQuery
    <3>2. CASE SendTcp(q) \/ SendUdp(q)
      BY <1>0, <3>2 DEF SendTcp, SendUdp, Registered
    <3>3. CASE CallbackReturns(q)
      BY <1>0, <3>3 DEF CallbackReturns, FreshQuery
    <3>. QED
      BY <1>2, <3>1, <3>2, <3>3
  <2>. QED
    BY <1>0, <2>2, <2>3, <2>4, TopLeaves
<1>3. CASE Send
  BY <1>1, <1>3 DEF Send, LoopDone
<1>4. CASE QueryStep
  BY <1>1, <1>2, <1>4 DEF QueryStep, CallbackSends
<1>5. CASE MoveOn \/ Timeout \/ SweepQuery
  <2>1. cur = NoQuery /\ \E q \in todo : OthersKeep(q) /\ cur' = q
    BY <1>0, <1>5 DEF MoveOn, Timeout, SweepQuery, OthersKeep
  <2>. QED
    BY <1>0, <2>1, QueryNumbers, TopMoves DEF TypeOK
<1>6. CASE UNCHANGED <<qry, cur>>
  BY <1>0, <1>6, StackKeeps
<1>7. CASE ReadTcpAnswer
  <2>1. at \in Server /\ cur = NoQuery
    BY <1>0, <1>7, TurnIndex DEF ReadTcpAnswer, ServerTurn, LoopDone
  <2>2. PICK q \in srv[at].tcpAsked, kind \in {"ok", "servfail"} : ProcessAnswer(q, at, TRUE, kind)
    BY <1>7 DEF ReadTcpAnswer
  <2>. QED
    BY <1>0, <2>1, <2>2, AnswerTop DEF TypeOK, ServerRecord
<1>8. CASE ReadUdpAnswer
  <2>1. at \in Server /\ cur = NoQuery
    BY <1>0, <1>8, TurnIndex DEF ReadUdpAnswer, UdpTurn, ServerTurn, LoopDone
  <2>2. PICK q \in srv[at].udpAsked, kind \in {"ok", "servfail", "truncated"} :
          ProcessAnswer(q, at, FALSE, kind)
    BY <1>8 DEF ReadUdpAnswer
  <2>. QED
    BY <1>0, <2>1, <2>2, AnswerTop DEF TypeOK, ServerRecord
<1>9. CASE ProcessStep
  BY <1>5, <1>6, <1>7, <1>8, <1>9
     DEF ProcessStep, BeginProcess, Advance, EndLoop, WriteTcp, WriteTcpFails, ReadTcpFails,
         ReadUdpFails, BeginTimeouts, EndTimeouts, CloseBroken, HandleError
<1>10. CASE SweepStep
  BY <1>5, <1>6, <1>10 DEF SweepStep, BeginSweep, EndSweep
<1>. QED
  BY <1>3, <1>4, <1>6, <1>9, <1>10 DEF Next, vars

-----------------------------------------------------------------------------
(* Steps that leave the sockets alone *)

LEMMA QuietFacts ==
  ASSUME Inv, SoundRecords, ConnectionsSound, NEW q \in Query, QuietPath(q)
  PROVE  /\ qry'[q].pc # "none"
         /\ qry[q].pc = "none" \/ qry'[q].gen = qry[q].gen
         /\ qry'[q].pc = "rest" => /\ qry[q].pc = "rest"
                                   /\ UNCHANGED <<qry[q].server, qry[q].usingTcp>>
         /\ qry'[q].pc = "send" /\ qry'[q].usingTcp =>
              qry'[q].gen[qry'[q].server] # srv[qry'[q].server].gen
<1>. DEFINE old == qry[q]
            new == qry'[q]
<1>0. /\ old \in QueryRecord /\ DOMAIN qry = Query /\ lastServer \in Server
      /\ DOMAIN old = {"server", "tryCount", "skip", "usingTcp", "gen", "error", "armed",
                       "result", "pc", "caller", "sends"}
  BY DEF Inv, TypeOK, QueryRecord
<1>1. ASSUME new.gen = [s \in Server |-> 0], new.server \in Server
      PROVE  new.gen[new.server] # srv[new.server].gen
  BY <1>1 DEF ConnectionsSound
<1>2. CASE Accepted(q)
  <2>1. PICK c \in Query \cup {NoQuery}, large \in BOOLEAN :
          new = [FreshQuery EXCEPT !.pc = "send", !.caller = c, !.server = lastServer,
                                   !.usingTcp = UseVc \/ large]
    BY <1>0, <1>2 DEF Accepted, Becomes
  <2>2. /\ new.pc = "send" /\ new.gen = [s \in Server |-> 0] /\ new.server \in Server
        /\ old.pc = "none"
    BY <1>0, <1>2, <2>1 DEF Accepted, FreshQuery
  <2>. QED
    BY <1>1, <2>2
<1>3. CASE RefusedAtOnce(q)
  <2>1. PICK c \in Query \cup {NoQuery}, status \in {"EBADQUERY", "ENOMEM"} :
          new = [FreshQuery EXCEPT !.pc = "callback", !.caller = c, !.result = status]
    BY <1>0, <1>3 DEF RefusedAtOnce, Becomes
  <2>2. old.pc = "none" /\ new.pc = "callback"
    BY <1>3, <2>1 DEF RefusedAtOnce, FreshQuery
  <2>. QED
    BY <2>2
<1>4. CASE AttemptFails(q)
  <2>1. new.pc = "next" /\ new.gen = old.gen
    BY <1>0, <1>4 DEF AttemptFails, GiveUpServer
  <2>. QED
    BY <2>1
<1>5. CASE NextServer(q)
  <2>1. /\ new.gen = old.gen /\ new.usingTcp = old.usingTcp /\ new.pc \in {"send", "next", "end"}
        /\ new.pc = "send" => Usable(q, new.server)
    BY <1>0, <1>5 DEF NextServer
  <2>. QED
    BY <2>1 DEF Usable
<1>6. CASE MovesOn(q)
  <2>1. \/ \E s \in Server : new = [old EXCEPT !.pc = "next", !.skip = SkipServer(@, s)]
        \/ new = [old EXCEPT !.pc = "next", !.error = "ETIMEOUT"]
    BY <1>0, <1>6 DEF MovesOn, Becomes
  <2>2. new.pc = "next" /\ new.gen = old.gen
    BY <1>0, <2>1
  <2>. QED
    BY <2>2
<1>7. CASE LateRefusal(q)
  <2>1. UNCHANGED <<qry[q].pc, qry[q].server, qry[q].usingTcp, qry[q].gen>> /\ old.pc = "rest"
    BY <1>0, <1>7 DEF LateRefusal, Becomes
  <2>. QED
    BY <2>1
<1>8. CASE Truncated(q)
  <2>1. new.pc = "send" /\ UNCHANGED <<qry[q].gen, qry[q].server>> /\ ~old.usingTcp
    BY <1>0, <1>8 DEF Truncated, Becomes
  <2>2. old.gen = [s \in Server |-> 0] /\ old.server \in Server
    BY <1>0, <2>1 DEF SoundRecords, SoundRecord, QueryRecord
  <2>. QED
    BY <1>1, <2>1, <2>2
<1>9. CASE AnswerTaken(q)
  <2>1. new.pc = "end" /\ new.gen = old.gen
    BY <1>0, <1>9 DEF AnswerTaken, Becomes
  <2>. QED
    BY <2>1
<1>10. CASE Swept(q)
  <2>1. new.pc = "callback" /\ new.gen = old.gen
    BY <1>0, <1>10 DEF Swept, Becomes
  <2>. QED
    BY <2>1
<1>. QED
  BY <1>2, <1>3, <1>4, <1>5, <1>6, <1>7, <1>8, <1>9, <1>10 DEF QuietPath

LEMMA QuietSockets ==
  ASSUME Inv, SoundRecords, SocketInv, [Next]_vars, Quiet
  PROVE  ConnectionsSound' /\ GenerationsSound' /\ WaitersReachable'
<1>0. TypeOK /\ TypeOK' /\ srv' = srv /\ ConnectionsSound /\ GenerationsSound /\ WaitersReachable
  BY NextType DEF Inv, SocketInv, Quiet
<1>1. ASSUME NEW p \in Query
      PROVE  /\ qry[p].pc # "none" => qry'[p].pc # "none" /\ qry'[p].gen = qry[p].gen
             /\ qry'[p].pc = "rest" => /\ qry[p].pc = "rest"
                                       /\ UNCHANGED <<qry[p].server, qry[p].usingTcp>>
             /\ qry'[p].pc = "send" /\ qry'[p].usingTcp =>
                  qry'[p].gen[qry'[p].server] # srv[qry'[p].server].gen
  <2>1. CASE qry'[p] = qry[p]
    BY <1>0, <2>1 DEF GenerationsSound
  <2>2. CASE QuietPath(p)
    BY <1>0, <2>2, QuietFacts
  <2>3. ASSUME NEW q \in Query, QuietPath(q), q # p PROVE qry'[p] = qry[p]
    BY <1>0, <2>3, PathChangesOne DEF Path, OthersKeep
  <2>. QED
    BY <2>1, <2>2, <2>3 DEF Quiet
<1>3. ConnectionsSound'
  BY <1>0 DEF ConnectionsSound
<1>4. \A s \in Server, p \in Query : Carries(s, p)' = Carries(s, p)
  BY <1>0 DEF Carries
<1>5. GenerationsSound'
  <2>1. ASSUME NEW s \in Server, NEW p \in live', Carries(s, p)' PROVE qry'[p].gen[s] = srv'[s].gen
    <3>1. p \in Query /\ Carries(s, p)
      BY <1>0, <1>4, <2>1 DEF TypeOK
    <3>2. p \in live /\ qry[p].pc # "none"
      BY <1>0, <3>1 DEF Quiet, GenerationsSound
    <3>. QED
      BY <1>0, <1>1, <3>1, <3>2 DEF GenerationsSound
  <2>. QED
    BY <1>0, <1>1, <1>4, <2>1 DEF GenerationsSound
<1>6. WaitersReachable'
  <2>. SUFFICES ASSUME NEW p \in live' \ Stolen', qry'[p].pc = "rest" PROVE Reachable(p)'
    BY DEF WaitersReachable
  <2>1. p \in Query /\ qry[p].pc = "rest" /\ UNCHANGED <<qry[p].server, qry[p].usingTcp>>
    BY <1>0, <1>1 DEF TypeOK
  <2>2. p \in live /\ p \notin Stolen
    BY <2>1, StolenMovesOn DEF Inv, InFlight, LiveQueries
  <2>3. Reachable(p)
    BY <1>0, <2>1, <2>2 DEF WaitersReachable
  <2>. QED
    BY <1>0, <2>1, <2>3 DEF Reachable, Carries
<1>. QED
  BY <1>3, <1>5, <1>6

-----------------------------------------------------------------------------
(* A step of the query on top of the stack *)

LEMMA WorkSockets ==
  ASSUME Inv, SocketInv, [Next]_vars, NEW q \in Query, cur = q, OthersKeep(q),
         qry'[q].pc \notin {"none", "send"}, live' \subseteq live,
         ConnectionsSound',
         \A s \in Server :
           /\ \A p \in Query \ {q} :
                /\ (Carries(s, p)' <=> Carries(s, p))
                /\ (HasRequest(srv[s], p)' <=> HasRequest(srv[s], p))
                /\ p \in srv[s].clients => p \in srv'[s].clients
           /\ srv[s].tcp => srv'[s].tcp /\ srv'[s].gen = srv[s].gen
           /\ srv[s].udp => srv'[s].udp
           /\ srv'[s].tcpAsked \subseteq srv[s].tcpAsked
           /\ q \in live' /\ Carries(s, q)' => qry'[q].gen[s] = srv'[s].gen
           /\ ~(HasRequest(srv'[s], q) /\ q \in srv'[s].tcpAsked),
         qry'[q].pc = "rest" => Reachable(q)'
  PROVE  ConnectionsSound' /\ GenerationsSound' /\ WaitersReachable'
<1>0. /\ TypeOK /\ TypeOK' /\ TopRuns /\ ConnectionsSound /\ GenerationsSound /\ WaitersReachable
      /\ live' \subseteq Query
  BY NextType DEF Inv, SocketInv, TypeOK
<1>1. ASSUME NEW p \in Query, p # q PROVE qry'[p] = qry[p] /\ qry[p].pc # "send"
  BY <1>0, <1>1 DEF OthersKeep, TopRuns, Active
<1>2. ASSUME NEW s \in Server, NEW p \in Query, Carries(s, p) PROVE srv'[s].gen = srv[s].gen
  BY <1>0, <1>2 DEF ConnectionsSound, Carries, HasRequest
<1>3. GenerationsSound'
  <2>1. \A s \in Server, p \in Query : Carries(s, p)' => qry'[p].pc # "none"
    BY <1>0, <1>1 DEF GenerationsSound
  <2>2. \A s \in Server, p \in live' : Carries(s, p)' => qry'[p].gen[s] = srv'[s].gen
    BY <1>0, <1>1, <1>2 DEF GenerationsSound
  <2>3. \A s \in Server, p \in Query : ~(HasRequest(srv'[s], p) /\ p \in srv'[s].tcpAsked)
    BY <1>0 DEF GenerationsSound
  <2>4. \A p \in Query : qry'[p].pc # "send"
    BY <1>1
  <2>. QED
    BY <2>1, <2>2, <2>3, <2>4 DEF GenerationsSound
<1>4. WaitersReachable'
  <2>. SUFFICES ASSUME NEW p \in live' \ Stolen', qry'[p].pc = "rest", p # q PROVE Reachable(p)'
    BY DEF WaitersReachable
  <2>1. p \in Query /\ qry'[p] = qry[p] /\ p \in live /\ p \notin Stolen
    BY <1>0, <1>1, StolenMovesOn
  <2>2. Reachable(p) /\ qry[p].server \in Server
    BY <1>0, <2>1 DEF WaitersReachable, TypeOK, QueryRecord
  <2>. QED
    BY <2>1, <2>2 DEF Reachable
<1>. QED
  BY <1>3, <1>4

\* The queries with a request in the queue.
Asking(queue) == {queue[i].owner : i \in DOMAIN queue} \ {NoQuery}

LEMMA RequestsAsked ==
  ASSUME NEW q \in Query, NEW sv
  PROVE  HasRequest(sv, q) <=> q \in Asking(sv.queue)
BY QueryNumbers DEF HasRequest, Asking

LEMMA RequestAppended ==
  ASSUME NEW queue \in Seq(Request), NEW r \in Request, DistinctOwners(queue),
         r.owner # NoQuery, r.owner \notin Asking(queue)
  PROVE  /\ DistinctOwners(Append(queue, r))
         /\ Asking(Append(queue, r)) = Asking(queue) \cup {r.owner}
<1>. DEFINE n == Len(queue)
            new == Append(queue, r)
<1>1. n \in Nat /\ DOMAIN queue = 1 .. n /\ DOMAIN new = 1 .. n + 1
  OBVIOUS
<1>2. new[n + 1] = r /\ \A i \in 1 .. n : new[i] = queue[i]
  OBVIOUS
<1>3. 1 .. n + 1 = (1 .. n) \cup {n + 1}
  BY <1>1
<1>. HIDE DEF n, new
<1>4. Asking(new) = Asking(queue) \cup {r.owner}
  BY <1>1, <1>2, <1>3 DEF Asking
<1>5. DistinctOwners(new)
  <2>. SUFFICES ASSUME NEW i \in 1 .. n + 1, NEW j \in 1 .. n + 1,
                       new[i].owner = new[j].owner, new[i].owner # NoQuery
                PROVE  i = j
    BY <1>1 DEF DistinctOwners
  <2>1. CASE i \in 1 .. n /\ j \in 1 .. n
    BY <1>1, <1>2, <2>1 DEF DistinctOwners
  <2>2. ASSUME NEW k \in 1 .. n, new[k].owner = r.owner PROVE FALSE
    BY <1>1, <1>2, <2>2 DEF Asking
  <2>. QED
    BY <1>2, <1>3, <2>1, <2>2
<1>. QED
  BY <1>4, <1>5 DEF new

LEMMA SendTcpSockets ==
  ASSUME Inv, SocketInv, [Next]_vars, NEW q \in Query, SendTcp(q),
         NEW s \in Server, s = qry[q].server
  PROVE  ConnectionsSound' /\ GenerationsSound' /\ WaitersReachable'
<1>. DEFINE ready == TcpReady(srv[s])
            request == [owner |-> q, of |-> q, data |-> "tcpbuf"]
<1>0. /\ TypeOK /\ TypeOK' /\ ConnectionsSound /\ GenerationsSound /\ s \in Server
      /\ qry[q] \in QueryRecord /\ DOMAIN qry = Query /\ q \in live
  BY NextType DEF Inv, SocketInv, TypeOK, QueryRecord, SendTcp, Sending, InFlight, LiveQueries
<1>1. /\ cur = q /\ qry[q].pc = "send" /\ qry[q].usingTcp /\ live' = live /\ Registered(q, s)
      /\ srv' = Moved(q, s, [ready EXCEPT !.queue = Append(@, request)])
  BY DEF SendTcp, Sending
<1>2. /\ srv[s] \in ServerRecord /\ ready \in ServerRecord
      /\ ready.tcp = TRUE /\ ready.udp = srv[s].udp /\ ready.queue = srv[s].queue
      /\ ready.tcpAsked = srv[s].tcpAsked /\ ready.clients = srv[s].clients
      /\ ready.gen = IF srv[s].tcp THEN srv[s].gen ELSE chanGen + 1
  <2>1. srv[s] \in ServerRecord /\ chanGen + 1 \in Nat
    BY <1>0 DEF TypeOK
  <2>2. CASE srv[s].tcp
    BY <2>1, <2>2 DEF TcpReady, ServerRecord
  <2>3. CASE ~srv[s].tcp
    BY <2>1, <2>3 DEF TcpReady, ServerRecord
  <2>. QED
    BY <2>2, <2>3
<1>3. /\ srv'[s].tcp = TRUE /\ srv'[s].udp = srv[s].udp /\ srv'[s].tcpAsked = srv[s].tcpAsked
      /\ srv'[s].clients = srv[s].clients \cup {q}
      /\ srv'[s].queue = Append(srv[s].queue, request)
      /\ srv'[s].gen = IF srv[s].tcp THEN srv[s].gen ELSE chanGen + 1
  <2>. HIDE DEF ready, request
  <2>1. srv'[s] = [[ready EXCEPT !.queue = Append(@, request)] EXCEPT !.clients = @ \cup {q}]
    BY <1>0, <1>1 DEF Moved
  <2>. QED
    BY <1>2, <2>1 DEF ServerRecord
<1>4. \A r \in Server \ {s} : srv'[r] = [srv[r] EXCEPT !.clients = @ \ {q}]
  BY <1>0, <1>1 DEF Moved
<1>5. \A r \in Server \ {s} :
        /\ srv'[r].tcp = srv[r].tcp /\ srv'[r].udp = srv[r].udp /\ srv'[r].tcpAsked = srv[r].tcpAsked
        /\ srv'[r].queue = srv[r].queue /\ srv'[r].gen = srv[r].gen
        /\ srv'[r].clients = srv[r].clients \ {q}
  <2>1. \A r \in Server : srv[r] \in ServerRecord
    BY <1>0 DEF TypeOK
  <2>. QED
    BY <1>4, <2>1 DEF ServerRecord
<1>6. /\ OthersKeep(q) /\ qry'[q].pc = "rest" /\ qry'[q].server = s /\ qry'[q].usingTcp
      /\ qry'[q].gen = [qry[q].gen EXCEPT ![s] = srv'[s].gen]
  BY <1>0, <1>1 DEF Registered, OthersKeep, QueryRecord
<1>7. ~Carries(s, q)
  BY <1>0, <1>1 DEF GenerationsSound
<1>8. /\ DistinctOwners(srv'[s].queue) /\ HasRequest(srv'[s], q)
      /\ \A p \in Query \ {q} : (HasRequest(srv'[s], p) <=> HasRequest(srv[s], p))
  <2>1. srv[s].queue \in Seq(Request) /\ DistinctOwners(srv[s].queue) /\ q \notin Asking(srv[s].queue)
    BY <1>0, <1>2, <1>7, RequestsAsked DEF ServerRecord, ConnectionsSound, Carries
  <2>2. request \in Request /\ request.owner = q /\ q # NoQuery
    BY QueryNumbers DEF Request
  <2>. HIDE DEF request
  <2>3. /\ DistinctOwners(srv'[s].queue)
        /\ Asking(srv'[s].queue) = Asking(srv[s].queue) \cup {q}
    BY <1>3, <2>1, <2>2, RequestAppended
  <2>. QED
    BY <2>3, RequestsAsked
<1>. HIDE DEF ready, request
<1>9. ConnectionsSound'
  <2>1. srv'[s].gen > 0
    BY <1>0, <1>3 DEF ConnectionsSound, TypeOK
  <2>. QED
    BY <1>0, <1>3, <1>5, <1>8, <2>1 DEF ConnectionsSound
<1>10. \A r \in Server \ {s}, p \in Query :
         (HasRequest(srv'[r], p) <=> HasRequest(srv[r], p)) /\ (Carries(r, p)' <=> Carries(r, p))
  BY <1>5 DEF HasRequest, Carries
<1>11. \A p \in Query \ {q} : (Carries(s, p)' <=> Carries(s, p))
  BY <1>3, <1>8 DEF Carries
<1>12. ASSUME NEW r \in Server
       PROVE  /\ \A p \in Query \ {q} :
                   /\ (Carries(r, p)' <=> Carries(r, p))
                   /\ (HasRequest(srv[r], p)' <=> HasRequest(srv[r], p))
                   /\ p \in srv[r].clients => p \in srv'[r].clients
              /\ srv[r].tcp => srv'[r].tcp /\ srv'[r].gen = srv[r].gen
              /\ srv[r].udp => srv'[r].udp
              /\ srv'[r].tcpAsked \subseteq srv[r].tcpAsked
              /\ q \in live' /\ Carries(r, q)' => qry'[q].gen[r] = srv'[r].gen
              /\ ~(HasRequest(srv'[r], q) /\ q \in srv'[r].tcpAsked)
  <2>1. CASE r = s
    <3>1. qry'[q].gen[s] = srv'[s].gen
      BY <1>0, <1>6 DEF QueryRecord
    <3>2. q \notin srv[s].tcpAsked
      BY <1>7 DEF Carries
    <3>. QED
      BY <1>3, <1>8, <1>11, <2>1, <3>1, <3>2
  <2>2. CASE r # s
    <3>1. qry'[q].gen[r] = qry[q].gen[r]
      BY <1>0, <1>6, <2>2 DEF QueryRecord
    <3>. QED
      BY <1>0, <1>5, <1>10, <2>2, <3>1 DEF GenerationsSound
  <2>. QED
    BY <2>1, <2>2
<1>13. Reachable(q)'
  BY <1>3, <1>6, <1>8 DEF Reachable, Carries
<1>. QED
  BY <1>1, <1>6, <1>9, <1>12, <1>13, WorkSockets

\* A step that puts nothing into a queue: at most the requests and answers of
\* q go, or a connection is opened.
LEMMA SteadySockets ==
  ASSUME Inv, SocketInv, [Next]_vars, NEW q \in Query, cur = q, OthersKeep(q),
         qry'[q].pc \notin {"none", "send"}, live' \subseteq live,
         q \in live' => qry'[q].gen = qry[q].gen,
         \A s \in Server :
           /\ srv[s].tcp => srv'[s].tcp /\ srv'[s].gen = srv[s].gen
           /\ ~srv[s].tcp => srv'[s].gen > 0 /\ srv'[s].queue = <<>> /\ srv'[s].tcpAsked = {}
           /\ srv[s].udp => srv'[s].udp
           /\ DistinctOwners(srv'[s].queue)
           /\ Asking(srv'[s].queue) \subseteq Asking(srv[s].queue)
           /\ Asking(srv[s].queue) \ {q} \subseteq Asking(srv'[s].queue)
           /\ srv'[s].tcpAsked \subseteq srv[s].tcpAsked
           /\ srv[s].tcpAsked \ {q} \subseteq srv'[s].tcpAsked
           /\ srv[s].clients \ {q} \subseteq srv'[s].clients,
         qry'[q].pc = "rest" => Reachable(q)'
  PROVE  ConnectionsSound' /\ GenerationsSound' /\ WaitersReachable'
<1>0. ConnectionsSound /\ GenerationsSound
  BY DEF SocketInv
<1>1. ConnectionsSound'
  BY <1>0 DEF ConnectionsSound
<1>2. ASSUME NEW s \in Server, NEW p \in Query
      PROVE  /\ HasRequest(srv'[s], p) => HasRequest(srv[s], p)
             /\ p # q => (HasRequest(srv'[s], p) <=> HasRequest(srv[s], p))
  BY RequestsAsked
<1>3. ASSUME NEW s \in Server, NEW p \in Query
      PROVE  /\ Carries(s, p)' => Carries(s, p)
             /\ p # q => (Carries(s, p)' <=> Carries(s, p))
  BY <1>2 DEF Carries
<1>4. ASSUME NEW s \in Server
      PROVE  /\ q \in live' /\ Carries(s, q)' => qry'[q].gen[s] = srv'[s].gen
             /\ ~(HasRequest(srv'[s], q) /\ q \in srv'[s].tcpAsked)
  <2>1. Carries(s, q) => srv[s].tcp
    BY <1>0 DEF ConnectionsSound, Carries, HasRequest
  <2>. QED
    BY <1>0, <1>2, <1>3, <2>1 DEF GenerationsSound
<1>5. ASSUME NEW s \in Server
      PROVE  /\ \A p \in Query \ {q} :
                  /\ (Carries(s, p)' <=> Carries(s, p))
                  /\ (HasRequest(srv[s], p)' <=> HasRequest(srv[s], p))
                  /\ p \in srv[s].clients => p \in srv'[s].clients
             /\ srv[s].tcp => srv'[s].tcp /\ srv'[s].gen = srv[s].gen
             /\ srv[s].udp => srv'[s].udp
             /\ srv'[s].tcpAsked \subseteq srv[s].tcpAsked
             /\ q \in live' /\ Carries(s, q)' => qry'[q].gen[s] = srv'[s].gen
             /\ ~(HasRequest(srv'[s], q) /\ q \in srv'[s].tcpAsked)
  BY <1>2, <1>3, <1>4
<1>. QED
  BY <1>1, <1>5, WorkSockets

LEMMA SendTcpNoMemorySockets ==
  ASSUME Inv, SocketInv, [Next]_vars, NEW q \in Query, SendTcpNoMemory(q)
  PROVE  ConnectionsSound' /\ GenerationsSound' /\ WaitersReachable'
<1>0. /\ TypeOK /\ ConnectionsSound /\ qry[q].server \in Server
      /\ qry[q] \in QueryRecord /\ DOMAIN qry = Query /\ DOMAIN srv = Server
  BY DEF Inv, SocketInv, TypeOK, QueryRecord
<1>1. /\ cur = q /\ live' = live /\ srv' = [srv EXCEPT ![qry[q].server] = TcpReady(@)]
      /\ qry' = [qry EXCEPT ![q].pc = "end", ![q].result = "ENOMEM"]
  BY DEF SendTcpNoMemory, Sending
<1>2. OthersKeep(q) /\ qry'[q].pc = "end" /\ qry'[q].gen = qry[q].gen
  BY <1>0, <1>1 DEF OthersKeep, QueryRecord
<1>3. ASSUME NEW s \in Server
      PROVE  /\ srv[s].tcp => srv'[s] = srv[s]
             /\ ~srv[s].tcp => /\ srv'[s].gen > 0
                               /\ UNCHANGED <<srv[s].udp, srv[s].queue, srv[s].tcpAsked, srv[s].clients>>
  <2>1. srv[s] \in ServerRecord /\ chanGen + 1 > 0
    BY <1>0 DEF TypeOK
  <2>2. srv'[s] = srv[s] \/ srv'[s] = TcpReady(srv[s])
    BY <1>0, <1>1
  <2>3. TcpReady(srv[s]) = srv[s] \/ TcpReady(srv[s]) = [srv[s] EXCEPT !.tcp = TRUE, !.gen = chanGen + 1]
    BY DEF TcpReady
  <2>4. srv[s].tcp => TcpReady(srv[s]) = srv[s]
    BY DEF TcpReady
  <2>. QED
    BY <1>0, <2>1, <2>2, <2>3, <2>4 DEF ServerRecord, ConnectionsSound
<1>. QED
  BY <1>0, <1>1, <1>2, <1>3, SteadySockets DEF ConnectionsSound

LEMMA SendUdpSockets ==
  ASSUME Inv, SocketInv, [Next]_vars, NEW q \in Query, SendUdp(q) \/ SendUdpFails(q)
  PROVE  ConnectionsSound' /\ GenerationsSound' /\ WaitersReachable'
<1>0. /\ TypeOK /\ ConnectionsSound /\ qry[q].server \in Server
      /\ qry[q] \in QueryRecord /\ DOMAIN qry = Query /\ DOMAIN srv = Server
  BY DEF Inv, SocketInv, TypeOK, QueryRecord
<1>1. cur = q /\ live' = live /\ ~qry[q].usingTcp
  BY DEF SendUdp, SendUdpFails, Sending, chanVars
<1>2. /\ OthersKeep(q) /\ qry'[q].pc \in {"rest", "next"} /\ qry'[q].gen = qry[q].gen
      /\ qry'[q].server = qry[q].server /\ ~qry'[q].usingTcp
  <2>1. CASE SendUdp(q)
    BY <1>0, <1>1, <2>1 DEF SendUdp, Registered, OthersKeep, QueryRecord
  <2>2. CASE SendUdpFails(q)
    BY <1>0, <1>1, <2>2 DEF SendUdpFails, GiveUpServer, OthersKeep, QueryRecord
  <2>. QED
    BY <2>1, <2>2
<1>3. ASSUME NEW s \in Server
      PROVE  /\ UNCHANGED <<srv[s].tcp, srv[s].gen, srv[s].queue, srv[s].tcpAsked>>
             /\ srv[s].udp => srv'[s].udp
             /\ srv[s].clients \ {q} \subseteq srv'[s].clients
  <2>1. srv[s] \in ServerRecord
    BY <1>0 DEF TypeOK
  <2>2. CASE SendUdp(q)
    BY <1>0, <2>1, <2>2 DEF SendUdp, Moved, ServerRecord
  <2>3. CASE SendUdpFails(q)
    BY <1>0, <2>1, <2>3 DEF SendUdpFails, ServerRecord
  <2>. QED
    BY <2>2, <2>3
<1>4. qry'[q].pc = "rest" => Reachable(q)'
  <2>1. CASE SendUdp(q)
    <3>1. /\ q \in srv'[qry[q].server].clients /\ srv'[qry[q].server].udp
      BY <1>0, <2>1 DEF SendUdp, Moved, TypeOK, ServerRecord
    <3>. QED
      BY <1>2, <3>1 DEF Reachable
  <2>2. CASE SendUdpFails(q)
    BY <1>0, <2>2 DEF SendUdpFails, GiveUpServer
  <2>. QED
    BY <2>1, <2>2
<1>. QED
  BY <1>0, <1>1, <1>2, <1>3, <1>4, SteadySockets DEF ConnectionsSound

LEMMA NothingQueued ==
  ASSUME NEW queue \in Seq(Request), DOMAIN queue = {}
  PROVE  queue = <<>>
<1>1. Len(queue) \in Nat /\ DOMAIN queue = 1 .. Len(queue)
  OBVIOUS
<1>2. Len(queue) = 0
  BY <1>1
<1>. QED
  BY <1>2

LEMMA RequestsDisowned ==
  ASSUME NEW queue \in Seq(Request), NEW q \in Query, DistinctOwners(queue),
         NEW new, DOMAIN new = DOMAIN queue,
         \A i \in DOMAIN queue : \/ new[i] = Disowned(queue[i], q, TRUE)
                                 \/ new[i] = Disowned(queue[i], q, FALSE)
  PROVE  DistinctOwners(new) /\ Asking(new) = Asking(queue) \ {q}
<1>1. ASSUME NEW i \in DOMAIN queue
      PROVE  new[i].owner = IF queue[i].owner = q THEN NoQuery ELSE queue[i].owner
  <2>1. queue[i] \in Request
    OBVIOUS
  <2>2. new[i] = Disowned(queue[i], q, TRUE) \/ new[i] = Disowned(queue[i], q, FALSE)
    OBVIOUS
  <2>. QED
    BY <2>1, <2>2 DEF Disowned, Request
<1>. QED
  BY <1>1 DEF DistinctOwners, Asking

LEMMA EndQuerySockets ==
  ASSUME Inv, SocketInv, [Next]_vars, NEW q \in Query, EndQuery(q)
  PROVE  ConnectionsSound' /\ GenerationsSound' /\ WaitersReachable'
<1>0. TypeOK /\ ConnectionsSound /\ qry[q] \in QueryRecord /\ DOMAIN qry = Query
  BY DEF Inv, SocketInv, TypeOK
<1>1. cur = q /\ live' = live /\ qry' = [qry EXCEPT ![q].pc = "callback"]
  BY DEF EndQuery, chanVars
<1>2. OthersKeep(q) /\ qry'[q].pc = "callback" /\ qry'[q].gen = qry[q].gen
  BY <1>0, <1>1 DEF OthersKeep, QueryRecord
<1>3. PICK copied \in SUBSET Server :
        srv' = [s \in Server |->
            [srv[s] EXCEPT
               !.queue = [i \in DOMAIN srv[s].queue |->
                            Disowned(srv[s].queue[i], q, s \in copied)],
               !.broken = @ \/ (s \notin copied /\ HasRequest(srv[s], q))]]
  BY DEF EndQuery
<1>4. ASSUME NEW s \in Server
      PROVE  /\ UNCHANGED <<srv[s].tcp, srv[s].gen, srv[s].udp, srv[s].tcpAsked, srv[s].clients>>
             /\ srv'[s].queue = [i \in DOMAIN srv[s].queue |->
                                   Disowned(srv[s].queue[i], q, s \in copied)]
  <2>1. srv[s] \in ServerRecord
    BY <1>0 DEF TypeOK
  <2>. QED
    BY <1>3, <2>1 DEF ServerRecord
<1>5. ASSUME NEW s \in Server
      PROVE  /\ DistinctOwners(srv'[s].queue)
             /\ Asking(srv'[s].queue) = Asking(srv[s].queue) \ {q}
             /\ srv[s].queue = <<>> => srv'[s].queue = <<>>
  <2>1. srv[s].queue \in Seq(Request) /\ DistinctOwners(srv[s].queue)
    BY <1>0 DEF TypeOK, ServerRecord, ConnectionsSound
  <2>2. srv'[s].queue \in Seq(Request)
    BY NextType DEF Inv, TypeOK, ServerRecord
  <2>3. DOMAIN srv'[s].queue = DOMAIN srv[s].queue
    BY <1>4
  <2>4. ASSUME NEW i \in DOMAIN srv[s].queue
        PROVE  \/ srv'[s].queue[i] = Disowned(srv[s].queue[i], q, TRUE)
               \/ srv'[s].queue[i] = Disowned(srv[s].queue[i], q, FALSE)
    <3>1. srv'[s].queue[i] = Disowned(srv[s].queue[i], q, s \in copied)
      BY <1>4
    <3>2. \/ Disowned(srv[s].queue[i], q, s \in copied) = Disowned(srv[s].queue[i], q, TRUE)
          \/ Disowned(srv[s].queue[i], q, s \in copied) = Disowned(srv[s].queue[i], q, FALSE)
      BY DEF Disowned
    <3>. QED
      BY <3>1, <3>2
  <2>5. srv[s].queue = <<>> => srv'[s].queue = <<>>
    <3>1. srv[s].queue = <<>> => DOMAIN srv[s].queue = {}
      OBVIOUS
    <3>. QED
      BY <2>2, <2>3, <3>1, NothingQueued
  <2>. QED
    BY <2>1, <2>3, <2>4, <2>5, RequestsDisowned
<1>. QED
  BY <1>0, <1>1, <1>2, <1>4, <1>5, SteadySockets DEF ConnectionsSound

LEMMA ReleasedSockets ==
  ASSUME Inv, SocketInv, [Next]_vars, NEW q \in Query, CallbackReturns(q),
         srv' = [s \in Server |-> Released(srv[s], q)]
  PROVE  ConnectionsSound' /\ GenerationsSound' /\ WaitersReachable'
<1>0. TypeOK /\ ConnectionsSound /\ DOMAIN qry = Query
  BY DEF Inv, SocketInv, TypeOK
<1>1. cur = q /\ live' = live \ {q} /\ OthersKeep(q) /\ qry'[q].pc = "done"
  BY <1>0 DEF CallbackReturns, OthersKeep, FreshQuery
<1>2. ASSUME NEW s \in Server
      PROVE  /\ UNCHANGED <<srv[s].tcp, srv[s].gen, srv[s].udp, srv[s].queue>>
             /\ srv'[s].tcpAsked = srv[s].tcpAsked \ {q} /\ srv'[s].clients = srv[s].clients \ {q}
  <2>1. srv[s] \in ServerRecord
    BY <1>0 DEF TypeOK
  <2>. QED
    BY <2>1 DEF Released, ServerRecord
<1>. QED
  BY <1>0, <1>1, <1>2, SteadySockets DEF ConnectionsSound

-----------------------------------------------------------------------------
(* Closed sockets *)

\* Closing the sockets of a server leaves neither requests nor answers.
LEMMA ClosedFields ==
  ASSUME NEW sv \in ServerRecord, NEW g
  PROVE  /\ Closed(sv, g).udp = FALSE /\ Closed(sv, g).tcp = FALSE /\ Closed(sv, g).broken = FALSE
         /\ Closed(sv, g).queue = <<>> /\ Closed(sv, g).tcpAsked = {}
         /\ Closed(sv, g).clients = sv.clients
         /\ Closed(sv, g).gen = IF sv.tcp THEN g ELSE sv.gen
BY DEF Closed, ServerRecord

LEMMA CloseAllFields ==
  ASSUME TypeOK, CloseAll, NEW s \in Server
  PROVE  /\ ~srv'[s].udp /\ ~srv'[s].tcp /\ ~srv'[s].broken
         /\ srv'[s].queue = <<>> /\ srv'[s].tcpAsked = {}
         /\ srv[s].gen > 0 => srv'[s].gen > 0
<1>1. srv[s] \in ServerRecord /\ chanGen \in Nat
  BY DEF TypeOK
<1>2. PICK g : g = chanGen + Cardinality(OpenTcpUpTo(s))
  OBVIOUS
<1>3. srv'[s] = [Closed(srv[s], g) EXCEPT !.clients = @ \ {cur}]
  BY <1>2 DEF CloseAll
<1>4. srv[s].tcp => g > 0
  <2>1. IsFiniteSet(0 .. s) /\ OpenTcpUpTo(s) \subseteq 0 .. s
    BY FS_Interval, ServersAssumption DEF Server, OpenTcpUpTo
  <2>2. IsFiniteSet(OpenTcpUpTo(s))
    BY <2>1, FS_Subset
  <2>3. srv[s].tcp => s \in OpenTcpUpTo(s)
    BY ServersAssumption DEF OpenTcpUpTo, Server
  <2>4. srv[s].tcp => Cardinality(OpenTcpUpTo(s)) # 0
    BY <2>2, <2>3, FS_EmptySet
  <2>. QED
    BY <1>1, <1>2, <2>4, OpenTcpCount
<1>5. Closed(srv[s], g) \in [udp : BOOLEAN, tcp : BOOLEAN, gen : {srv[s].gen, g}, queue : {<<>>},
                            broken : BOOLEAN, clients : SUBSET Query, udpAsked : {{}}, tcpAsked : {{}}]
  BY <1>1 DEF Closed, ServerRecord
<1>. QED
  BY <1>1, <1>3, <1>4, <1>5, ClosedFields

\* When the last query goes, no server need remember anything.
LEMMA AllClosedSockets ==
  ASSUME Inv, SocketInv, TopRuns', CloseAll, live' = {},
         \A q \in Query : qry'[q].pc # "send"
  PROVE  ConnectionsSound' /\ GenerationsSound' /\ WaitersReachable'
<1>1. ASSUME NEW s \in Server
      PROVE  /\ ~srv'[s].tcp /\ srv'[s].queue = <<>> /\ srv'[s].tcpAsked = {} /\ srv'[s].gen > 0
  BY CloseAllFields DEF Inv, SocketInv, ConnectionsSound
<1>2. ConnectionsSound'
  BY <1>1 DEF ConnectionsSound, DistinctOwners
<1>3. \A s \in Server, q \in Query : ~Carries(s, q)' /\ ~HasRequest(srv'[s], q)
  BY <1>1 DEF Carries, HasRequest
<1>. QED
  BY <1>2, <1>3 DEF GenerationsSound, WaitersReachable

LEMMA ReturnsSockets ==
  ASSUME Inv, SocketInv, [Next]_vars, TopRuns', NEW q \in Query, CallbackReturns(q)
  PROVE  ConnectionsSound' /\ GenerationsSound' /\ WaitersReachable'
<1>1. CASE srv' = [s \in Server |-> Released(srv[s], q)]
  BY <1>1, ReleasedSockets
<1>2. CASE q \in live /\ IsLast(q) /\ CloseAll
  <2>1. TypeOK /\ cur = q /\ live' = {} /\ OthersKeep(q) /\ qry'[q].pc = "done"
    BY <1>2 DEF CallbackReturns, IsLast, OthersKeep, FreshQuery, Inv, TypeOK
  <2>2. \A p \in Query : qry'[p].pc # "send"
    BY <2>1 DEF OthersKeep, SocketInv, TopRuns, Active
  <2>. QED
    BY <1>2, <2>1, <2>2, AllClosedSockets
<1>. QED
  BY <1>1, <1>2 DEF CallbackReturns

LEMMA NobodySends ==
  ASSUME Inv, cur = NoQuery
  PROVE  \A q \in Query : qry[q].pc # "send"
BY NothingRuns DEF Inv, InFlight, Active

LEMMA EndSweepSockets ==
  ASSUME Inv, SocketInv, TopRuns', EndSweep
  PROVE  ConnectionsSound' /\ GenerationsSound' /\ WaitersReachable'
<1>1. /\ LoopDone /\ Stolen = {} /\ UNCHANGED <<live, qry>>
      /\ \/ srv' = srv
         \/ live = {} /\ CloseAll
  BY DEF EndSweep, LoopDone, Stolen
<1>2. CASE srv' = srv
  <2>. QED
    BY <1>1, <1>2 DEF SocketInv, ConnectionsSound, GenerationsSound, WaitersReachable, Reachable,
                      Carries
<1>3. CASE live = {} /\ CloseAll
  <2>1. \A q \in Query : qry'[q].pc # "send"
    BY <1>1, NobodySends DEF LoopDone
  <2>. QED
    BY <1>1, <1>3, <2>1, AllClosedSockets
<1>. QED
  BY <1>1, <1>2, <1>3

\* A failed server loses its sockets; its waiting queries are stolen.
LEMMA HandleErrorSockets ==
  ASSUME Inv, SocketInv, TypeOK', NEW s \in Server, LoopDone, HandleError(s),
         phase \in {"write", "readTcp", "readUdp", "broken"}
  PROVE  ConnectionsSound' /\ GenerationsSound' /\ WaitersReachable'
<1>0. /\ TypeOK /\ ConnectionsSound /\ GenerationsSound /\ WaitersReachable
      /\ UNCHANGED <<live, qry>> /\ Stolen = {} /\ Stolen' = srv[s].clients
      /\ srv' = [srv EXCEPT ![s] = [Closed(@, chanGen + 1) EXCEPT !.clients = {}]]
  BY DEF Inv, SocketInv, HandleError, Stolen, LoopDone
<1>1. \A r \in Server \ {s} : srv'[r] = srv[r]
  BY <1>0 DEF TypeOK
<1>2. ~srv'[s].tcp /\ srv'[s].queue = <<>> /\ srv'[s].tcpAsked = {} /\ srv'[s].gen > 0
  <2>0. PICK g : g = chanGen + 1
    OBVIOUS
  <2>1. srv[s] \in ServerRecord /\ g > 0 /\ srv[s].gen > 0
    BY <1>0, <2>0 DEF TypeOK, ConnectionsSound
  <2>2. srv'[s] = [Closed(srv[s], g) EXCEPT !.clients = {}]
    BY <1>0, <2>0 DEF TypeOK
  <2>3. DOMAIN Closed(srv[s], g) =
          {"udp", "tcp", "gen", "queue", "broken", "clients", "udpAsked", "tcpAsked"}
    BY <2>1 DEF Closed, ServerRecord
  <2>4. /\ ~Closed(srv[s], g).tcp /\ Closed(srv[s], g).queue = <<>>
        /\ Closed(srv[s], g).tcpAsked = {} /\ Closed(srv[s], g).gen > 0
    BY <2>1, ClosedFields
  <2>. QED
    BY <2>2, <2>3, <2>4
<1>3. ConnectionsSound'
  BY <1>0, <1>1, <1>2 DEF ConnectionsSound, DistinctOwners
<1>4. \A q \in Query : ~Carries(s, q)' /\ ~HasRequest(srv'[s], q)
  BY <1>2 DEF Carries, HasRequest
<1>5. \A r \in Server \ {s}, q \in Query : (Carries(r, q)' <=> Carries(r, q))
  BY <1>1 DEF Carries
<1>6. GenerationsSound'
  <2>1. \A q \in Query : qry'[q].pc # "send"
    BY <1>0, NobodySends DEF LoopDone
  <2>. QED
    BY <1>0, <1>1, <1>4, <1>5, <2>1 DEF GenerationsSound, TypeOK
<1>7. WaitersReachable'
  <2>. SUFFICES ASSUME NEW q \in live, q \notin srv[s].clients, qry[q].pc = "rest"
                PROVE  Reachable(q)'
    BY <1>0 DEF WaitersReachable
  <2>1. Reachable(q) /\ q \in Query /\ qry[q].server \in Server
    BY <1>0 DEF WaitersReachable, TypeOK, QueryRecord
  <2>2. qry[q].server # s /\ qry'[q] = qry[q]
    BY <1>0, <2>1 DEF Reachable
  <2>. QED
    BY <1>1, <1>5, <2>1, <2>2 DEF Reachable
<1>. QED
  BY <1>3, <1>6, <1>7

-----------------------------------------------------------------------------
(* Requests that are written *)

LEMMA RequestsWritten ==
  ASSUME NEW queue \in Seq(Request), NEW n \in 1 .. Len(queue), NEW rest, NEW written,
         DistinctOwners(queue), rest = Unwritten(queue, n),
         \A q : q \in written <=> \E i \in 1 .. n : queue[i].owner = q
  PROVE  /\ DistinctOwners(rest)
         /\ Asking(queue) = Asking(rest) \cup (written \ {NoQuery})
         /\ \A q \in Asking(rest) : q \notin written
<1>. PICK m \in Nat : m = Len(queue)
  OBVIOUS
<1>0. n \in Nat /\ 1 <= n /\ n <= m /\ DOMAIN queue = 1 .. m
  OBVIOUS
<1>1. /\ DOMAIN rest = 1 .. m - n
      /\ \A i \in 1 .. m - n : n + i \in 1 .. m /\ rest[i] = queue[n + i]
  <2>1. rest = SubSeq(queue, n + 1, m)
    BY DEF Unwritten
  <2>2. \A i \in n + 1 .. m : queue[i] \in Request
    BY <1>0
  <2>3. /\ rest \in Seq(Request)
        /\ Len(rest) = IF n + 1 <= m THEN m - (n + 1) + 1 ELSE 0
        /\ \A i \in 1 .. m - (n + 1) + 1 : rest[i] = queue[n + 1 + i - 1]
    BY <1>0, <2>1, <2>2, SubSeqProperties
  <2>4. Len(rest) = m - n /\ DOMAIN rest = 1 .. Len(rest)
    BY <1>0, <2>3
  <2>5. \A i \in 1 .. m - n : n + i \in 1 .. m /\ rest[i] = queue[n + i]
    BY <1>0, <2>3
  <2>. QED
    BY <2>4, <2>5
<1>2. \A j \in 1 .. m : j \in 1 .. n \/ (j - n \in 1 .. m - n /\ queue[j] = rest[j - n])
  <2>1. ASSUME NEW j \in 1 .. m, j \notin 1 .. n
        PROVE  j - n \in 1 .. m - n /\ n + (j - n) = j
    BY <1>0, <2>1
  <2>. QED
    BY <1>1, <2>1
<1>3. Asking(queue) = Asking(rest) \cup (written \ {NoQuery})
  <2>1. ASSUME NEW q \in Asking(queue) PROVE q \in Asking(rest) \cup (written \ {NoQuery})
    <3>1. PICK j \in 1 .. m : queue[j].owner = q /\ q # NoQuery
      BY <1>0 DEF Asking
    <3>. QED
      BY <1>1, <1>2, <3>1 DEF Asking
  <2>2. ASSUME NEW q \in Asking(rest) PROVE q \in Asking(queue)
    BY <1>0, <1>1 DEF Asking
  <2>3. ASSUME NEW q \in written \ {NoQuery} PROVE q \in Asking(queue)
    BY <1>0 DEF Asking
  <2>. QED
    BY <2>1, <2>2, <2>3
<1>4. DistinctOwners(rest)
  <2>. SUFFICES ASSUME NEW i \in 1 .. m - n, NEW j \in 1 .. m - n,
                       rest[i].owner = rest[j].owner, rest[i].owner # NoQuery
                PROVE  i = j
    BY <1>1 DEF DistinctOwners
  <2>1. PICK a, b \in 1 .. m : a = n + i /\ b = n + j
    BY <1>1
  <2>2. queue[a].owner = queue[b].owner /\ queue[a].owner # NoQuery
    BY <1>1, <2>1
  <2>3. a = b
    BY <1>0, <2>2 DEF DistinctOwners
  <2>. QED
    BY <1>0, <2>1, <2>3
<1>5. ASSUME NEW q \in Asking(rest), q \in written PROVE FALSE
  <2>1. PICK i \in 1 .. n : queue[i].owner = q
    BY <1>5
  <2>2. PICK j \in 1 .. m - n : rest[j].owner = q /\ q # NoQuery
    BY <1>1 DEF Asking
  <2>3. PICK k \in 1 .. m : k = n + j /\ queue[k].owner = q
    BY <1>1, <2>2
  <2>4. i \in 1 .. m
    BY <1>0
  <2>5. i = k
    BY <1>0, <2>1, <2>2, <2>3, <2>4 DEF DistinctOwners
  <2>. QED
    BY <1>0, <2>3, <2>5
<1>. QED
  BY <1>3, <1>4, <1>5

LEMMA WriteTcpSockets ==
  ASSUME Inv, SocketInv, NEW s \in Server, at = s, LoopDone, WriteTcp
  PROVE  ConnectionsSound' /\ GenerationsSound' /\ WaitersReachable'
<1>0. /\ TypeOK /\ ConnectionsSound /\ GenerationsSound /\ WaitersReachable
      /\ UNCHANGED <<live, qry>> /\ Stolen = {} /\ srv[s].tcp /\ srv[s] \in ServerRecord
  BY DEF Inv, TypeOK, SocketInv, WriteTcp, chanVars, Stolen, LoopDone
<1>11. PICK n \in 1 .. Len(srv[at].queue) :
       srv' = [srv EXCEPT ![at] = [srv[at] EXCEPT
                !.queue = Unwritten(@, n),
                !.tcpAsked = @ \cup ({srv[at].queue[i].owner : i \in 1 .. n} \cap live)]]
  BY Zenon DEF WriteTcp
<1>1. /\ n \in 1 .. Len(srv[s].queue)
      /\ srv' = [srv EXCEPT ![s] = [srv[s] EXCEPT
                  !.queue = Unwritten(srv[s].queue, n),
                  !.tcpAsked = srv[s].tcpAsked \cup ({srv[s].queue[i].owner : i \in 1 .. n} \cap live)]]
  BY <1>11
<1>2. PICK written : written = {srv[s].queue[i].owner : i \in 1 .. n}
  OBVIOUS
<1>3. \A r \in Server \ {s} : srv'[r] = srv[r]
  BY <1>0, <1>1 DEF TypeOK
<1>4. /\ UNCHANGED <<srv[s].tcp, srv[s].gen, srv[s].udp, srv[s].clients>>
      /\ srv'[s].tcpAsked = srv[s].tcpAsked \cup (written \cap live)
      /\ srv'[s].queue = Unwritten(srv[s].queue, n)
  BY <1>0, <1>1, <1>2 DEF TypeOK, ServerRecord
<1>5. /\ DistinctOwners(srv'[s].queue)
      /\ Asking(srv[s].queue) = Asking(srv'[s].queue) \cup (written \ {NoQuery})
      /\ \A q \in Asking(srv'[s].queue) : q \notin written
  <2>1. srv[s].queue \in Seq(Request) /\ DistinctOwners(srv[s].queue)
    BY <1>0 DEF ServerRecord, ConnectionsSound
  <2>2. PICK queue, rest : queue = srv[s].queue /\ rest = srv'[s].queue
    OBVIOUS
  <2>3. /\ queue \in Seq(Request) /\ n \in 1 .. Len(queue) /\ DistinctOwners(queue)
        /\ rest = Unwritten(queue, n)
        /\ \A q : q \in written <=> \E i \in 1 .. n : queue[i].owner = q
    BY <1>1, <1>2, <1>4, <2>1, <2>2
  <2>4. /\ DistinctOwners(rest) /\ Asking(queue) = Asking(rest) \cup (written \ {NoQuery})
        /\ \A q \in Asking(rest) : q \notin written
    BY <2>3, RequestsWritten
  <2>. QED
    BY <2>2, <2>4
<1>6. ConnectionsSound'
  BY <1>0, <1>3, <1>4, <1>5 DEF ConnectionsSound
<1>7. ASSUME NEW q \in Query
      PROVE  /\ Carries(s, q)' => Carries(s, q)
             /\ q \in live => (Carries(s, q)' <=> Carries(s, q))
             /\ ~(HasRequest(srv'[s], q) /\ q \in srv'[s].tcpAsked)
  <2>1. q # NoQuery /\ ~(HasRequest(srv[s], q) /\ q \in srv[s].tcpAsked)
    BY <1>0, QueryNumbers DEF GenerationsSound
  <2>2. /\ HasRequest(srv[s], q) <=> HasRequest(srv'[s], q) \/ q \in written
        /\ ~(HasRequest(srv'[s], q) /\ q \in written)
    BY <1>5, <2>1, RequestsAsked
  <2>. QED
    BY <1>4, <2>1, <2>2 DEF Carries
<1>8. \A r \in Server \ {s}, q \in Query :
        (Carries(r, q)' <=> Carries(r, q)) /\ (HasRequest(srv'[r], q) <=> HasRequest(srv[r], q))
  BY <1>3 DEF Carries
<1>9. GenerationsSound'
  <2>1. \A q \in Query : qry'[q].pc # "send"
    BY <1>0, NobodySends DEF LoopDone
  <2>2. \A r \in Server : srv'[r].gen = srv[r].gen
    BY <1>3, <1>4
  <2>3. \A r \in Server, q \in Query : Carries(r, q)' => qry'[q].pc # "none"
    BY <1>0, <1>7, <1>8 DEF GenerationsSound
  <2>4. \A r \in Server, q \in live' : Carries(r, q)' => qry'[q].gen[r] = srv'[r].gen
    BY <1>0, <1>7, <1>8, <2>2 DEF GenerationsSound, TypeOK
  <2>5. \A r \in Server, q \in Query : ~(HasRequest(srv'[r], q) /\ q \in srv'[r].tcpAsked)
    BY <1>0, <1>3, <1>7, <1>8 DEF GenerationsSound
  <2>. QED
    BY <2>1, <2>3, <2>4, <2>5 DEF GenerationsSound
<1>10. WaitersReachable'
  <2>. SUFFICES ASSUME NEW q \in live, qry[q].pc = "rest" PROVE Reachable(q)'
    BY <1>0 DEF WaitersReachable
  <2>1. Reachable(q) /\ q \in Query /\ qry[q].server \in Server /\ qry'[q] = qry[q]
    BY <1>0 DEF WaitersReachable, TypeOK, QueryRecord
  <2>. QED
    BY <1>3, <1>4, <1>7, <1>8, <2>1 DEF Reachable
<1>. QED
  BY <1>6, <1>9, <1>10

-----------------------------------------------------------------------------
(* The invariant of the sockets *)

LEMMA InitSockets == Init => SocketInv
<1>. SUFFICES ASSUME Init PROVE SocketInv
  OBVIOUS
<1>1. \A q \in Query : qry[q].pc = "none"
  BY DEF Init, FreshQuery
<1>2. \A s \in Server : /\ srv[s].gen = s + 1 /\ s + 1 > 0
                        /\ srv[s].queue = <<>> /\ srv[s].tcpAsked = {}
  BY ServersAssumption DEF Init, ClosedServer, Server
<1>3. \A s \in Server, q \in Query : ~HasRequest(srv[s], q) /\ ~Carries(s, q)
  BY <1>2 DEF Carries, HasRequest
<1>4. ConnectionsSound
  BY <1>2 DEF ConnectionsSound, DistinctOwners
<1>. QED
  BY <1>1, <1>3, <1>4 DEF SocketInv, TopRuns, Active, GenerationsSound, WaitersReachable, Init

LEMMA NextSockets ==
  ASSUME Inv, SoundRecords, SocketInv, [Next]_vars
  PROVE  SocketInv'
<1>0. TopRuns' /\ TypeOK'
  BY NextTop, NextType DEF Inv, SocketInv
<1>1. CASE Quiet
  BY <1>0, <1>1, QuietSockets DEF SocketInv
<1>2. ASSUME NEW q \in Query, SocketStep(q) PROVE SocketInv'
  <2>1. CASE SendTcp(q)
    <3>1. PICK s \in Server : s = qry[q].server
      BY DEF Inv, TypeOK, QueryRecord
    <3>. QED
      BY <1>0, <2>1, <3>1, SendTcpSockets DEF SocketInv
  <2>2. CASE SendTcpNoMemory(q)
    BY <1>0, <2>2, SendTcpNoMemorySockets DEF SocketInv
  <2>3. CASE SendUdp(q) \/ SendUdpFails(q)
    BY <1>0, <2>3, SendUdpSockets DEF SocketInv
  <2>4. CASE EndQuery(q)
    BY <1>0, <2>4, EndQuerySockets DEF SocketInv
  <2>5. CASE CallbackReturns(q)
    BY <1>0, <2>5, ReturnsSockets DEF SocketInv
  <2>. QED
    BY <1>2, <2>1, <2>2, <2>3, <2>4, <2>5 DEF SocketStep
<1>3. CASE /\ at \in Server /\ LoopDone
           /\ \/ HandleError(at) /\ phase \in {"write", "readTcp", "readUdp", "broken"}
              \/ WriteTcp
  <2>1. PICK s \in Server : s = at
    BY <1>3
  <2>2. CASE HandleError(at) /\ phase \in {"write", "readTcp", "readUdp", "broken"}
    BY <1>0, <1>3, <2>1, <2>2, HandleErrorSockets DEF SocketInv
  <2>3. CASE WriteTcp
    BY <1>0, <1>3, <2>1, <2>3, WriteTcpSockets DEF SocketInv
  <2>. QED
    BY <1>3, <2>2, <2>3
<1>4. CASE EndSweep
  BY <1>0, <1>4, EndSweepSockets DEF SocketInv
<1>. QED
  BY <1>1, <1>2, <1>3, <1>4, KindsOfSteps

LEMMA SocketsHold == Spec => [](Inv /\ SoundRecords /\ SocketInv)
<1>1. Init => SocketInv
  BY InitSockets
<1>2. Inv /\ SoundRecords /\ SocketInv /\ [Next]_vars => SocketInv'
  BY NextSockets
<1>. QED
  BY <1>1, <1>2, SoundHolds, PTL DEF Spec

-----------------------------------------------------------------------------
(* Requests are neither repeated nor lost *)

\* However a connection fails, is opened again and carries retransmissions, a
\* query is never given twice to one connection (tcp_connection_generation in
\* ares__send_query and next_server).
THEOREM NeverTwice == Spec => []OncePerConnection
<1>1. ASSUME TypeOK, SocketInv PROVE OncePerConnection
  <2>. SUFFICES ASSUME NEW s \in Server, NEW q \in Query
                PROVE  LET queued == {i \in DOMAIN srv[s].queue : srv[s].queue[i].owner = q} IN
                       Cardinality(queued) <= 1 /\ (queued # {} => q \notin srv[s].tcpAsked)
    BY DEF OncePerConnection
  <2>. DEFINE queued == {i \in DOMAIN srv[s].queue : srv[s].queue[i].owner = q}
  <2>0. q # NoQuery /\ DistinctOwners(srv[s].queue)
    BY <1>1, QueryNumbers DEF SocketInv, ConnectionsSound
  <2>1. \A i, j \in queued : i = j
    BY <2>0 DEF DistinctOwners
  <2>2. Cardinality(queued) <= 1
    <3>1. CASE queued = {}
      BY <3>1, FS_EmptySet
    <3>2. CASE queued # {}
      <4>1. PICK i : i \in queued
        BY <3>2
      <4>. HIDE DEF queued
      <4>2. queued = {i}
        BY <2>1, <4>1
      <4>. QED
        BY <4>2, FS_Singleton
    <3>. QED
      BY <3>1, <3>2
  <2>3. queued # {} => q \notin srv[s].tcpAsked
    BY <1>1 DEF SocketInv, GenerationsSound, HasRequest
  <2>. QED
    BY <2>2, <2>3
<1>. QED
  BY <1>1, SocketsHold, PTL DEF Inv

\* A query that waits for an answer over TCP waits on the connection it was
\* given to, and its request is queued there or was written there in full.
THEOREM RequestKept == Spec => []RequestNotLost
<1>1. ASSUME TypeOK, SocketInv PROVE RequestNotLost
  <2>. SUFFICES ASSUME NEW q \in live, qry[q].pc = "rest", qry[q].usingTcp, q \notin Stolen
                PROVE  LET sv == srv[qry[q].server] IN
                       /\ qry[q].gen[qry[q].server] = sv.gen
                       /\ q \in sv.tcpAsked \/ HasRequest(sv, q)
    BY DEF RequestNotLost
  <2>1. Reachable(q) /\ qry[q].server \in Server
    BY <1>1 DEF SocketInv, WaitersReachable, TypeOK, QueryRecord
  <2>2. Carries(qry[q].server, q)
    BY <2>1 DEF Reachable
  <2>. QED
    BY <1>1, <2>1, <2>2 DEF Carries, SocketInv, GenerationsSound
<1>. QED
  BY <1>1, SocketsHold, PTL DEF Inv

-----------------------------------------------------------------------------
(* What the application waits for *)

\* Before server s ares_getsock has counted at most two sockets per server.
LEMMA SocketsCounted ==
  ASSUME NEW s \in Server
  PROVE  CountBefore(s) \in Nat /\ CountBefore(s) <= 2 * s
<1>. DEFINE before == {y \in Sockets : y[1] < s}
            kinds == {"udp"} \cup {"tcp"}
<1>0. s \in Nat
  BY ServersAssumption DEF Server
<1>1. IsFiniteSet(kinds) /\ Cardinality(kinds) = 2
  <2>1. IsFiniteSet({"udp"}) /\ Cardinality({"udp"}) = 1 /\ "tcp" \notin {"udp"}
    BY FS_Singleton
  <2>. QED
    BY <2>1, FS_AddElement
<1>2. IsFiniteSet(0 .. s - 1) /\ Cardinality(0 .. s - 1) = s
  BY <1>0, FS_Interval
<1>3. IsFiniteSet((0 .. s - 1) \X kinds) /\ Cardinality((0 .. s - 1) \X kinds) = s * 2
  <2>. HIDE DEF kinds
  <2>1. PICK lower : lower = 0 .. s - 1
    OBVIOUS
  <2>2. IsFiniteSet(lower \X kinds) /\ Cardinality(lower \X kinds) = Cardinality(lower) * Cardinality(kinds)
    BY <1>1, <1>2, <2>1, FS_Product
  <2>. QED
    BY <1>1, <1>2, <2>1, <2>2
<1>4. before \subseteq (0 .. s - 1) \X kinds
  BY <1>0, ServersAssumption DEF Sockets, Server
<1>5. IsFiniteSet(before) /\ Cardinality(before) <= s * 2
  BY <1>3, <1>4, FS_Subset
<1>6. Cardinality(before) \in Nat
  BY <1>5, FS_CardinalityType
<1>. QED
  BY <1>0, <1>5, <1>6 DEF CountBefore

\* While the servers have no more sockets than ares_getsock can report, it
\* reports them all.
LEMMA AllListed ==
  ASSUME NServers <= 8, NEW x \in Sockets
  PROVE  x \in AresGetsock(2 * NServers).read
<1>1. PICK s \in Server, kind \in {"udp", "tcp"} : x = <<s, kind>>
  BY DEF Sockets
<1>2. CountBefore(s) \in Nat /\ CountBefore(s) <= 2 * s
  BY SocketsCounted
<1>3. s \in Nat /\ s + 1 <= NServers /\ NServers \in Nat
  BY ServersAssumption DEF Server
<1>4. CountBefore(x[1]) < GetsockMax
  BY <1>1, <1>2, <1>3 DEF GetsockMax
<1>5. Position(x) <= CountBefore(s) + 1
  BY <1>1, <1>2 DEF Position
<1>6. Position(x) \in Nat
  BY <1>1, <1>2 DEF Position
<1>7. Position(x) < 2 * NServers
  BY <1>2, <1>3, <1>5, <1>6
<1>. QED
  BY <1>4, <1>7 DEF AresGetsock

\* A query that waits is in the list of its server and of no other, has a
\* timer, and its socket is among those ares_fds and ares_getsock report, for
\* writing too while its request is queued.  ares_getsock has room for 16
\* sockets (ARES_GETSOCK_MAXNUM), which is enough for eight servers.
THEOREM WaitersRegistered == NServers <= 8 => (Spec => []WaitingIsRegistered)
<1>. SUFFICES ASSUME NServers <= 8 PROVE Spec => []WaitingIsRegistered
  OBVIOUS
<1>1. ASSUME Inv, SoundRecords, SocketInv PROVE WaitingIsRegistered
  <2>. SUFFICES ASSUME NEW q \in live, qry[q].pc = "rest", q \notin Stolen
                PROVE  LET s == qry[q].server
                           socket == <<s, IF qry[q].usingTcp THEN "tcp" ELSE "udp">>
                       IN
                       /\ {r \in Server : q \in srv[r].clients} = {s}
                       /\ qry[q].armed
                       /\ \A waitsFor \in {AresFds, AresGetsock(2 * NServers)} :
                            /\ socket \in waitsFor.read
                            /\ HasRequest(srv[s], q) => <<s, "tcp">> \in waitsFor.write
    BY DEF WaitingIsRegistered
  <2>1. PICK s \in Server : s = qry[q].server
    BY <1>1 DEF Inv, TypeOK, QueryRecord
  <2>2. PICK socket : socket = <<s, IF qry[q].usingTcp THEN "tcp" ELSE "udp">>
    OBVIOUS
  <2>3. q \in Query /\ q \in live /\ Reachable(q)
    BY <1>1 DEF Inv, TypeOK, SocketInv, WaitersReachable
  <2>4. {r \in Server : q \in srv[r].clients} = {s}
    BY <1>1, <2>1, <2>3 DEF Inv, InFlight, ServerLists, Reachable
  <2>5. qry[q].armed
    BY <1>1, <2>3 DEF SoundRecords, SoundRecord
  <2>6. socket \in Sockets
    BY <2>1, <2>2, <2>3 DEF Sockets, Reachable
  <2>7. socket \in AresGetsock(2 * NServers).read
    BY <2>6, AllListed
  <2>8. HasRequest(srv[s], q) => <<s, "tcp">> \in Sockets /\ <<s, "tcp">> \in WritableTcp
    BY <1>1 DEF SocketInv, ConnectionsSound, HasRequest, Sockets, WritableTcp
  <2>9. HasRequest(srv[s], q) => <<s, "tcp">> \in AresGetsock(2 * NServers).read
    BY <2>8, AllListed
  <2>10. HasRequest(srv[s], q) => <<s, "tcp">> \in AresGetsock(2 * NServers).write
    BY <2>3, <2>8, <2>9 DEF AresGetsock
  <2>11. /\ socket \in AresFds.read
         /\ HasRequest(srv[s], q) => <<s, "tcp">> \in AresFds.write
    BY <2>6, <2>8 DEF AresFds
  <2>. QED
    BY <2>1, <2>2, <2>4, <2>5, <2>7, <2>10, <2>11
<1>. QED
  BY <1>1, SocketsHold, PTL

-----------------------------------------------------------------------------
(* Ends: the inductive invariant *)

Sweeping == phase \in {"cancel", "destroy"}

Stopped == phase \in {"destroyed", "aborted"}

IsClosed(s) == ~srv[s].udp /\ ~srv[s].tcp /\ srv[s].queue = <<>> /\ ~srv[s].broken

\* Only the loops of ares_cancel and ares_destroy cancel a query.
CancelledInSweep ==
  \A q \in Query : qry[q].pc = "callback" /\ ~Sweeping =>
    qry[q].result \notin {"ECANCELLED", "EDESTRUCTION"}

IssuedStarted == \A q \in Query : q <= issued => qry[q].pc # "none"

PhasesSound ==
  /\ Sweeping => phase \in AppMay
  /\ Stopped => LoopDone
  /\ phase = "aborted" => live # {}
  /\ phase = "destroyed" => live = {} /\ \A s \in Server : IsClosed(s)

\* A queued request points into the buffer of its query, which is still to be
\* ended, or has lost its query; the ones that point nowhere break the server.
QueueSound(s) ==
  LET queue == srv[s].queue IN
  /\ \A i \in DOMAIN queue :
       IF queue[i].owner = NoQuery THEN queue[i].data # "tcpbuf"
       ELSE /\ queue[i].data = "tcpbuf" /\ queue[i].of = queue[i].owner
            /\ queue[i].owner \in live /\ qry[queue[i].owner].pc # "callback"
  /\ srv[s].broken <=> \E i \in DOMAIN queue : queue[i].data = "null"

QueuesSound == ~Sweeping /\ phase # "aborted" => \A s \in Server : QueueSound(s)

SocketsClosed == ~StayOpen /\ ~Sweeping /\ live = {} => \A s \in Server : IsClosed(s)

\* ares_cancel closes the connections, so that no request outlives its query.
CancelCloses == StayOpen => "cancel" \notin AppMay

CallbacksQuiet == "chain" \notin AppMay

\* The walk over all_queries is at its first query.
WalkSound ==
  /\ phase # "aborted"
  /\ Sweeping => /\ todo = Following(cur)
                 /\ cur # NoQuery => /\ cur \in live /\ \A p \in live : cur <= p
                                     /\ qry[cur].pc = "callback" /\ qry[cur].caller = NoQuery

EndInv ==
  /\ CancelledInSweep /\ IssuedStarted /\ PhasesSound /\ SocketsClosed
  /\ CancelCloses => QueuesSound
  /\ CallbacksQuiet => WalkSound

-----------------------------------------------------------------------------
(* The phases *)

\* Nothing happens after ares_destroy or a failed assertion.
LEMMA NothingFollows ==
  ASSUME Stopped, LoopDone, [Next]_vars
  PROVE  UNCHANGED vars
<1>1. ~Send /\ ~ProcessStep /\ ~SweepStep
  BY DEF Stopped, Send, ProcessStep, BeginProcess, Advance, EndLoop, MoveOn, WriteTcp, WriteTcpFails,
         ReadTcpFails, ReadTcpAnswer, ReadUdpFails, ReadUdpAnswer, UdpTurn, ServerTurn, BeginTimeouts,
         Timeout, EndTimeouts, CloseBroken, SweepStep, BeginSweep, SweepQuery, EndSweep
<1>2. ~QueryStep
  BY QueryNumbers DEF LoopDone, QueryStep, OpenFails, SendTcp, SendTcpNoMemory, SendUdp, SendUdpFails,
                      Sending, NextServer, EndQuery, CallbackSends, CallbackReturns
<1>. QED
  BY <1>1, <1>2 DEF Next

LEMMA PhaseSteps ==
  ASSUME [Next]_vars
  PROVE  \/ EndSweep
         \/ phase' = phase
         \/ /\ phase \notin {"cancel", "destroy", "destroyed", "aborted"}
            /\ phase' \notin {"cancel", "destroy", "destroyed", "aborted"}
         \/ \E kind \in {"cancel", "destroy"} : BeginSweep(kind)
<1>. USE DEF ctlVars
<1>1. CASE Send \/ QueryStep
  BY <1>1 DEF Send, QueryStep, OpenFails, SendTcp, SendTcpNoMemory, SendUdp, SendUdpFails,
              NextServer, EndQuery, CallbackSends, AresSend, CallbackReturns
<1>2. CASE ProcessStep
  BY <1>2 DEF ProcessStep, BeginProcess, Advance, EndLoop, MoveOn, WriteTcp, WriteTcpFails,
         ReadTcpFails, ReadTcpAnswer, ReadUdpFails, ReadUdpAnswer, HandleError, BeginTimeouts,
         Timeout, EndTimeouts, CloseBroken
<1>3. CASE SweepStep
  BY <1>3 DEF SweepStep, SweepQuery
<1>. QED
  BY <1>1, <1>2, <1>3 DEF Next, vars

\* What EndSweep does.
LEMMA SweepEnds ==
  ASSUME TypeOK, EndSweep
  PROVE  /\ Sweeping /\ LoopDone /\ LoopDone' /\ UNCHANGED <<live, issued, qry>>
         /\ phase' \in {"app", "destroyed", "aborted"}
         /\ IF live # {} THEN phase' = "aborted"
            ELSE /\ phase' # "aborted"
                 /\ \/ phase = "cancel" /\ StayOpen /\ phase' = "app"
                    \/ \A s \in Server : IsClosed(s)'
<1>1. ASSUME CloseAll, NEW s \in Server PROVE IsClosed(s)'
  BY <1>1, CloseAllFields DEF IsClosed
<1>. QED
  BY <1>1 DEF EndSweep, Sweeping, LoopDone

LEMMA PhasesKept ==
  ASSUME TypeOK, PhasesSound, [Next]_vars
  PROVE  PhasesSound'
<1>1. CASE Stopped
  <2>1. UNCHANGED vars
    BY <1>1, NothingFollows DEF PhasesSound
  <2>. QED
    BY <2>1 DEF vars, PhasesSound, Sweeping, Stopped, LoopDone, IsClosed
<1>2. CASE EndSweep
  BY <1>2, SweepEnds DEF PhasesSound, Sweeping, Stopped
<1>3. CASE \E kind \in {"cancel", "destroy"} : BeginSweep(kind)
  BY <1>3 DEF BeginSweep, PhasesSound, Sweeping, Stopped
<1>4. CASE /\ ~Stopped
           /\ \/ phase' = phase
              \/ phase' \notin {"cancel", "destroy", "destroyed", "aborted"}
  BY <1>4 DEF PhasesSound, Sweeping, Stopped
<1>. QED
  BY <1>1, <1>2, <1>3, <1>4, PhaseSteps

\* Outside the sweeps and after their end: what the other steps assume.
LEMMA SweepsEndOnce ==
  ASSUME [Next]_vars, ~Sweeping', ~Stopped'
  PROVE  EndSweep \/ (~Sweeping /\ ~Stopped)
BY PhaseSteps DEF Sweeping, Stopped, BeginSweep

-----------------------------------------------------------------------------
(* Queries that have begun, queries that are cancelled *)

LEMMA StartedKept ==
  ASSUME Inv, IssuedStarted, [Next]_vars
  PROVE  IssuedStarted'
<1>0. TypeOK /\ DOMAIN qry = Query /\ \A q \in Query : DOMAIN qry[q] =
        {"server", "tryCount", "skip", "usingTcp", "gen", "error", "armed",
         "result", "pc", "caller", "sends"}
  BY DEF Inv, TypeOK, QueryRecord
<1>1. ASSUME NEW q \in Query, Path(q) PROVE qry'[q].pc # "none"
  <2>1. CASE Accepted(q) \/ RefusedAtOnce(q) \/ Freed(q)
    BY <1>0, <2>1 DEF Accepted, RefusedAtOnce, Freed, Becomes, FreshQuery
  <2>2. CASE AttemptFails(q) \/ NextServer(q)
    BY <1>0, <2>2 DEF AttemptFails, GiveUpServer, NextServer
  <2>3. CASE MovesOn(q) \/ LateRefusal(q) \/ Truncated(q) \/ AnswerTaken(q) \/ Swept(q)
    BY <1>0, <2>3 DEF MovesOn, LateRefusal, Truncated, AnswerTaken, Swept, Becomes
  <2>4. CASE AttemptMade(q) \/ NoMemoryToSend(q) \/ CalledBack(q)
    BY <1>0, <2>4 DEF AttemptMade, NoMemoryToSend, CalledBack, Becomes
  <2>. QED
    BY <1>1, <2>1, <2>2, <2>3, <2>4 DEF Path, QuietPath
<1>2. ASSUME NEW q \in Query, qry[q].pc # "none" PROVE qry'[q].pc # "none"
  BY <1>0, <1>1, <1>2, OnePath, PathChangesOne DEF OthersKeep
<1>3. ASSUME NEW c, AresSend(c)
      PROVE  issued' = issued + 1 /\ qry'[issued + 1].pc # "none"
  <2>. DEFINE q == issued + 1
  <2>1. issued < MaxQueries /\ issued \in 0 .. MaxQueries /\ issued' = q
    BY <1>0, <1>3 DEF AresSend, TypeOK
  <2>2. q \in Query
    BY <2>1, QueriesAssumption DEF Query
  <2>3. \/ \E status : qry' = [qry EXCEPT ![q] = [FreshQuery EXCEPT
                                 !.pc = "callback", !.caller = c, !.result = status]]
        \/ \E large : qry' = [qry EXCEPT ![q] = [FreshQuery EXCEPT
                                !.pc = "send", !.caller = c, !.server = lastServer,
                                !.usingTcp = UseVc \/ large]]
    BY <1>3 DEF AresSend
  <2>. HIDE DEF q
  <2>4. qry'[q].pc # "none"
    BY <1>0, <2>2, <2>3 DEF FreshQuery
  <2>. QED
    BY <2>1, <2>4 DEF q
<1>4. \/ issued' = issued
      \/ issued' = issued + 1 /\ qry'[issued + 1].pc # "none"
  <2>1. CASE Send \/ QueryStep
    BY <1>3, <2>1 DEF Send, QueryStep, OpenFails, SendTcp, SendTcpNoMemory, SendUdp, SendUdpFails,
                NextServer, EndQuery, CallbackSends, CallbackReturns, chanVars
  <2>2. CASE ProcessStep
    BY <2>2 DEF ProcessStep, BeginProcess, Advance, EndLoop, MoveOn, WriteTcp, WriteTcpFails,
           ReadTcpFails, ReadTcpAnswer, ReadUdpFails, ReadUdpAnswer, HandleError, BeginTimeouts,
           Timeout, EndTimeouts, CloseBroken, chanVars
  <2>3. CASE SweepStep
    BY <2>3 DEF SweepStep, BeginSweep, SweepQuery, EndSweep, chanVars
  <2>. QED
    BY <2>1, <2>2, <2>3 DEF Next, vars
<1>5. \A q \in Query : q <= issued + 1 => q <= issued \/ q = issued + 1
  BY <1>0, QueryNumbers DEF TypeOK
<1>. QED
  BY <1>2, <1>4, <1>5 DEF IssuedStarted

LEMMA CancelledKept ==
  ASSUME Inv, SoundRecords, CancelledInSweep, [Next]_vars
  PROVE  CancelledInSweep'
<1>. SUFFICES ASSUME NEW q \in Query, qry'[q].pc = "callback", ~Sweeping'
              PROVE  qry'[q].result \notin {"ECANCELLED", "EDESTRUCTION"}
  BY DEF CancelledInSweep
<1>0. /\ TypeOK /\ DOMAIN qry = Query
      /\ DOMAIN qry[q] = {"server", "tryCount", "skip", "usingTcp", "gen", "error", "armed",
                          "result", "pc", "caller", "sends"}
  BY DEF Inv, TypeOK, QueryRecord
<1>1. CASE qry'[q] = qry[q]
  <2>1. Sweeping => EndSweep
    BY PhaseSteps DEF Sweeping, BeginSweep
  <2>2. EndSweep => Active = {}
    BY NothingRuns DEF EndSweep, LoopDone, Inv, InFlight
  <2>3. ~Sweeping
    BY <1>1, <2>1, <2>2 DEF Active
  <2>. QED
    BY <1>1, <2>3 DEF CancelledInSweep
<1>2. CASE Path(q)
  <2>1. CASE RefusedAtOnce(q)
    BY <1>0, <2>1 DEF RefusedAtOnce, Becomes, FreshQuery
  <2>2. CASE CalledBack(q)
    BY <1>0, <2>2 DEF CalledBack, Becomes, SoundRecords, SoundRecord
  <2>3. CASE Swept(q)
    BY <2>3 DEF Swept, Sweeping
  <2>4. CASE Accepted(q) \/ Freed(q)
    BY <1>0, <2>4 DEF Accepted, Freed, Becomes, FreshQuery
  <2>5. CASE AttemptFails(q) \/ NextServer(q)
    BY <1>0, <2>5 DEF AttemptFails, GiveUpServer, NextServer
  <2>6. CASE MovesOn(q) \/ LateRefusal(q) \/ Truncated(q) \/ AnswerTaken(q)
    BY <1>0, <2>6 DEF MovesOn, LateRefusal, Truncated, AnswerTaken, Becomes
  <2>7. CASE AttemptMade(q) \/ NoMemoryToSend(q)
    BY <1>0, <2>7 DEF AttemptMade, NoMemoryToSend, Becomes
  <2>. QED
    BY <1>2, <2>1, <2>2, <2>3, <2>4, <2>5, <2>6, <2>7 DEF Path, QuietPath
<1>. QED
  BY <1>0, <1>1, <1>2, OnePath, PathChangesOne DEF OthersKeep

-----------------------------------------------------------------------------
(* Requests and the queries they belong to *)

\* A query that is still to be ended stays so.
OwnersStay ==
  \A q \in live : qry[q].pc # "callback" => q \in live' /\ qry'[q].pc # "callback"

LEMMA SameQueue ==
  ASSUME NEW s \in Server, QueueSound(s), OwnersStay,
         srv'[s].queue = srv[s].queue, srv'[s].broken = srv[s].broken
  PROVE  QueueSound(s)'
BY DEF QueueSound, OwnersStay

LEMMA ClosedQueue ==
  ASSUME NEW s \in Server, IsClosed(s)'
  PROVE  QueueSound(s)'
<1>1. srv'[s].queue = <<>> /\ ~srv'[s].broken
  BY DEF IsClosed
<1>2. DOMAIN srv'[s].queue = {}
  BY <1>1
<1>. QED
  BY <1>1, <1>2 DEF QueueSound

LEMMA QuietQueues ==
  ASSUME Inv, Quiet, ~Sweeping, \A s \in Server : QueueSound(s)
  PROVE  \A s \in Server : QueueSound(s)'
<1>0. /\ TypeOK /\ srv' = srv /\ live \subseteq live' /\ live \subseteq Query /\ DOMAIN qry = Query
      /\ \A q \in Query : DOMAIN qry[q] =
           {"server", "tryCount", "skip", "usingTcp", "gen", "error", "armed",
            "result", "pc", "caller", "sends"}
  BY DEF Inv, TypeOK, QueryRecord, Quiet
<1>1. ASSUME NEW q \in live, QuietPath(q) PROVE qry'[q].pc # "callback"
  <2>0. q \in Query /\ qry[q].pc # "none"
    BY <1>0 DEF Inv, InFlight, LiveQueries
  <2>1. CASE AttemptFails(q) \/ NextServer(q)
    BY <1>0, <2>0, <2>1 DEF AttemptFails, GiveUpServer, NextServer
  <2>2. CASE MovesOn(q) \/ LateRefusal(q) \/ Truncated(q) \/ AnswerTaken(q)
    BY <1>0, <2>0, <2>2 DEF MovesOn, LateRefusal, Truncated, AnswerTaken, Becomes
  <2>. QED
    BY <1>1, <2>0, <2>1, <2>2 DEF QuietPath, Accepted, RefusedAtOnce, Swept, Sweeping
<1>2. ASSUME NEW q \in live, qry[q].pc # "callback" PROVE qry'[q].pc # "callback"
  <2>1. CASE QuietPath(q)
    BY <1>1, <2>1
  <2>2. ASSUME NEW p \in Query, QuietPath(p), p # q PROVE qry'[q] = qry[q]
    BY <1>0, <2>2, PathChangesOne DEF Path, OthersKeep
  <2>. QED
    BY <1>2, <2>1, <2>2 DEF Quiet
<1>3. OwnersStay
  BY <1>0, <1>2 DEF OwnersStay
<1>. QED
  BY <1>0, <1>3, SameQueue

LEMMA SendTcpQueues ==
  ASSUME Inv, NEW q \in Query, SendTcp(q), \A s \in Server : QueueSound(s)
  PROVE  \A s \in Server : QueueSound(s)'
<1>. DEFINE request == [owner |-> q, of |-> q, data |-> "tcpbuf"]
<1>0. PICK s \in Server : s = qry[q].server
  BY DEF Inv, TypeOK, QueryRecord
<1>. DEFINE ready == TcpReady(srv[s])
<1>1. /\ TypeOK /\ q \in live /\ qry[q] \in QueryRecord /\ DOMAIN qry = Query
      /\ srv[s] \in ServerRecord
  BY DEF Inv, TypeOK, SendTcp, Sending, InFlight, LiveQueries
<1>2. /\ live' = live /\ Registered(q, s)
      /\ srv' = Moved(q, s, [ready EXCEPT !.queue = Append(@, request)])
  BY <1>0 DEF SendTcp
<1>3. qry'[q].pc = "rest" /\ OthersKeep(q)
  BY <1>1, <1>2 DEF Registered, OthersKeep, QueryRecord
<1>4. OwnersStay
  BY <1>1, <1>2, <1>3 DEF OwnersStay, OthersKeep, TypeOK
<1>5. ASSUME NEW r \in Server, r # s
      PROVE  srv'[r].queue = srv[r].queue /\ srv'[r].broken = srv[r].broken
  <2>1. srv[r] \in ServerRecord /\ srv'[r] = [srv[r] EXCEPT !.clients = @ \ {q}]
    BY <1>1, <1>2, <1>5 DEF Moved, TypeOK
  <2>. QED
    BY <2>1 DEF ServerRecord
<1>6. ready.queue = srv[s].queue /\ ready.broken = srv[s].broken /\ DOMAIN ready = DOMAIN srv[s]
  <2>1. ready = srv[s] \/ ready = [srv[s] EXCEPT !.tcp = TRUE, !.gen = chanGen + 1]
    BY DEF TcpReady
  <2>. QED
    BY <1>1, <2>1 DEF ServerRecord
<1>7. srv'[s].queue = Append(srv[s].queue, request) /\ srv'[s].broken = srv[s].broken
  <2>. HIDE DEF ready, request
  <2>1. srv'[s] = [[ready EXCEPT !.queue = Append(@, request)] EXCEPT !.clients = @ \cup {q}]
    BY <1>2 DEF Moved
  <2>. QED
    BY <1>1, <1>6, <2>1 DEF ServerRecord
<1>8. QueueSound(s)'
  <2>. HIDE DEF ready
  <2>1. PICK queue \in Seq(Request) : queue = srv[s].queue
    BY <1>1 DEF ServerRecord
  <2>2. PICK n \in Nat : n = Len(queue)
    OBVIOUS
  <2>3. PICK new : new = srv'[s].queue
    OBVIOUS
  <2>4. /\ DOMAIN queue = 1 .. n /\ DOMAIN new = (1 .. n) \cup {n + 1}
        /\ new[n + 1] = request /\ \A i \in 1 .. n : new[i] = queue[i]
    BY <1>7, <2>1, <2>2, <2>3
  <2>5. q # NoQuery
    BY QueryNumbers
  <2>6. ASSUME NEW i \in DOMAIN new
        PROVE  IF new[i].owner = NoQuery THEN new[i].data # "tcpbuf"
               ELSE /\ new[i].data = "tcpbuf" /\ new[i].of = new[i].owner
                    /\ new[i].owner \in live' /\ qry'[new[i].owner].pc # "callback"
    <3>1. CASE i \in 1 .. n
      BY <1>4, <2>1, <2>4, <3>1 DEF QueueSound, OwnersStay
    <3>2. CASE i = n + 1
      BY <1>1, <1>2, <1>3, <2>4, <2>5, <3>2
    <3>. QED
      BY <2>4, <3>1, <3>2
  <2>7. (\E i \in DOMAIN new : new[i].data = "null") <=> \E i \in DOMAIN queue : queue[i].data = "null"
    BY <2>4
  <2>8. srv'[s].broken <=> \E i \in DOMAIN new : new[i].data = "null"
    BY <1>7, <2>1, <2>7 DEF QueueSound
  <2>. QED
    BY <2>3, <2>6, <2>8 DEF QueueSound
<1>. QED
  BY <1>4, <1>5, <1>8, SameQueue

\* The other ways to send put nothing into a queue.
LEMMA SendQueues ==
  ASSUME Inv, NEW q \in Query, SendTcpNoMemory(q) \/ SendUdp(q) \/ SendUdpFails(q),
         \A s \in Server : QueueSound(s)
  PROVE  \A s \in Server : QueueSound(s)'
<1>1. /\ TypeOK /\ qry[q] \in QueryRecord /\ DOMAIN qry = Query /\ live' = live
  BY DEF Inv, TypeOK, SendTcpNoMemory, SendUdp, SendUdpFails, chanVars
<1>2. qry'[q].pc # "callback" /\ OthersKeep(q)
  <2>1. CASE SendTcpNoMemory(q)
    BY <1>1, <2>1 DEF SendTcpNoMemory, OthersKeep, QueryRecord
  <2>2. CASE SendUdp(q)
    BY <1>1, <2>2 DEF SendUdp, Registered, OthersKeep, QueryRecord
  <2>3. CASE SendUdpFails(q)
    BY <1>1, <2>3 DEF SendUdpFails, GiveUpServer, OthersKeep, QueryRecord
  <2>. QED
    BY <2>1, <2>2, <2>3
<1>3. OwnersStay
  BY <1>1, <1>2 DEF OwnersStay, OthersKeep, TypeOK
<1>4. ASSUME NEW s \in Server
      PROVE  srv'[s].queue = srv[s].queue /\ srv'[s].broken = srv[s].broken
  <2>0. srv[s] \in ServerRecord /\ DOMAIN srv = Server
    BY <1>1 DEF TypeOK
  <2>1. CASE SendTcpNoMemory(q)
    <3>1. srv'[s] = srv[s] \/ srv'[s] = TcpReady(srv[s])
      BY <2>0, <2>1 DEF SendTcpNoMemory
    <3>2. TcpReady(srv[s]) = srv[s] \/ TcpReady(srv[s]) = [srv[s] EXCEPT !.tcp = TRUE, !.gen = chanGen + 1]
      BY DEF TcpReady
    <3>. QED
      BY <2>0, <3>1, <3>2 DEF ServerRecord
  <2>2. CASE SendUdp(q)
    BY <2>0, <2>2 DEF SendUdp, Moved, ServerRecord
  <2>3. CASE SendUdpFails(q)
    BY <2>0, <2>3 DEF SendUdpFails, ServerRecord
  <2>. QED
    BY <2>1, <2>2, <2>3
<1>. QED
  BY <1>3, <1>4, SameQueue

LEMMA EndQueryQueues ==
  ASSUME Inv, NEW q \in Query, EndQuery(q), \A s \in Server : QueueSound(s)
  PROVE  \A s \in Server : QueueSound(s)'
<1>0. /\ TypeOK /\ DOMAIN qry = Query /\ live' = live /\ q # NoQuery /\ q \in Int
      /\ qry' = [qry EXCEPT ![q].pc = "callback"]
  BY QueryNumbers DEF Inv, TypeOK, EndQuery, chanVars
<1>1. OthersKeep(q)
  BY <1>0 DEF OthersKeep
<1>2. PICK copied \in SUBSET Server :
        srv' = [s \in Server |->
            [srv[s] EXCEPT
               !.queue = [i \in DOMAIN srv[s].queue |->
                            Disowned(srv[s].queue[i], q, s \in copied)],
               !.broken = @ \/ (s \notin copied /\ HasRequest(srv[s], q))]]
  BY DEF EndQuery
<1>. SUFFICES ASSUME NEW s \in Server PROVE QueueSound(s)'
  OBVIOUS
<1>3. srv[s] \in ServerRecord /\ QueueSound(s)
  BY <1>0 DEF TypeOK
<1>4. PICK queue, new : queue = srv[s].queue /\ new = srv'[s].queue
  OBVIOUS
<1>5. /\ queue \in Seq(Request) /\ new = [i \in DOMAIN queue |-> Disowned(queue[i], q, s \in copied)]
      /\ srv'[s].broken <=> srv[s].broken \/ (s \notin copied /\ HasRequest(srv[s], q))
  BY <1>2, <1>3, <1>4 DEF ServerRecord
<1>6. ASSUME NEW i \in DOMAIN queue
      PROVE  IF queue[i].owner = q
             THEN /\ new[i].owner = NoQuery /\ new[i].data \in {"copy", "null"}
                  /\ new[i].data = "null" <=> s \notin copied
             ELSE new[i] = queue[i]
  <2>1. queue[i] \in Request /\ new[i] = Disowned(queue[i], q, s \in copied)
    BY <1>5
  <2>. QED
    BY <2>1 DEF Disowned, Request
<1>7. DOMAIN new = DOMAIN queue
  BY <1>5
<1>8. ASSUME NEW i \in DOMAIN new
      PROVE  IF new[i].owner = NoQuery THEN new[i].data # "tcpbuf"
             ELSE /\ new[i].data = "tcpbuf" /\ new[i].of = new[i].owner
                  /\ new[i].owner \in live' /\ qry'[new[i].owner].pc # "callback"
  <2>1. CASE queue[i].owner = q
    BY <1>6, <1>7, <2>1
  <2>2. CASE queue[i].owner # q
    <3>1. new[i] = queue[i]
      BY <1>6, <1>7, <2>2
    <3>2. new[i].owner \in live => qry'[new[i].owner] = qry[new[i].owner]
      BY <1>0, <1>1, <2>2, <3>1 DEF OthersKeep, TypeOK
    <3>3. IF queue[i].owner = NoQuery THEN queue[i].data # "tcpbuf"
          ELSE /\ queue[i].data = "tcpbuf" /\ queue[i].of = queue[i].owner
               /\ queue[i].owner \in live /\ qry[queue[i].owner].pc # "callback"
      BY <1>3, <1>4, <1>7 DEF QueueSound
    <3>. QED
      BY <1>0, <3>1, <3>2, <3>3
  <2>. QED
    BY <2>1, <2>2
<1>9. (\E i \in DOMAIN new : new[i].data = "null")
        <=> srv[s].broken \/ (s \notin copied /\ HasRequest(srv[s], q))
  <2>1. srv[s].broken <=> \E i \in DOMAIN queue : queue[i].data = "null"
    BY <1>3, <1>4 DEF QueueSound
  <2>2. \A i \in DOMAIN queue : queue[i].owner = q => queue[i].data = "tcpbuf"
    BY <1>0, <1>3, <1>4 DEF QueueSound
  <2>3. HasRequest(srv[s], q) <=> \E i \in DOMAIN queue : queue[i].owner = q
    BY <1>4 DEF HasRequest
  <2>4. ASSUME NEW i \in DOMAIN new, new[i].data = "null"
        PROVE  srv[s].broken \/ (s \notin copied /\ HasRequest(srv[s], q))
    BY <1>6, <1>7, <2>1, <2>3, <2>4
  <2>5. srv[s].broken => \E i \in DOMAIN new : new[i].data = "null"
    BY <1>6, <1>7, <2>1, <2>2
  <2>6. s \notin copied /\ HasRequest(srv[s], q) => \E i \in DOMAIN new : new[i].data = "null"
    BY <1>6, <1>7, <2>3
  <2>. QED
    BY <2>4, <2>5, <2>6
<1>10. srv'[s].broken <=> \E i \in DOMAIN new : new[i].data = "null"
  BY <1>5, <1>9
<1>. QED
  BY <1>4, <1>8, <1>10 DEF QueueSound

LEMMA ReturnsQueues ==
  ASSUME Inv, NEW q \in Query, CallbackReturns(q), \A s \in Server : QueueSound(s)
  PROVE  \A s \in Server : QueueSound(s)'
<1>0. TypeOK /\ DOMAIN qry = Query /\ qry[q].pc = "callback" /\ live' = live \ {q}
  BY DEF Inv, TypeOK, CallbackReturns
<1>1. OthersKeep(q)
  BY <1>0 DEF CallbackReturns, OthersKeep
<1>2. OwnersStay
  BY <1>0, <1>1 DEF OwnersStay, OthersKeep, TypeOK
<1>3. CASE CloseAll
  BY <1>0, <1>3, CloseAllFields, ClosedQueue DEF IsClosed
<1>4. CASE srv' = [s \in Server |-> Released(srv[s], q)]
  <2>1. ASSUME NEW s \in Server
        PROVE  srv'[s].queue = srv[s].queue /\ srv'[s].broken = srv[s].broken
    <3>1. srv[s] \in ServerRecord
      BY <1>0 DEF TypeOK
    <3>. QED
      BY <1>4, <3>1 DEF Released, ServerRecord
  <2>. QED
    BY <1>2, <2>1, SameQueue
<1>. QED
  BY <1>3, <1>4 DEF CallbackReturns

\* handle_error closes its server and leaves the others alone.
LEMMA ErrorCloses ==
  ASSUME TypeOK, NEW s \in Server, HandleError(s)
  PROVE  IsClosed(s)' /\ \A r \in Server \ {s} : srv'[r] = srv[r]
<1>1. srv' = [srv EXCEPT ![s] = [Closed(@, chanGen + 1) EXCEPT !.clients = {}]]
  BY DEF HandleError
<1>2. PICK g : g = chanGen + 1
  OBVIOUS
<1>3. srv[s] \in ServerRecord /\ DOMAIN srv = Server
  BY DEF TypeOK
<1>4. srv'[s] = [Closed(srv[s], g) EXCEPT !.clients = {}]
  BY <1>1, <1>2, <1>3
<1>5. DOMAIN Closed(srv[s], g) =
        {"udp", "tcp", "gen", "queue", "broken", "clients", "udpAsked", "tcpAsked"}
  BY <1>3 DEF Closed, ServerRecord
<1>6. /\ Closed(srv[s], g).udp = FALSE /\ Closed(srv[s], g).tcp = FALSE
      /\ Closed(srv[s], g).broken = FALSE /\ Closed(srv[s], g).queue = <<>>
  BY <1>3, ClosedFields
<1>7. IsClosed(s)'
  BY <1>4, <1>5, <1>6 DEF IsClosed
<1>. QED
  BY <1>1, <1>3, <1>7

LEMMA ErrorQueues ==
  ASSUME Inv, NEW s \in Server, HandleError(s), \A r \in Server : QueueSound(r)
  PROVE  \A r \in Server : QueueSound(r)'
<1>1. OwnersStay
  BY DEF HandleError, OwnersStay
<1>2. QueueSound(s)'
  BY ErrorCloses, ClosedQueue DEF Inv
<1>3. ASSUME NEW r \in Server, r # s PROVE QueueSound(r)'
  BY <1>1, <1>3, ErrorCloses, SameQueue DEF Inv
<1>. QED
  BY <1>2, <1>3

\* What stays in the queue was there before.
LEMMA UnwrittenStays ==
  ASSUME NEW queue \in Seq(Request), NEW n \in 1 .. Len(queue),
         NEW i \in DOMAIN Unwritten(queue, n)
  PROVE  \E j \in DOMAIN queue : Unwritten(queue, n)[i] = queue[j]
<1>. PICK m \in Nat : m = Len(queue)
  OBVIOUS
<1>0. n \in Nat /\ 1 <= n /\ n <= m /\ DOMAIN queue = 1 .. m
  OBVIOUS
<1>1. PICK rest : rest = Unwritten(queue, n)
  OBVIOUS
<1>2. rest = SubSeq(queue, n + 1, m)
  BY <1>1 DEF Unwritten
<1>3. \A j \in n + 1 .. m : queue[j] \in Request
  BY <1>0
<1>4. /\ rest \in Seq(Request)
      /\ Len(rest) = IF n + 1 <= m THEN m - (n + 1) + 1 ELSE 0
      /\ \A j \in 1 .. m - (n + 1) + 1 : rest[j] = queue[n + 1 + j - 1]
  BY <1>0, <1>2, <1>3, SubSeqProperties
<1>5. DOMAIN rest = 1 .. m - n /\ i \in 1 .. m - n
  BY <1>0, <1>1, <1>4
<1>6. rest[i] = queue[n + i] /\ n + i \in 1 .. m
  BY <1>0, <1>4, <1>5
<1>. QED
  BY <1>0, <1>1, <1>6

LEMMA WriteTcpQueues ==
  ASSUME Inv, NEW s \in Server, at = s, WriteTcp, \A r \in Server : QueueSound(r)
  PROVE  \A r \in Server : QueueSound(r)'
<1>0. TypeOK /\ UNCHANGED <<live, qry>> /\ ~srv[s].broken /\ srv[s] \in ServerRecord
  BY DEF Inv, TypeOK, WriteTcp, chanVars
<1>1. PICK n \in 1 .. Len(srv[at].queue) :
        srv' = [srv EXCEPT ![at] = [srv[at] EXCEPT
                 !.queue = Unwritten(@, n),
                 !.tcpAsked = @ \cup ({srv[at].queue[i].owner : i \in 1 .. n} \cap live)]]
  BY Zenon DEF WriteTcp
<1>2. PICK asked :
        srv' = [srv EXCEPT ![s] = [srv[s] EXCEPT !.queue = Unwritten(srv[s].queue, n), !.tcpAsked = asked]]
  BY <1>1
<1>3. /\ srv'[s].queue = Unwritten(srv[s].queue, n) /\ srv'[s].broken = srv[s].broken
      /\ \A r \in Server \ {s} : srv'[r] = srv[r]
  BY <1>0, <1>2 DEF TypeOK, ServerRecord
<1>4. OwnersStay
  BY <1>0 DEF OwnersStay
<1>5. QueueSound(s)'
  <2>1. PICK queue, rest : queue = srv[s].queue /\ rest = srv'[s].queue
    OBVIOUS
  <2>2. queue \in Seq(Request) /\ n \in 1 .. Len(queue) /\ rest = Unwritten(queue, n)
    BY <1>0, <1>1, <1>3, <2>1 DEF ServerRecord
  <2>3. \A i \in DOMAIN rest : \E j \in DOMAIN queue : rest[i] = queue[j]
    BY <2>2, UnwrittenStays
  <2>4. \A j \in DOMAIN queue : queue[j].data # "null"
    BY <1>0, <2>1 DEF QueueSound
  <2>5. ASSUME NEW i \in DOMAIN rest
        PROVE  /\ rest[i].data # "null"
               /\ IF rest[i].owner = NoQuery THEN rest[i].data # "tcpbuf"
                  ELSE /\ rest[i].data = "tcpbuf" /\ rest[i].of = rest[i].owner
                       /\ rest[i].owner \in live /\ qry[rest[i].owner].pc # "callback"
    <3>1. PICK j \in DOMAIN queue : rest[i] = queue[j]
      BY <2>3
    <3>. QED
      BY <2>1, <2>4, <3>1 DEF QueueSound
  <2>. QED
    BY <1>0, <1>3, <2>1, <2>5 DEF QueueSound
<1>6. ASSUME NEW r \in Server, r # s PROVE QueueSound(r)'
  BY <1>3, <1>4, <1>6, SameQueue
<1>. QED
  BY <1>5, <1>6

LEMMA QueuesKept ==
  ASSUME Inv, PhasesSound, CancelCloses, QueuesSound, [Next]_vars
  PROVE  QueuesSound'
<1>. SUFFICES ASSUME ~Sweeping', phase' # "aborted"
              PROVE  \A s \in Server : QueueSound(s)'
  BY DEF QueuesSound
<1>0. TypeOK
  BY DEF Inv
<1>1. CASE EndSweep
  BY <1>0, <1>1, SweepEnds, ClosedQueue DEF PhasesSound, Sweeping, CancelCloses
<1>2. CASE Stopped
  BY <1>2, NothingFollows DEF PhasesSound, vars, QueuesSound, QueueSound, Sweeping
<1>3. CASE ~EndSweep /\ ~Stopped
  <2>1. ~Sweeping /\ \A s \in Server : QueueSound(s)
    BY <1>3, PhaseSteps DEF QueuesSound, Sweeping, Stopped, BeginSweep
  <2>2. CASE Quiet
    BY <2>1, <2>2, QuietQueues
  <2>3. ASSUME NEW q \in Query, SocketStep(q) PROVE \A s \in Server : QueueSound(s)'
    BY <2>1, <2>3, SendTcpQueues, SendQueues, EndQueryQueues, ReturnsQueues DEF SocketStep
  <2>4. CASE at \in Server /\ HandleError(at)
    <3>1. PICK s \in Server : s = at
      BY <2>4
    <3>. QED
      BY <2>1, <2>4, <3>1, ErrorQueues
  <2>5. CASE at \in Server /\ WriteTcp
    <3>1. PICK s \in Server : s = at
      BY <2>5
    <3>. QED
      BY <2>1, <2>5, <3>1, WriteTcpQueues
  <2>. QED
    BY <1>3, <2>2, <2>3, <2>4, <2>5, KindsOfSteps
<1>. QED
  BY <1>1, <1>2, <1>3

-----------------------------------------------------------------------------
(* The sockets go with the last query *)

LEMMA ClosedKept ==
  ASSUME Inv, CancelledInSweep, PhasesSound, SocketsClosed, [Next]_vars
  PROVE  SocketsClosed'
<1>. SUFFICES ASSUME ~StayOpen, ~Sweeping', live' = {}, NEW s \in Server
              PROVE  IsClosed(s)'
  BY DEF SocketsClosed
<1>0. TypeOK /\ \A q \in Query : qry[q].pc \in {"send", "next", "rest", "end"} => q \in live
  BY DEF Inv, InFlight, LiveQueries
<1>1. CASE EndSweep
  BY <1>0, <1>1, SweepEnds
<1>2. CASE Stopped
  BY <1>2, NothingFollows DEF PhasesSound, vars, SocketsClosed, Sweeping, IsClosed
<1>3. CASE ~EndSweep /\ ~Stopped
  <2>1. ~Sweeping /\ (live = {} => IsClosed(s))
    BY <1>3, PhaseSteps DEF SocketsClosed, Sweeping, Stopped, BeginSweep
  <2>2. CASE Quiet
    BY <2>1, <2>2 DEF Quiet, IsClosed
  <2>3. ASSUME NEW q \in Query, SocketStep(q) PROVE IsClosed(s)'
    <3>1. CASE SendTcp(q) \/ SendTcpNoMemory(q) \/ SendUdp(q) \/ SendUdpFails(q) \/ EndQuery(q)
      <4>1. live' = live /\ qry[q].pc \in {"send", "end"}
        BY <3>1 DEF SendTcp, SendTcpNoMemory, SendUdp, SendUdpFails, Sending, EndQuery, chanVars
      <4>. QED
        BY <1>0, <4>1
    <3>2. CASE CallbackReturns(q)
      <4>1. /\ qry[q].result \notin {"ECANCELLED", "EDESTRUCTION"} /\ live' = live \ {q}
            /\ IF q \in live /\ IsLast(q) THEN CloseAll
               ELSE srv' = [r \in Server |-> Released(srv[r], q)]
        BY <2>1, <3>2 DEF CallbackReturns, CancelledInSweep
      <4>2. CASE q \in live
        BY <1>0, <4>1, <4>2, CloseAllFields DEF IsLast, IsClosed
      <4>3. CASE q \notin live
        <5>1. srv[s] \in ServerRecord /\ srv'[s] = Released(srv[s], q) /\ IsClosed(s)
          BY <1>0, <2>1, <4>1, <4>3 DEF TypeOK
        <5>. QED
          BY <5>1 DEF Released, ServerRecord, IsClosed
      <4>. QED
        BY <4>2, <4>3
    <3>. QED
      BY <2>3, <3>1, <3>2 DEF SocketStep
  <2>4. CASE at \in Server /\ HandleError(at)
    <3>1. PICK r \in Server : r = at
      BY <2>4
    <3>2. live = {} /\ IsClosed(r)' /\ (s # r => srv'[s] = srv[s])
      BY <1>0, <2>4, <3>1, ErrorCloses DEF HandleError
    <3>. QED
      BY <2>1, <3>2 DEF IsClosed
  <2>5. CASE at \in Server /\ WriteTcp
    BY <2>1, <1>3, <2>5 DEF WriteTcp, chanVars, SocketsClosed, IsClosed
  <2>. QED
    BY <1>3, <2>2, <2>3, <2>4, <2>5, KindsOfSteps
<1>. QED
  BY <1>1, <1>2, <1>3

-----------------------------------------------------------------------------
(* The walk over all_queries *)

Less == {ss \in Nat \X Nat : ss[1] < ss[2]}

LEMMA LessWellFounded == IsWellFoundedOn(Less, Nat)
BY NatLessThanWellFounded DEF OpToRel, Less

LEMMA SomeFirst ==
  ASSUME NEW S \in SUBSET Nat, S # {}
  PROVE  \E m \in S : \A n \in S : m <= n
<1>1. PICK m \in S : \A n \in S : <<n, m>> \notin Less
  BY LessWellFounded, WFMin
<1>2. \A n \in S : <<n, m>> \in Less <=> n < m
  BY DEF Less
<1>3. \A n \in S : ~(n < m) => m <= n
  OBVIOUS
<1>. QED
  BY <1>1, <1>2, <1>3

\* A walk that finds no first node has found the list empty.
LEMMA NoFirst ==
  ASSUME TypeOK, Following(NoQuery) = {}
  PROVE  live = {}
<1>1. live \subseteq Query /\ Query \subseteq Nat
  BY DEF TypeOK, Query
<1>2. live # {} => \E m \in live : \A n \in live : m <= n
  BY <1>1, SomeFirst
<1>. QED
  BY <1>1, <1>2, QueryNumbers DEF Following

LEMMA WalkKept ==
  ASSUME Inv, PhasesSound, CallbacksQuiet, WalkSound, [Next]_vars
  PROVE  WalkSound'
<1>0. TypeOK /\ live \subseteq Query /\ DOMAIN qry = Query
  BY DEF Inv, TypeOK
<1>1. phase' # "aborted"
  <2>1. EndSweep => live = {}
    BY <1>0, NoFirst, SweepEnds DEF WalkSound, LoopDone
  <2>2. EndSweep => phase' # "aborted"
    BY <1>0, <2>1, SweepEnds
  <2>. QED
    BY <2>2, PhaseSteps DEF WalkSound, BeginSweep
<1>. SUFFICES ASSUME Sweeping'
              PROVE  /\ todo' = Following(cur)'
                     /\ cur' # NoQuery => /\ cur' \in live' /\ \A p \in live' : cur' <= p
                                          /\ qry'[cur'].pc = "callback" /\ qry'[cur'].caller = NoQuery
  BY <1>1 DEF WalkSound
<1>2. CASE \E kind \in {"cancel", "destroy"} : BeginSweep(kind)
  BY <1>2 DEF BeginSweep, LoopDone, Following, chanVars
<1>3. CASE phase' = phase
  <2>0. Sweeping
    BY <1>3 DEF Sweeping
  <2>1. CASE QueryStep
    <3>1. PICK q \in Query : cur = q /\ CallbackReturns(q)
      <4>1. PICK q \in Query :
              \/ OpenFails(q) \/ SendTcp(q) \/ SendTcpNoMemory(q) \/ SendUdp(q) \/ SendUdpFails(q)
              \/ NextServer(q) \/ EndQuery(q) \/ CallbackSends(q) \/ CallbackReturns(q)
        BY <2>1 DEF QueryStep
      <4>2. cur = q
        BY <4>1 DEF OpenFails, SendTcp, SendTcpNoMemory, SendUdp, SendUdpFails, Sending, NextServer,
                    EndQuery, CallbackSends, CallbackReturns
      <4>3. qry[q].pc = "callback"
        BY <2>0, <4>2, QueryNumbers DEF WalkSound
      <4>. QED
        BY <4>1, <4>2, <4>3 DEF OpenFails, SendTcp, SendTcpNoMemory, SendUdp, SendUdpFails, Sending,
                                NextServer, EndQuery, CallbackSends, CallbacksQuiet
    <3>2. /\ todo = Following(q) /\ q \in live /\ \A p \in live : q <= p
          /\ qry[q].caller = NoQuery
      BY <2>0, <3>1, QueryNumbers DEF WalkSound
    <3>3. cur' = NoQuery /\ todo' = todo /\ live' = live \ {q}
      BY <3>1, <3>2 DEF CallbackReturns, ctlVars
    <3>4. \A p \in live : p \in Int /\ p > 0 /\ (p # q => p > q)
      BY <1>0, <3>2, QueryNumbers DEF NoQuery
    <3>5. Following(NoQuery)' = Following(q)
      BY <3>2, <3>3, <3>4 DEF Following, NoQuery
    <3>. QED
      BY <3>2, <3>3, <3>5
  <2>2. CASE SweepQuery
    <3>1. PICK q \in todo :
            /\ todo' = Following(q)
            /\ qry' = [qry EXCEPT ![q].pc = "callback", ![q].caller = NoQuery,
                    ![q].result = IF phase = "cancel" THEN "ECANCELLED" ELSE "EDESTRUCTION"]
            /\ cur' = q
      BY <2>2 DEF SweepQuery
    <3>2. live' = live /\ todo = Following(NoQuery)
      BY <2>0, <2>2 DEF SweepQuery, WalkSound, chanVars
    <3>3. q \in live /\ \A p \in live : q <= p
      BY <1>0, <3>2, QueryNumbers DEF Following
    <3>4. qry'[q].pc = "callback" /\ qry'[q].caller = NoQuery
      <4>1. qry[q] \in QueryRecord /\ q \in Query
        BY <1>0, <3>3 DEF TypeOK
      <4>. QED
        BY <1>0, <3>1, <4>1 DEF QueryRecord
    <3>5. Following(q)' = Following(q)
      BY <3>2 DEF Following
    <3>. QED
      BY <3>1, <3>2, <3>3, <3>4, <3>5 DEF Following
  <2>3. CASE UNCHANGED vars
    BY <2>0, <2>3 DEF vars, WalkSound, Following
  <2>4. ~Send /\ ~ProcessStep
    BY <2>0 DEF Sweeping, Send, ProcessStep, BeginProcess, Advance, EndLoop, MoveOn, WriteTcp,
           WriteTcpFails, ReadTcpFails, ReadTcpAnswer, ReadUdpFails, ReadUdpAnswer, UdpTurn,
           ServerTurn, BeginTimeouts, Timeout, EndTimeouts, CloseBroken
  <2>5. SweepStep => SweepQuery
    BY <1>3, <2>0 DEF SweepStep, Sweeping, BeginSweep, EndSweep
  <2>. QED
    BY <2>1, <2>2, <2>3, <2>4, <2>5 DEF Next
<1>. QED
  BY <1>0, <1>2, <1>3, PhaseSteps, SweepEnds DEF Sweeping

-----------------------------------------------------------------------------
(* The invariant of the ends *)

LEMMA InitEnd == Init => EndInv
<1>. SUFFICES ASSUME Init PROVE EndInv
  OBVIOUS
<1>1. /\ phase = "app" /\ live = {} /\ issued = 0
      /\ \A q \in Query : qry[q].pc = "none" /\ q > issued
      /\ \A s \in Server : IsClosed(s)
  BY QueryNumbers DEF Init, FreshQuery, ClosedServer, IsClosed, NoQuery
<1>2. \A s \in Server : QueueSound(s)
  <2>1. \A s \in Server : srv[s].queue = <<>> /\ ~srv[s].broken /\ DOMAIN <<>> = {}
    BY <1>1 DEF IsClosed
  <2>. QED
    BY <2>1 DEF QueueSound
<1>3. IssuedStarted
  BY <1>1, QueryNumbers DEF IssuedStarted, NoQuery
<1>. QED
  BY <1>1, <1>2, <1>3 DEF EndInv, CancelledInSweep, PhasesSound, Sweeping, Stopped, SocketsClosed,
                          QueuesSound, WalkSound

LEMMA NextEnd == Inv /\ SoundRecords /\ EndInv /\ [Next]_vars => EndInv'
<1>. SUFFICES ASSUME Inv, SoundRecords, EndInv, [Next]_vars PROVE EndInv'
  OBVIOUS
<1>1. CancelledInSweep' /\ IssuedStarted' /\ PhasesSound' /\ SocketsClosed'
  BY CancelledKept, StartedKept, PhasesKept, ClosedKept DEF EndInv, Inv
<1>2. CancelCloses => QueuesSound'
  BY QueuesKept DEF EndInv
<1>3. CallbacksQuiet => WalkSound'
  BY WalkKept DEF EndInv
<1>. QED
  BY <1>1, <1>2, <1>3 DEF EndInv, CancelCloses, CallbacksQuiet

LEMMA EndHolds == Spec => [](Inv /\ SoundRecords /\ SocketInv /\ EndInv)
<1>. QED
  BY InitEnd, NextEnd, SocketsHold, PTL DEF Spec

-----------------------------------------------------------------------------
(* Theorems *)

\* While ares_process can write, every queued request points into the buffer
\* of a query in flight or to a copy of its own, and a connection is broken
\* exactly when one points nowhere (the comments of ares__send_query and
\* end_query).  ares_cancel leaves its requests queued when the sockets stay
\* open, so the theorem is about channels that are not cancelled then.
THEOREM NoneDangling == (StayOpen => "cancel" \notin AppMay) => (Spec => []NoDanglingRequest)
<1>. SUFFICES ASSUME StayOpen => "cancel" \notin AppMay PROVE Spec => []NoDanglingRequest
  OBVIOUS
<1>0. CancelCloses
  BY DEF CancelCloses
<1>1. ASSUME ConnectionsSound, QueuesSound PROVE NoDanglingRequest
  <2>. SUFFICES ASSUME phase \notin {"cancel", "destroy", "aborted"}, NEW s \in Server
                PROVE  LET queue == srv[s].queue IN
                       /\ \A i \in DOMAIN queue :
                            /\ queue[i].data = "tcpbuf" => queue[i].of \in live
                            /\ queue[i].owner # NoQuery => queue[i].owner \in live
                       /\ srv[s].broken <=> \E i \in DOMAIN queue : queue[i].data = "null"
                       /\ queue # <<>> => srv[s].tcp
    BY DEF NoDanglingRequest
  <2>1. QueueSound(s) /\ (srv[s].queue # <<>> => srv[s].tcp)
    BY <1>1 DEF QueuesSound, Sweeping, ConnectionsSound
  <2>. QED
    BY <2>1 DEF QueueSound
<1>. QED
  BY <1>0, <1>1, EndHolds, PTL DEF EndInv, SocketInv

\* With the last query the sockets, the queues and the broken marks are gone,
\* whatever ended the query and however often callbacks asked again.
THEOREM IdleIsClosed == Spec => []ClosedWhenIdle
<1>1. SocketsClosed => ClosedWhenIdle
  BY DEF SocketsClosed, ClosedWhenIdle, Sweeping, IsClosed
<1>. QED
  BY <1>1, EndHolds, PTL DEF EndInv

\* ares_destroy leaves a channel on which every query was answered once, with
\* no socket open, nothing queued and no query in a server's list.
THEOREM DestroyCleans == Spec => []DestroyedIsClean
<1>1. ASSUME Inv, EndInv PROVE DestroyedIsClean
  <2>. SUFFICES ASSUME phase = "destroyed"
                PROVE  /\ \A q \in 1 .. issued : calls[q] = 1
                       /\ \A s \in Server : /\ ~srv[s].udp /\ ~srv[s].tcp
                                            /\ srv[s].queue = <<>> /\ srv[s].clients = {}
    BY DEF DestroyedIsClean
  <2>1. live = {} /\ \A s \in Server : IsClosed(s)
    BY <1>1 DEF EndInv, PhasesSound
  <2>2. ASSUME NEW q \in 1 .. issued PROVE calls[q] = 1
    <3>1. q \in Query /\ q <= issued
      BY <1>1, QueriesAssumption DEF Inv, TypeOK, Query
    <3>2. qry[q].pc # "none" /\ qry[q] \in QueryRecord
      BY <1>1, <3>1 DEF EndInv, IssuedStarted, Inv, TypeOK
    <3>3. qry[q].pc \in {"callback", "done"}
      BY <1>1, <2>1, <3>1, <3>2 DEF Inv, InFlight, LiveQueries, QueryRecord
    <3>. QED
      BY <1>1, <3>1, <3>3 DEF Inv, InFlight, CallbackOnce
  <2>3. \A s \in Server : srv[s].clients = {}
    BY <1>1, <2>1 DEF Inv, InFlight, ServerLists
  <2>. QED
    BY <2>1, <2>2, <2>3 DEF IsClosed
<1>. QED
  BY <1>1, EndHolds, PTL

\* If callbacks ask no new question, the walks of ares_cancel and ares_destroy
\* reach every query, and the assertions at their end hold.
THEOREM SweepReachesAll == "chain" \notin AppMay => (Spec => []SweepLeavesNothing)
<1>. SUFFICES ASSUME "chain" \notin AppMay PROVE Spec => []SweepLeavesNothing
  OBVIOUS
<1>1. CallbacksQuiet /\ (WalkSound => SweepLeavesNothing)
  BY DEF CallbacksQuiet, WalkSound, SweepLeavesNothing
<1>. QED
  BY <1>1, EndHolds, PTL DEF EndInv

=============================================================================
