-------------------------- MODULE AresChannelProofs --------------------------
(***************************************************************************)
(* Proofs about AresChannel for every number of servers, tries and queries *)
(* and every choice of the channel's flags: the types of its variables,    *)
(* then that every query has its callback invoked exactly once and no list *)
(* loop meets a query that a callback has freed or moved.                  *)
(***************************************************************************)
EXTENDS AresChannel, FiniteSetTheorems, SequenceTheorems, TLAPS

USE DEF NoQuery, NoServer

LEMMA ServerStep ==
  ASSUME NEW n \in Nat
  PROVE  n % NServers \in Server
BY ServersAssumption DEF Server

LEMMA FreshQueryType == FreshQuery \in QueryRecord
BY ServersAssumption DEF FreshQuery, QueryRecord, Server, Status

LEMMA OpenTcpCount ==
  ASSUME NEW s \in Server
  PROVE  Cardinality(OpenTcpUpTo(s)) \in Nat
<1>1. IsFiniteSet(0 .. s)
  BY FS_Interval, ServersAssumption DEF Server
<1>2. IsFiniteSet(OpenTcpUpTo(s))
  BY <1>1, FS_Subset DEF OpenTcpUpTo
<1>. QED
  BY <1>2, FS_CardinalityType

-----------------------------------------------------------------------------
(* What the operators on servers and requests return *)

LEMMA DisownedQueue ==
  ASSUME NEW queue \in Seq(Request), NEW q \in Query, NEW copied \in BOOLEAN
  PROVE  [i \in DOMAIN queue |-> Disowned(queue[i], q, copied)] \in Seq(Request)
<1>1. ASSUME NEW r \in Request
      PROVE  Disowned(r, q, copied) \in Request
  <2>1. CASE r.owner # q
    BY <2>1 DEF Disowned
  <2>2. ASSUME NEW d \in {"copy", "null"}
        PROVE  [r EXCEPT !.owner = NoQuery, !.data = d] \in Request
    BY DEF Request
  <2>. QED
    BY <2>1, <2>2 DEF Disowned
<1>2. DOMAIN queue = 1 .. Len(queue) /\ Len(queue) \in Nat
  OBVIOUS
<1>3. [i \in DOMAIN queue |-> Disowned(queue[i], q, copied)] \in [1 .. Len(queue) -> Request]
  BY <1>1, <1>2
<1>. QED
  BY <1>2, <1>3, SeqDef

LEMMA UnwrittenQueue ==
  ASSUME NEW queue \in Seq(Request), NEW n \in 1 .. Len(queue)
  PROVE  Unwritten(queue, n) \in Seq(Request)
<1>1. CASE n = Len(queue)
  BY <1>1, SubSeqProperties DEF Unwritten
<1>2. CASE n < Len(queue)
  BY <1>2, SubSeqProperties DEF Unwritten
<1>. QED
  BY <1>1, <1>2

LEMMA ClosedType ==
  ASSUME NEW sv \in ServerRecord, NEW g \in Nat
  PROVE  Closed(sv, g) \in ServerRecord
<1>1. PICK h \in Nat : h = IF sv.tcp THEN g ELSE sv.gen
  BY DEF ServerRecord
<1>2. <<>> \in Seq(Request)
  OBVIOUS
<1>3. [sv EXCEPT !.udp = FALSE, !.tcp = FALSE, !.queue = <<>>, !.broken = FALSE,
                 !.udpAsked = {}, !.tcpAsked = {}, !.gen = h] \in ServerRecord
  BY <1>2 DEF ServerRecord
<1>. QED
  BY <1>1, <1>3 DEF Closed

LEMMA ReleasedType ==
  ASSUME NEW sv \in ServerRecord, NEW q
  PROVE  Released(sv, q) \in ServerRecord
BY DEF Released, ServerRecord

LEMMA CloseAllType ==
  ASSUME TypeOK, CloseAll
  PROVE  srv' \in [Server -> ServerRecord] /\ chanGen' \in Nat
<1>1. ASSUME NEW s \in Server
      PROVE  [Closed(srv[s], chanGen + Cardinality(OpenTcpUpTo(s))) EXCEPT !.clients = @ \ {cur}]
               \in ServerRecord
  <2>1. chanGen + Cardinality(OpenTcpUpTo(s)) \in Nat
    BY OpenTcpCount DEF TypeOK
  <2>2. Closed(srv[s], chanGen + Cardinality(OpenTcpUpTo(s))) \in ServerRecord
    BY <2>1, ClosedType DEF TypeOK
  <2>. QED
    BY <2>2 DEF ServerRecord
<1>2. NServers - 1 \in Server
  BY ServersAssumption DEF Server
<1>3. chanGen' \in Nat
  BY <1>2, OpenTcpCount DEF CloseAll, TypeOK
<1>. QED
  BY <1>1, <1>3 DEF CloseAll

-----------------------------------------------------------------------------
(* Type correctness *)

LEMMA InitType == Init => TypeOK
<1>. SUFFICES ASSUME Init PROVE TypeOK
  OBVIOUS
<1>1. qry \in [Query -> QueryRecord]
  BY FreshQueryType DEF Init
<1>2. srv \in [Server -> ServerRecord]
  <2>1. \A s \in Server : ClosedServer(s + 1) \in ServerRecord
    BY ServersAssumption, EmptySeq DEF ClosedServer, ServerRecord, Server
  <2>. QED
    BY <2>1 DEF Init
<1>3. /\ issued \in 0 .. MaxQueries /\ live \subseteq Query /\ lastServer \in Server
      /\ chanGen \in Nat /\ at \in 0 .. NServers
  BY ServersAssumption, QueriesAssumption DEF Init, Server
<1>4. /\ phase \in Phase /\ reading \in BOOLEAN /\ todo \subseteq Query
      /\ err \in Server \cup {NoServer} /\ cur \in Query \cup {NoQuery}
      /\ calls \in [Query -> Nat]
  BY DEF Init, Phase
<1>. QED
  BY <1>1, <1>2, <1>3, <1>4 DEF TypeOK

LEMMA SendType ==
  ASSUME TypeOK, NEW c \in Query \cup {NoQuery}, AresSend(c)
  PROVE  TypeOK'
<1>0. issued < MaxQueries /\ issued' = issued + 1 /\ cur' = issued + 1
  BY DEF AresSend
<1>1. issued + 1 \in Query /\ issued' = issued + 1 /\ cur' = issued + 1 /\ issued' \in 0 .. MaxQueries
  BY <1>0, QueriesAssumption DEF TypeOK, Query
<1>2. Rotated \in Server
  BY ServersAssumption DEF Rotated, TypeOK, Server
<1>3. qry' \in [Query -> QueryRecord] /\ calls' \in [Query -> Nat] /\ live' \subseteq Query
        /\ lastServer' \in Server
  <2>1. CASE \E status \in {"EBADQUERY", "ENOMEM"} :
               /\ qry' = [qry EXCEPT ![issued + 1] = [FreshQuery EXCEPT
                       !.pc = "callback", !.caller = c, !.result = status]]
               /\ calls' = [calls EXCEPT ![issued + 1] = @ + 1]
               /\ UNCHANGED <<live, lastServer>>
    <3>1. PICK r \in QueryRecord : qry' = [qry EXCEPT ![issued + 1] = r]
      BY <2>1, FreshQueryType DEF QueryRecord, Status
    <3>. QED
      BY <1>1, <2>1, <3>1 DEF TypeOK
  <2>2. CASE \E large \in BOOLEAN :
               /\ qry' = [qry EXCEPT ![issued + 1] = [FreshQuery EXCEPT
                       !.pc = "send", !.caller = c, !.server = lastServer,
                       !.usingTcp = UseVc \/ large]]
               /\ lastServer' = Rotated
               /\ live' = live \cup {issued + 1}
               /\ UNCHANGED calls
    <3>1. PICK r \in QueryRecord : qry' = [qry EXCEPT ![issued + 1] = r]
      BY <2>2, FreshQueryType DEF QueryRecord, TypeOK
    <3>. QED
      BY <1>1, <1>2, <2>2, <3>1 DEF TypeOK
  <2>. QED
    BY <2>1, <2>2 DEF AresSend
<1>. QED
  BY <1>1, <1>3 DEF AresSend, TypeOK, ctlVars

LEMMA UpdatedQuery ==
  ASSUME TypeOK, NEW q \in Query, NEW r \in QueryRecord
  PROVE  [qry EXCEPT ![q] = r] \in [Query -> QueryRecord]
BY DEF TypeOK

LEMMA GiveUpServerType ==
  ASSUME TypeOK, NEW q \in Query, GiveUpServer(q)
  PROVE  qry' \in [Query -> QueryRecord]
<1>0. qry[q] \in QueryRecord
  BY DEF TypeOK
<1>1. SkipServer(qry[q].skip, qry[q].server) \in SUBSET Server /\ qry[q].sends + 1 \in Nat
  BY <1>0 DEF QueryRecord, SkipServer
<1>2. \A n \in Nat, k \in SUBSET Server :
        [qry[q] EXCEPT !.pc = "next", !.sends = n, !.skip = k] \in QueryRecord
  BY <1>0 DEF QueryRecord
<1>3. [qry[q] EXCEPT !.pc = "next", !.sends = @ + 1, !.skip = SkipServer(@, qry[q].server)]
        \in QueryRecord
  BY <1>1, <1>2
<1>4. qry' = [qry EXCEPT ![q] = [qry[q] EXCEPT !.pc = "next", !.sends = @ + 1,
                                           !.skip = SkipServer(@, qry[q].server)]]
  BY DEF GiveUpServer
<1>. QED
  BY ONLY <1>3, <1>4, UpdatedQuery, TypeOK, q \in Query

LEMMA TcpReadyType ==
  ASSUME TypeOK, NEW s \in Server
  PROVE  /\ TcpReady(srv[s]) \in ServerRecord
         /\ TakeGeneration(srv[s]) => chanGen' \in Nat
<1>1. TcpReady(srv[s]) \in ServerRecord
  <2>1. PICK g \in Nat : g = chanGen + 1
    BY DEF TypeOK
  <2>2. [srv[s] EXCEPT !.tcp = TRUE, !.gen = g] \in ServerRecord
    BY DEF TypeOK, ServerRecord
  <2>. QED
    BY <2>1, <2>2 DEF TcpReady, TypeOK
<1>2. TakeGeneration(srv[s]) => chanGen' \in Nat
  BY DEF TakeGeneration, TypeOK
<1>. QED
  BY <1>1, <1>2

LEMMA MovedType ==
  ASSUME TypeOK, NEW q \in Query, NEW s \in Server, NEW sv \in ServerRecord
  PROVE  Moved(q, s, sv) \in [Server -> ServerRecord]
<1>1. ASSUME NEW r \in Server
      PROVE  /\ [sv EXCEPT !.clients = @ \cup {q}] \in ServerRecord
             /\ [srv[r] EXCEPT !.clients = @ \ {q}] \in ServerRecord
  BY DEF TypeOK, ServerRecord
<1>. QED
  BY <1>1 DEF Moved

LEMMA RegisteredType ==
  ASSUME TypeOK, NEW q \in Query, NEW s \in Server, Registered(q, s),
         srv' \in [Server -> ServerRecord]
  PROVE  qry' \in [Query -> QueryRecord] /\ cur' \in Query \cup {NoQuery}
<1>0. qry[q] \in QueryRecord /\ srv'[s] \in ServerRecord
  BY DEF TypeOK
<1>1. (IF qry[q].usingTcp THEN [qry[q].gen EXCEPT ![s] = srv'[s].gen] ELSE qry[q].gen)
        \in [Server -> Nat]
  BY <1>0 DEF QueryRecord, ServerRecord
<1>2. qry[q].sends + 1 \in Nat
  BY <1>0 DEF QueryRecord
<1>3. \A n \in Nat, g \in [Server -> Nat] :
        [qry[q] EXCEPT !.pc = "rest", !.armed = TRUE, !.sends = n, !.caller = NoQuery,
                       !.gen = g] \in QueryRecord
  BY <1>0 DEF QueryRecord
<1>4. [qry[q] EXCEPT !.pc = "rest", !.armed = TRUE, !.sends = @ + 1, !.caller = NoQuery,
         !.gen = IF qry[q].usingTcp THEN [@ EXCEPT ![s] = srv'[s].gen] ELSE @] \in QueryRecord
  BY <1>1, <1>2, <1>3
<1>5. cur' \in Query \cup {NoQuery}
  BY <1>0 DEF Registered, QueryRecord
<1>6. qry' = [qry EXCEPT ![q] =
         [qry[q] EXCEPT !.pc = "rest", !.armed = TRUE, !.sends = @ + 1, !.caller = NoQuery,
            !.gen = IF qry[q].usingTcp THEN [@ EXCEPT ![s] = srv'[s].gen] ELSE @]]
  BY DEF Registered
<1>. QED
  BY ONLY <1>4, <1>5, <1>6, UpdatedQuery, TypeOK, q \in Query

LEMMA QueryStepType ==
  ASSUME TypeOK, NEW q \in Query,
         \/ OpenFails(q) \/ SendTcp(q) \/ SendTcpNoMemory(q) \/ SendUdp(q)
         \/ SendUdpFails(q) \/ NextServer(q) \/ EndQuery(q) \/ CallbackReturns(q)
  PROVE  TypeOK'
<1>. DEFINE s == qry[q].server
<1>0. qry[q] \in QueryRecord /\ s \in Server /\ srv[s] \in ServerRecord
  BY DEF TypeOK, QueryRecord
<1>. USE DEF chanVars, ctlVars
<1>1. ASSUME OpenFails(q) PROVE TypeOK'
  BY <1>1, GiveUpServerType DEF OpenFails, TypeOK
<1>2. ASSUME SendTcp(q) PROVE TypeOK'
  <2>1. [owner |-> q, of |-> q, data |-> "tcpbuf"] \in Request
    BY DEF Request
  <2>2. ASSUME NEW sv \in ServerRecord
        PROVE  [sv EXCEPT !.queue = Append(@, [owner |-> q, of |-> q, data |-> "tcpbuf"])]
                 \in ServerRecord
    <3>1. Append(sv.queue, [owner |-> q, of |-> q, data |-> "tcpbuf"]) \in Seq(Request)
      BY <2>1, AppendProperties DEF ServerRecord
    <3>2. \A queue \in Seq(Request) : [sv EXCEPT !.queue = queue] \in ServerRecord
      BY DEF ServerRecord
    <3>. QED
      BY <3>1, <3>2
  <2>3. srv' \in [Server -> ServerRecord] /\ chanGen' \in Nat
    BY <1>0, <1>2, <2>2, TcpReadyType, MovedType DEF SendTcp
  <2>4. qry' \in [Query -> QueryRecord] /\ cur' \in Query \cup {NoQuery}
    BY <1>0, <1>2, <2>3, RegisteredType DEF SendTcp
  <2>. QED
    BY <1>2, <2>3, <2>4 DEF SendTcp, TypeOK
<1>3. ASSUME SendTcpNoMemory(q) PROVE TypeOK'
  <2>1. srv' \in [Server -> ServerRecord] /\ chanGen' \in Nat
    BY <1>0, <1>3, TcpReadyType DEF SendTcpNoMemory, TypeOK
  <2>2. [qry[q] EXCEPT !.pc = "end", !.result = "ENOMEM"] \in QueryRecord
    BY <1>0 DEF QueryRecord, Status
  <2>3. qry' = [qry EXCEPT ![q] = [qry[q] EXCEPT !.pc = "end", !.result = "ENOMEM"]]
    BY <1>3 DEF SendTcpNoMemory
  <2>. QED
    BY <1>3, <2>1, <2>2, <2>3 DEF SendTcpNoMemory, TypeOK
<1>4. ASSUME SendUdp(q) PROVE TypeOK'
  <2>1. [srv[s] EXCEPT !.udp = TRUE, !.udpAsked = @ \cup {q}] \in ServerRecord
    BY <1>0 DEF ServerRecord
  <2>2. srv' \in [Server -> ServerRecord]
    BY <1>0, <1>4, <2>1, MovedType DEF SendUdp
  <2>3. qry' \in [Query -> QueryRecord] /\ cur' \in Query \cup {NoQuery}
    BY <1>0, <1>4, <2>2, RegisteredType DEF SendUdp
  <2>. QED
    BY <1>4, <2>2, <2>3 DEF SendUdp, TypeOK
<1>5. ASSUME SendUdpFails(q) PROVE TypeOK'
  <2>1. srv' \in [Server -> ServerRecord]
    BY <1>0, <1>5 DEF SendUdpFails, TypeOK, ServerRecord
  <2>. QED
    BY <1>5, <2>1, GiveUpServerType DEF SendUdpFails, TypeOK
<1>6. ASSUME NextServer(q) PROVE TypeOK'
  <2>0. qry[q].tryCount + 1 \in Nat /\ s + 1 \in Nat
    BY <1>0 DEF Server, QueryRecord
  <2>1. (s + 1) % NServers \in Server /\ qry[q].tryCount + 1 \in Nat
    BY <2>0, ServerStep
  <2>2. \A r \in Server, t \in Nat, p \in {"send", "next"} :
          /\ [qry[q] EXCEPT !.tryCount = t, !.pc = "end", !.result = qry[q].error] \in QueryRecord
          /\ [qry[q] EXCEPT !.tryCount = t, !.server = r, !.pc = p] \in QueryRecord
    BY <1>0 DEF QueryRecord
  <2>3. PICK r \in QueryRecord : qry' = [qry EXCEPT ![q] = r]
    BY <1>6, <2>1, <2>2 DEF NextServer
  <2>. QED
    BY <1>6, <2>3 DEF NextServer, TypeOK
<1>7. ASSUME EndQuery(q) PROVE TypeOK'
  <2>1. ASSUME NEW copied \in SUBSET Server, NEW r \in Server
        PROVE  [srv[r] EXCEPT
                  !.queue = [i \in DOMAIN srv[r].queue |->
                               Disowned(srv[r].queue[i], q, r \in copied)],
                  !.broken = @ \/ (r \notin copied /\ HasRequest(srv[r], q))] \in ServerRecord
    <3>1. srv[r] \in ServerRecord /\ srv[r].queue \in Seq(Request)
      BY DEF TypeOK, ServerRecord
    <3>2. [i \in DOMAIN srv[r].queue |-> Disowned(srv[r].queue[i], q, r \in copied)]
            \in Seq(Request)
      <4>1. CASE r \in copied
        BY <3>1, <4>1, DisownedQueue DEF Disowned
      <4>2. CASE r \notin copied
        BY <3>1, <4>2, DisownedQueue DEF Disowned
      <4>. QED
        BY <4>1, <4>2
    <3>3. \A queue \in Seq(Request), b \in BOOLEAN :
            [srv[r] EXCEPT !.queue = queue, !.broken = b] \in ServerRecord
      BY <3>1 DEF ServerRecord
    <3>. QED
      BY <3>2, <3>3
  <2>2. srv' \in [Server -> ServerRecord]
    BY <1>7, <2>1 DEF EndQuery
  <2>3. [qry[q] EXCEPT !.pc = "callback"] \in QueryRecord
    BY <1>0 DEF QueryRecord
  <2>. QED
    <3>1. qry' \in [Query -> QueryRecord] /\ calls' \in [Query -> Nat]
      <4>1. qry' = [qry EXCEPT ![q] = [qry[q] EXCEPT !.pc = "callback"]]
        BY <1>7 DEF EndQuery
      <4>2. calls' = [calls EXCEPT ![q] = @ + 1]
        BY <1>7 DEF EndQuery
      <4>. QED
        BY <2>3, <4>1, <4>2, UpdatedQuery DEF TypeOK
    <3>2. UNCHANGED <<issued, live, lastServer, chanGen, phase, at, reading, todo, err, cur>>
      BY <1>7 DEF EndQuery
    <3>. QED
      BY <2>2, <3>1, <3>2 DEF TypeOK
<1>8. ASSUME CallbackReturns(q) PROVE TypeOK'
  <2>1. [FreshQuery EXCEPT !.pc = "done", !.result = qry[q].result, !.sends = qry[q].sends]
          \in QueryRecord
    BY <1>0, FreshQueryType DEF QueryRecord
  <2>2. srv' \in [Server -> ServerRecord] /\ chanGen' \in Nat
    BY <1>8, CloseAllType, ReleasedType DEF CallbackReturns, TypeOK
  <2>3. cur' \in Query \cup {NoQuery}
    BY <1>0, <1>8 DEF CallbackReturns, QueryRecord
  <2>. QED
    BY <1>8, <2>1, <2>2, <2>3 DEF CallbackReturns, TypeOK
<1>. QED
  BY <1>1, <1>2, <1>3, <1>4, <1>5, <1>6, <1>7, <1>8

LEMMA HandleErrorType ==
  ASSUME TypeOK, NEW s \in Server, HandleError(s), at \in Server
  PROVE  TypeOK'
<1>1. srv[s] \in ServerRecord /\ chanGen + 1 \in Nat /\ at + 1 \in 0 .. NServers
  BY ServersAssumption DEF TypeOK, Server
<1>2. [Closed(srv[s], chanGen + 1) EXCEPT !.clients = {}] \in ServerRecord
  <2>1. Closed(srv[s], chanGen + 1) \in ServerRecord
    BY <1>1, ClosedType
  <2>. QED
    BY <2>1 DEF ServerRecord
<1>3. srv' \in [Server -> ServerRecord] /\ chanGen' \in Nat
  BY <1>1, <1>2 DEF HandleError, TypeOK
<1>4. todo' \subseteq Query /\ err' \in Server \cup {NoServer}
  BY <1>1 DEF HandleError, ServerRecord
<1>. QED
  BY <1>1, <1>3, <1>4 DEF HandleError, TypeOK

LEMMA TurnIndex ==
  ASSUME TypeOK, at < NServers
  PROVE  at \in Server /\ at + 1 \in 0 .. NServers
BY ServersAssumption DEF TypeOK, Server

LEMMA ProcessAnswerType ==
  ASSUME TypeOK, NEW q \in Query, NEW s \in Server, NEW tcp, NEW kind, ProcessAnswer(q, s, tcp, kind)
  PROVE  qry' \in [Query -> QueryRecord] /\ cur' \in Query \cup {NoQuery}
<1>0. qry[q] \in QueryRecord
  BY DEF TypeOK
<1>1. SkipServer(qry[q].skip, s) \in SUBSET Server
  BY <1>0 DEF QueryRecord, SkipServer
<1>. DEFINE skipped == [qry[q] EXCEPT !.skip = SkipServer(@, s)]
<1>3. skipped \in QueryRecord
  <2>1. \A k \in SUBSET Server : [qry[q] EXCEPT !.skip = k] \in QueryRecord
    BY <1>0 DEF QueryRecord
  <2>. QED
    BY <1>1, <2>1
<1>4. /\ [qry[q] EXCEPT !.usingTcp = TRUE, !.pc = "send"] \in QueryRecord
      /\ [skipped EXCEPT !.pc = "next"] \in QueryRecord
      /\ [qry[q] EXCEPT !.pc = "end", !.result = "SUCCESS"] \in QueryRecord
  <2>1. \A r \in QueryRecord :
          /\ [r EXCEPT !.usingTcp = TRUE, !.pc = "send"] \in QueryRecord
          /\ [r EXCEPT !.pc = "next"] \in QueryRecord
          /\ [r EXCEPT !.pc = "end", !.result = "SUCCESS"] \in QueryRecord
    <3>1. ASSUME NEW r \in QueryRecord, NEW p \in {"send", "next", "end"}
          PROVE  [r EXCEPT !.pc = p] \in QueryRecord
      BY DEF QueryRecord
    <3>2. ASSUME NEW r \in QueryRecord
          PROVE  [r EXCEPT !.usingTcp = TRUE, !.pc = "send"] \in QueryRecord
      BY DEF QueryRecord
    <3>3. ASSUME NEW r \in QueryRecord
          PROVE  [r EXCEPT !.pc = "end", !.result = "SUCCESS"] \in QueryRecord
      BY DEF QueryRecord, Status
    <3>. QED
      BY <3>1, <3>2, <3>3
  <2>. QED
    BY <1>0, <1>3, <2>1
<1>5. qry' = qry \/ \E r \in QueryRecord : qry' = [qry EXCEPT ![q] = r]
  BY <1>3, <1>4 DEF ProcessAnswer
<1>6. cur' \in {q, cur}
  BY DEF ProcessAnswer
<1>. QED
  BY <1>5, <1>6 DEF TypeOK

\* While queries are being moved on, handle_error works on a server.  The type
\* invariant needs it: skip_server marks that server.
StolenFromServer == Stolen # {} => err \in Server

LEMMA ProcessStepType ==
  ASSUME TypeOK, StolenFromServer, ProcessStep
  PROVE  TypeOK'
<1>. USE DEF chanVars, ctlVars
<1>1. ASSUME BeginProcess PROVE TypeOK'
  BY <1>1, ServersAssumption DEF BeginProcess, TypeOK, Phase
<1>2. ASSUME Advance PROVE TypeOK'
  BY <1>2, TurnIndex DEF Advance, TypeOK
<1>3. ASSUME EndLoop PROVE TypeOK'
  BY <1>3, ServersAssumption DEF EndLoop, TypeOK, Phase
<1>4. ASSUME MoveOn PROVE TypeOK'
  <2>1. PICK q \in todo : /\ qry' = [qry EXCEPT ![q].pc = "next", ![q].skip = SkipServer(@, err)]
                          /\ todo' = todo \ {q}
                          /\ cur' = q
    BY <1>4 DEF MoveOn
  <2>2. q \in Query /\ qry[q] \in QueryRecord
    BY <1>4 DEF TypeOK
  <2>3. SkipServer(qry[q].skip, err) \in SUBSET Server
    BY <1>4, <2>2 DEF MoveOn, StolenFromServer, Stolen, SkipServer, QueryRecord
  <2>4. qry' = [qry EXCEPT ![q] = [qry[q] EXCEPT !.pc = "next", !.skip = SkipServer(qry[q].skip, err)]]
    BY <2>1
  <2>5. [qry[q] EXCEPT !.pc = "next", !.skip = SkipServer(qry[q].skip, err)] \in QueryRecord
    BY <2>2, <2>3 DEF QueryRecord
  <2>6. qry' \in [Query -> QueryRecord]
    BY <2>2, <2>4, <2>5, UpdatedQuery
  <2>. QED
    BY <1>4, <2>1, <2>2, <2>6 DEF MoveOn, TypeOK
<1>5. ASSUME WriteTcp PROVE TypeOK'
  <2>1. at \in Server /\ at + 1 \in 0 .. NServers /\ srv[at] \in ServerRecord
    BY <1>5, TurnIndex DEF WriteTcp, ServerTurn, TypeOK
  <2>2. PICK n \in 1 .. Len(srv[at].queue) :
          srv' = [srv EXCEPT ![at] = [srv[at] EXCEPT
                   !.queue = Unwritten(@, n),
                   !.tcpAsked = @ \cup ({srv[at].queue[i].owner : i \in 1 .. n} \cap live)]]
    BY <1>5 DEF WriteTcp
  <2>3. Unwritten(srv[at].queue, n) \in Seq(Request)
    BY <2>1, UnwrittenQueue DEF ServerRecord
  <2>4. \A k \in Seq(Request), a \in SUBSET Query :
          [srv[at] EXCEPT !.queue = k, !.tcpAsked = a] \in ServerRecord
    BY <2>1 DEF ServerRecord
  <2>5. srv[at].tcpAsked \cup ({srv[at].queue[i].owner : i \in 1 .. n} \cap live) \in SUBSET Query
    BY <2>1 DEF TypeOK, ServerRecord
  <2>6. srv' \in [Server -> ServerRecord]
    BY <2>1, <2>2, <2>3, <2>4, <2>5 DEF TypeOK
  <2>. QED
    BY <1>5, <2>1, <2>6 DEF WriteTcp, TypeOK
<1>6. ASSUME WriteTcpFails \/ ReadTcpFails \/ ReadUdpFails \/ CloseBroken PROVE TypeOK'
  <2>1. HandleError(at) /\ at < NServers
    BY <1>6 DEF WriteTcpFails, ReadTcpFails, ReadUdpFails, CloseBroken, UdpTurn, ServerTurn
  <2>. QED
    BY <2>1, TurnIndex, HandleErrorType
<1>7. ASSUME ReadTcpAnswer PROVE TypeOK'
  <2>1. at \in Server /\ at + 1 \in 0 .. NServers /\ srv[at] \in ServerRecord
    BY <1>7, TurnIndex DEF ReadTcpAnswer, ServerTurn, TypeOK
  <2>2. qry' \in [Query -> QueryRecord] /\ cur' \in Query \cup {NoQuery}
    <3>1. PICK q \in srv[at].tcpAsked, kind \in {"ok", "servfail"} : ProcessAnswer(q, at, TRUE, kind)
      BY <1>7 DEF ReadTcpAnswer
    <3>2. q \in Query
      BY <2>1 DEF ServerRecord
    <3>. QED
      BY <2>1, <3>1, <3>2, ProcessAnswerType
  <2>. QED
    BY <1>7, <2>1, <2>2 DEF ReadTcpAnswer, TypeOK
<1>8. ASSUME ReadUdpAnswer PROVE TypeOK'
  <2>1. at \in Server /\ srv[at] \in ServerRecord
    BY <1>8, TurnIndex DEF ReadUdpAnswer, UdpTurn, ServerTurn, TypeOK
  <2>2. qry' \in [Query -> QueryRecord] /\ cur' \in Query \cup {NoQuery}
    <3>1. PICK q \in srv[at].udpAsked, kind \in {"ok", "servfail", "truncated"} :
            ProcessAnswer(q, at, FALSE, kind)
      BY <1>8 DEF ReadUdpAnswer
    <3>2. q \in Query
      BY <2>1 DEF ServerRecord
    <3>. QED
      BY <2>1, <3>1, <3>2, ProcessAnswerType
  <2>. QED
    BY <1>8, <2>2 DEF ReadUdpAnswer, TypeOK
<1>9. ASSUME NEW late \in SUBSET Query, BeginTimeouts(late) PROVE TypeOK'
  BY <1>9 DEF BeginTimeouts, TypeOK, Phase
<1>10. ASSUME Timeout PROVE TypeOK'
  <2>1. PICK q \in todo : /\ qry' = [qry EXCEPT ![q].pc = "next", ![q].error = "ETIMEOUT"]
                          /\ todo' = todo \ {q}
                          /\ cur' = q
    BY <1>10 DEF Timeout
  <2>2. q \in Query /\ qry[q] \in QueryRecord
    BY DEF TypeOK
  <2>3. [qry[q] EXCEPT !.pc = "next", !.error = "ETIMEOUT"] \in QueryRecord
    BY <2>2 DEF QueryRecord, Status
  <2>4. qry' = [qry EXCEPT ![q] = [qry[q] EXCEPT !.pc = "next", !.error = "ETIMEOUT"]]
    BY <2>1
  <2>5. qry' \in [Query -> QueryRecord]
    BY <2>2, <2>3, <2>4, UpdatedQuery
  <2>. QED
    BY <1>10, <2>1, <2>2, <2>5 DEF Timeout, TypeOK
<1>11. ASSUME EndTimeouts PROVE TypeOK'
  BY <1>11, ServersAssumption DEF EndTimeouts, TypeOK, Phase
<1>. QED
  BY <1>1, <1>2, <1>3, <1>4, <1>5, <1>6, <1>7, <1>8, <1>9, <1>10, <1>11 DEF ProcessStep

LEMMA SweepStepType ==
  ASSUME TypeOK, SweepStep
  PROVE  TypeOK'
<1>. USE DEF chanVars
<1>1. ASSUME NEW kind \in {"cancel", "destroy"}, BeginSweep(kind) PROVE TypeOK'
  BY <1>1 DEF BeginSweep, Following, TypeOK, Phase
<1>2. ASSUME SweepQuery PROVE TypeOK'
  <2>1. PICK q \in todo :
          /\ todo' = Following(q)
          /\ qry' = [qry EXCEPT ![q].pc = "callback", ![q].caller = NoQuery,
                       ![q].result = IF phase = "cancel" THEN "ECANCELLED" ELSE "EDESTRUCTION"]
          /\ calls' = [calls EXCEPT ![q] = @ + 1]
          /\ cur' = q
    BY <1>2 DEF SweepQuery
  <2>2. q \in Query /\ qry[q] \in QueryRecord
    BY DEF TypeOK
  <2>3. PICK e \in Status : qry' = [qry EXCEPT ![q] = [qry[q] EXCEPT !.pc = "callback",
                                                        !.caller = NoQuery, !.result = e]]
    BY <2>1 DEF Status
  <2>4. [qry[q] EXCEPT !.pc = "callback", !.caller = NoQuery, !.result = e] \in QueryRecord
    BY <2>2 DEF QueryRecord
  <2>5. qry' \in [Query -> QueryRecord]
    BY <2>2, <2>3, <2>4, UpdatedQuery
  <2>6. calls' \in [Query -> Nat] /\ todo' \subseteq Query
    BY <2>1, <2>2 DEF TypeOK, Following
  <2>. QED
    BY <1>2, <2>1, <2>2, <2>5, <2>6 DEF SweepQuery, TypeOK
<1>3. ASSUME EndSweep PROVE TypeOK'
  <2>1. srv' \in [Server -> ServerRecord] /\ chanGen' \in Nat
    BY <1>3, CloseAllType DEF EndSweep, TypeOK
  <2>2. phase' \in Phase
    BY <1>3 DEF EndSweep, Phase
  <2>. QED
    BY <1>3, <2>1, <2>2 DEF EndSweep, TypeOK
<1>. QED
  BY <1>1, <1>2, <1>3 DEF SweepStep

LEMMA NextType ==
  ASSUME TypeOK, StolenFromServer, [Next]_vars
  PROVE  TypeOK'
<1>1. CASE Send
  BY <1>1, SendType DEF Send
<1>2. CASE QueryStep
  <2>1. PICK q \in Query :
          \/ OpenFails(q) \/ SendTcp(q) \/ SendTcpNoMemory(q) \/ SendUdp(q) \/ SendUdpFails(q)
          \/ NextServer(q)
          \/ EndQuery(q) \/ CallbackSends(q) \/ CallbackReturns(q)
    BY <1>2 DEF QueryStep
  <2>2. CASE CallbackSends(q)
    BY <2>2, SendType DEF CallbackSends
  <2>. QED
    BY <2>1, <2>2, QueryStepType
<1>3. CASE ProcessStep
  BY <1>3, ProcessStepType
<1>4. CASE SweepStep
  BY <1>4, SweepStepType
<1>5. CASE UNCHANGED vars
  BY <1>5 DEF vars, TypeOK
<1>. QED
  BY <1>1, <1>2, <1>3, <1>4, <1>5 DEF Next

\* Only handle_error fills the list of stolen queries, and it is empty before
\* the phase changes.
LEMMA NextStolen ==
  ASSUME TypeOK, StolenFromServer, [Next]_vars
  PROVE  StolenFromServer'
<1>. USE DEF StolenFromServer, Stolen
<1>1. ASSUME NEW c, AresSend(c) PROVE StolenFromServer'
  BY <1>1 DEF AresSend, ctlVars
<1>2. ASSUME QueryStep PROVE StolenFromServer'
  <2>1. CASE UNCHANGED ctlVars
    BY <2>1 DEF ctlVars
  <2>2. UNCHANGED ctlVars
    BY <1>2 DEF QueryStep, OpenFails, SendTcp, SendTcpNoMemory, SendUdp, SendUdpFails,
                NextServer, EndQuery, CallbackSends, AresSend, CallbackReturns
  <2>. QED
    BY <2>1, <2>2
<1>3. ASSUME ProcessStep PROVE StolenFromServer'
  <2>1. ASSUME at < NServers, HandleError(at) PROVE StolenFromServer'
    BY <2>1, TurnIndex DEF HandleError
  <2>2. ASSUME BeginProcess \/ EndLoop \/ EndTimeouts PROVE StolenFromServer'
    BY <2>2 DEF BeginProcess, EndLoop, EndTimeouts, LoopDone
  <2>3. ASSUME Advance \/ MoveOn \/ WriteTcp \/ ReadTcpAnswer \/ ReadUdpAnswer
        PROVE  StolenFromServer'
    BY <2>3 DEF Advance, MoveOn, WriteTcp, ReadTcpAnswer, ReadUdpAnswer
  <2>4. ASSUME (\E late \in SUBSET Query : BeginTimeouts(late)) \/ Timeout
        PROVE  StolenFromServer'
    BY <2>4 DEF BeginTimeouts, Timeout
  <2>. QED
    BY <1>3, <2>1, <2>2, <2>3, <2>4 DEF ProcessStep, WriteTcpFails, ReadTcpFails, ReadUdpFails,
                                        CloseBroken, UdpTurn, ServerTurn
<1>4. ASSUME SweepStep PROVE StolenFromServer'
  BY <1>4 DEF SweepStep, BeginSweep, SweepQuery, EndSweep, LoopDone
<1>5. CASE UNCHANGED vars
  BY <1>5 DEF vars
<1>. QED
  BY <1>1, <1>2, <1>3, <1>4, <1>5 DEF Next, Send

\* Every variable of the channel keeps its type, whatever the servers answer,
\* however often a callback asks the next question, and whatever fails.
THEOREM TypeCorrect == Spec => []TypeOK
<1>1. Init => TypeOK /\ StolenFromServer
  BY InitType DEF Init, StolenFromServer, Stolen
<1>2. TypeOK /\ StolenFromServer /\ [Next]_vars => (TypeOK /\ StolenFromServer)'
  BY NextType, NextStolen
<1>. QED
  BY <1>1, <1>2, PTL DEF Spec

-----------------------------------------------------------------------------
(***************************************************************************)
(* Callbacks.  The invariant InFlight ties the call stack, the lists of    *)
(* the channel and the nodes the loops have saved together; each lemma     *)
(* below is one way a step moves the query it works on.                    *)
(***************************************************************************)

HIDE DEF NoQuery, NoServer

Inv == TypeOK /\ StolenFromServer /\ InFlight

\* Only the record of query q changes.
OthersKeep(q) == \A p \in Query \ {q} : qry'[p] = qry[p]

\* No server gains a query in one of its sets.
NoServerGains ==
  \A s \in Server :
    /\ srv'[s].clients \subseteq srv[s].clients
    /\ srv'[s].udpAsked \subseteq srv[s].udpAsked
    /\ srv'[s].tcpAsked \subseteq srv[s].tcpAsked

LEMMA QueryNumbers ==
  /\ NoQuery \notin Query /\ NoQuery \in Int
  /\ \A q \in Query : q \in Int /\ q > NoQuery
BY QueriesAssumption DEF Query, NoQuery

LEMMA NothingRuns ==
  ASSUME CallStack, cur = NoQuery
  PROVE  Active = {}
<1>1. \A q \in Active : q \in Query /\ q <= NoQuery
  BY DEF CallStack, Active
<1>. QED
  BY <1>1, QueryNumbers

LEMMA InitInFlight == Init => InFlight
<1>. SUFFICES ASSUME Init PROVE InFlight
  OBVIOUS
<1>1. \A q \in Query : qry[q].pc = "none" /\ calls[q] = 0
  BY DEF Init, FreshQuery
<1>2. CallStack
  BY <1>1 DEF CallStack, Active, Init
<1>3. LiveQueries
  BY <1>1 DEF LiveQueries, Init
<1>4. ServerLists
  BY DEF ServerLists, Init, ClosedServer
<1>5. SavedWait
  BY DEF SavedWait, Init
<1>6. CallbackOnce
  BY <1>1 DEF CallbackOnce
<1>. QED
  BY <1>2, <1>3, <1>4, <1>5, <1>6 DEF InFlight

-----------------------------------------------------------------------------
(* The query on top of the stack goes from one part of the engine to another *)

LEMMA KeepsRunning ==
  ASSUME TypeOK, InFlight, NEW q \in Query, cur = q, qry[q].pc \in {"send", "next", "end"},
         OthersKeep(q), NoServerGains,
         qry'[q].pc \in {"send", "next", "end"}, qry'[q].caller = qry[q].caller,
         UNCHANGED <<issued, live, phase, todo, err, cur, calls>>
  PROVE  InFlight'
<1>0. /\ qry[q].pc \notin {"none", "rest", "callback", "done"}
      /\ qry'[q].pc \notin {"none", "rest", "callback", "done"}
  OBVIOUS
<1>1. Active' = Active
  BY <1>0 DEF Active, OthersKeep
<1>2. CallStack'
  BY <1>1 DEF InFlight, CallStack, OthersKeep, Active
<1>3. LiveQueries'
  BY <1>0 DEF InFlight, LiveQueries, OthersKeep, TypeOK
<1>4. ServerLists'
  BY <1>0 DEF InFlight, ServerLists, OthersKeep, NoServerGains, TypeOK
<1>5. SavedWait'
  BY <1>0 DEF InFlight, SavedWait, OthersKeep, Stolen, TypeOK
<1>6. CallbackOnce'
  BY <1>0 DEF InFlight, CallbackOnce, OthersKeep, TypeOK
<1>. QED
  BY <1>2, <1>3, <1>4, <1>5, <1>6 DEF InFlight

\* The query on top of the stack leaves it.
LEMMA PopsStack ==
  ASSUME TypeOK, CallStack, NEW q \in Active, cur = q, OthersKeep(q),
         Active' = Active \ {q}, cur' = qry[q].caller
  PROVE  CallStack'
<1>0. \A p \in Active : p \in Query /\ p \in Int
  BY QueryNumbers DEF Active
<1>1. \A p \in Active' : p \in Active /\ p < q /\ qry'[p] = qry[p]
  BY <1>0 DEF CallStack, OthersKeep
<1>2. cur' \in Active' \cup {NoQuery} /\ \A p \in Active' : p <= cur'
  BY <1>0, <1>1 DEF CallStack
<1>3. ASSUME NEW p \in Active'
      PROVE  /\ qry'[p].caller \in Active' \cup {NoQuery}
             /\ qry'[p].caller < p
             /\ \A r \in Active' : r < p => r <= qry'[p].caller
  <2>1. p \in Active /\ p \in Int /\ p < q /\ qry'[p].caller = qry[p].caller
    BY <1>0, <1>1
  <2>2. /\ qry[p].caller \in Active \cup {NoQuery} /\ qry[p].caller < p
        /\ \A r \in Active : r < p => r <= qry[p].caller
    BY <2>1 DEF CallStack
  <2>3. qry[p].caller # q
    BY <2>1, <2>2, <1>0
  <2>. QED
    BY <2>1, <2>2, <2>3, <1>1
<1>. QED
  BY <1>2, <1>3 DEF CallStack

LEMMA ComesToRest ==
  ASSUME TypeOK, InFlight, NEW q \in Query, cur = q, qry[q].pc = "send",
         OthersKeep(q), qry'[q].pc = "rest", qry'[q].caller = NoQuery,
         qry'[q].server = qry[q].server, cur' = qry[q].caller,
         UNCHANGED <<issued, live, phase, todo, err, calls>>,
         \A s \in Server :
           /\ srv'[s].clients \subseteq srv[s].clients \cup {q}
           /\ s # qry[q].server => q \notin srv'[s].clients
           /\ srv'[s].udpAsked \subseteq srv[s].udpAsked \cup {q}
           /\ srv'[s].tcpAsked \subseteq srv[s].tcpAsked
  PROVE  InFlight'
<1>0. /\ qry[q].pc \notin {"none", "rest", "callback", "done"} /\ q \in live /\ q \in Active
      /\ qry'[q].pc \notin {"none", "send", "next", "end", "callback", "done"}
  BY DEF InFlight, LiveQueries, Active
<1>1. Active' = Active \ {q}
  BY <1>0 DEF Active, OthersKeep
<1>2. CallStack'
  BY <1>0, <1>1, PopsStack DEF InFlight
<1>3. LiveQueries'
  BY <1>0 DEF InFlight, LiveQueries, OthersKeep, TypeOK
<1>4. ServerLists'
  BY <1>0 DEF InFlight, ServerLists, OthersKeep, TypeOK
<1>5. SavedWait'
  BY <1>0 DEF InFlight, SavedWait, OthersKeep, Stolen, TypeOK
<1>6. CallbackOnce'
  BY <1>0 DEF InFlight, CallbackOnce, OthersKeep, TypeOK
<1>. QED
  BY <1>2, <1>3, <1>4, <1>5, <1>6 DEF InFlight

LEMMA CallsBack ==
  ASSUME TypeOK, InFlight, NEW q \in Query, cur = q, qry[q].pc = "end",
         OthersKeep(q), NoServerGains,
         qry'[q].pc = "callback", qry'[q].caller = qry[q].caller,
         calls' = [calls EXCEPT ![q] = @ + 1],
         UNCHANGED <<issued, live, phase, todo, err, cur>>
  PROVE  InFlight'
<1>0. /\ qry[q].pc \notin {"none", "rest", "callback", "done"}
      /\ qry'[q].pc \notin {"none", "send", "next", "rest", "end", "done"}
  OBVIOUS
<1>1. Active' = Active
  BY <1>0 DEF Active, OthersKeep
<1>2. CallStack'
  BY <1>1 DEF InFlight, CallStack, OthersKeep, Active
<1>3. LiveQueries'
  BY <1>0 DEF InFlight, LiveQueries, OthersKeep, TypeOK
<1>4. ServerLists'
  BY <1>0 DEF InFlight, ServerLists, OthersKeep, NoServerGains, TypeOK
<1>5. SavedWait'
  BY <1>0 DEF InFlight, SavedWait, OthersKeep, Stolen, TypeOK
<1>6. CallbackOnce'
  BY <1>0 DEF InFlight, CallbackOnce, OthersKeep, TypeOK
<1>. QED
  BY <1>2, <1>3, <1>4, <1>5, <1>6 DEF InFlight

LEMMA Returns ==
  ASSUME TypeOK, InFlight, NEW q \in Query, cur = q, qry[q].pc = "callback",
         OthersKeep(q), NoServerGains, qry'[q].pc = "done",
         live' = live \ {q}, cur' = qry[q].caller,
         \A s \in Server : q \notin srv'[s].clients \cup srv'[s].udpAsked \cup srv'[s].tcpAsked,
         UNCHANGED <<issued, phase, todo, err, calls>>
  PROVE  InFlight'
<1>0. /\ qry[q].pc \notin {"none", "rest", "send", "next", "end", "done"} /\ q \in Active
      /\ qry'[q].pc \notin {"none", "send", "next", "rest", "end", "callback"}
  BY DEF Active
<1>1. Active' = Active \ {q}
  BY <1>0 DEF Active, OthersKeep
<1>2. CallStack'
  BY <1>0, <1>1, PopsStack DEF InFlight
<1>3. LiveQueries'
  BY <1>0 DEF InFlight, LiveQueries, OthersKeep, TypeOK
<1>4. ServerLists'
  BY <1>0 DEF InFlight, ServerLists, OthersKeep, NoServerGains, TypeOK
<1>5. SavedWait'
  BY <1>0 DEF InFlight, SavedWait, OthersKeep, Stolen, TypeOK
<1>6. CallbackOnce'
  BY <1>0 DEF InFlight, CallbackOnce, OthersKeep, TypeOK
<1>. QED
  BY <1>2, <1>3, <1>4, <1>5, <1>6 DEF InFlight

\* A loop or an answer picks a waiting query up; nothing else was running.
\* The saved nodes of the loop are then those of other waiting queries.
LEMMA PicksUp ==
  ASSUME TypeOK, InFlight, NEW q \in live, cur = NoQuery, cur' = q,
         OthersKeep(q), qry'[q].pc \in {"send", "next", "end", "callback"},
         qry'[q].caller = NoQuery,
         calls' = [p \in Query |-> IF p = q /\ qry'[q].pc = "callback" THEN calls[p] + 1 ELSE calls[p]],
         q \notin todo', todo' \subseteq live, Stolen' \subseteq Stolen,
         UNCHANGED <<issued, live, srv, phase, err>>
  PROVE  InFlight'
<1>0. q \in Query /\ qry[q].pc = "rest" /\ Active = {}
  <2>1. Active = {}
    BY NothingRuns DEF InFlight
  <2>2. q \in Query /\ qry[q] \in QueryRecord /\ qry[q].pc \notin {"none", "done"}
    BY DEF TypeOK, InFlight, LiveQueries
  <2>. QED
    BY <2>1, <2>2 DEF Active, QueryRecord
<1>1. /\ qry[q].pc \notin {"none", "send", "next", "end", "callback", "done"}
      /\ qry'[q].pc \notin {"none", "rest", "done"}
      /\ \A p \in live : qry[p].pc = "rest"
  BY <1>0 DEF InFlight, LiveQueries, Active, TypeOK, QueryRecord
<1>2. Active' = {q}
  BY <1>0, <1>1 DEF Active, OthersKeep
<1>3. CallStack'
  <2>1. q > NoQuery /\ q \in Int /\ NoQuery \in Int
    BY <1>0, QueryNumbers
  <2>2. cur' \in Active' \cup {NoQuery}
    BY <1>2
  <2>3. ASSUME NEW p \in Active'
        PROVE  /\ p <= cur' /\ qry'[p].caller = NoQuery /\ NoQuery < p
               /\ \A r \in Active' : r < p => r <= NoQuery
    BY <1>2, <2>1
  <2>. QED
    BY <2>2, <2>3 DEF CallStack
<1>4. LiveQueries'
  BY <1>0, <1>1 DEF InFlight, LiveQueries, OthersKeep, TypeOK
<1>5. ServerLists'
  BY <1>0, <1>1 DEF InFlight, ServerLists, OthersKeep, TypeOK
<1>6. SavedWait'
  <2>1. ASSUME NEW p \in todo' PROVE p \in Query \ {q} /\ qry'[p] = qry[p] /\ qry[p].pc = "rest"
    BY <1>1, <2>1 DEF OthersKeep, TypeOK
  <2>2. ASSUME NEW p \in Stolen' PROVE p \in todo /\ p \in Stolen /\ p \in todo'
    BY <2>2 DEF Stolen
  <2>. QED
    BY <2>1, <2>2 DEF InFlight, SavedWait
<1>7. CallbackOnce'
  BY <1>0, <1>1 DEF InFlight, CallbackOnce, OthersKeep, TypeOK
<1>. QED
  BY <1>3, <1>4, <1>5, <1>6, <1>7 DEF InFlight

\* Control moves on in the loops of the library; no query does.
LEMMA MovesNothing ==
  ASSUME TypeOK, InFlight,
         \A q \in Query : /\ qry'[q].pc = qry[q].pc
                          /\ qry'[q].caller = qry[q].caller
                          /\ qry'[q].server = qry[q].server,
         \A s \in Server :
           /\ srv'[s].clients \subseteq srv[s].clients
           /\ srv'[s].udpAsked \cup srv'[s].tcpAsked \subseteq live,
         UNCHANGED <<issued, live, cur, calls>>,
         todo' \subseteq live, \A q \in todo' : qry[q].pc = "rest",
         \A q \in Stolen' : qry[q].server = err'
  PROVE  InFlight'
<1>1. Active' = Active
  BY DEF Active
<1>2. CallStack'
  BY <1>1 DEF InFlight, CallStack, Active
<1>3. LiveQueries'
  BY DEF InFlight, LiveQueries, TypeOK
<1>4. ServerLists'
  BY DEF InFlight, ServerLists, TypeOK
<1>5. SavedWait'
  BY DEF SavedWait, TypeOK
<1>6. CallbackOnce'
  BY DEF InFlight, CallbackOnce, TypeOK
<1>. QED
  BY <1>2, <1>3, <1>4, <1>5, <1>6 DEF InFlight

-----------------------------------------------------------------------------
(* The operations *)

\* A new query is the youngest of all and goes on top of the stack.
LEMMA SendInFlight ==
  ASSUME TypeOK, InFlight, NEW c, c = cur, AresSend(c)
  PROVE  InFlight'
<1>. DEFINE q == issued + 1
<1>0. /\ issued \in Int /\ q \in Query /\ issued' = q /\ cur' = q
      /\ UNCHANGED <<srv, phase, todo, err>>
  <2>1. issued < MaxQueries /\ issued' = issued + 1 /\ cur' = issued + 1
    BY DEF AresSend
  <2>2. UNCHANGED <<srv, phase, todo, err>>
    BY DEF AresSend, ctlVars
  <2>3. issued \in Int /\ issued + 1 \in 1 .. MaxQueries
    BY <2>1, QueriesAssumption DEF TypeOK
  <2>. QED
    BY <2>1, <2>2, <2>3 DEF Query
<1>1. /\ OthersKeep(q) /\ qry'[q].caller = c
      /\ \/ qry'[q].pc = "callback" /\ calls' = [calls EXCEPT ![q] = @ + 1] /\ live' = live
         \/ qry'[q].pc = "send" /\ calls' = calls /\ live' = live \cup {q}
  <2>1. CASE \E status \in {"EBADQUERY", "ENOMEM"} :
               /\ qry' = [qry EXCEPT ![q] = [FreshQuery EXCEPT
                       !.pc = "callback", !.caller = c, !.result = status]]
               /\ calls' = [calls EXCEPT ![q] = @ + 1]
               /\ UNCHANGED <<live, lastServer>>
    BY <1>0, <2>1 DEF OthersKeep, FreshQuery, TypeOK
  <2>2. CASE \E large \in BOOLEAN :
               /\ qry' = [qry EXCEPT ![q] = [FreshQuery EXCEPT
                       !.pc = "send", !.caller = c, !.server = lastServer,
                       !.usingTcp = UseVc \/ large]]
               /\ lastServer' = Rotated
               /\ live' = live \cup {q}
               /\ UNCHANGED calls
    BY <1>0, <2>2 DEF OthersKeep, FreshQuery, TypeOK
  <2>. QED
    BY <2>1, <2>2 DEF AresSend
<1>. HIDE DEF q
<1>2. /\ q > issued /\ qry[q].pc = "none" /\ q \notin live /\ q \notin todo
      /\ \A p \in Query : p > q => p > issued
  <2>1. q > issued /\ q \in Int
    BY <1>0 DEF q
  <2>2. qry[q].pc = "none"
    BY <1>0, <2>1 DEF InFlight, LiveQueries
  <2>3. q \notin live
    BY <2>2 DEF InFlight, LiveQueries
  <2>4. q \notin todo
    BY <2>2 DEF InFlight, SavedWait
  <2>. QED
    BY <1>0, <2>1, <2>2, <2>3, <2>4, QueryNumbers
<1>3. Active' = Active \cup {q} /\ q \notin Active
  BY <1>0, <1>1, <1>2 DEF Active, OthersKeep
<1>4. CallStack'
  <2>1. \A p \in Active : p \in Query /\ p \in Int /\ p < q /\ qry'[p] = qry[p]
    <3>1. ASSUME NEW p \in Active PROVE p \in Query /\ p <= issued
      BY <3>1, <1>0, QueryNumbers DEF InFlight, LiveQueries, Active
    <3>. QED
      BY <3>1, <1>0, <1>1, <1>2, <1>3, QueryNumbers DEF OthersKeep
  <2>2. c \in Active \cup {NoQuery} /\ c < q /\ \A p \in Active : p <= c
    BY <2>1, <1>0, QueryNumbers DEF InFlight, CallStack
  <2>3. \A p \in Active' : p <= cur'
    BY <2>1, <1>0, <1>3, QueryNumbers
  <2>4. ASSUME NEW p \in Active
        PROVE  /\ qry'[p].caller \in Active' \cup {NoQuery} /\ qry'[p].caller < p
               /\ \A r \in Active' : r < p => r <= qry'[p].caller
    BY <2>1, <1>0, <1>3, QueryNumbers DEF InFlight, CallStack
  <2>5. \A r \in Active' : r < q => r <= qry'[q].caller
    BY <2>2, <1>1, <1>3, <1>0, QueryNumbers
  <2>. QED
    BY <2>2, <2>3, <2>4, <2>5, <1>0, <1>1, <1>3 DEF CallStack
<1>5. LiveQueries'
  <2>1. \A p \in Query : p > issued' => qry'[p].pc = "none"
    BY <1>0, <1>1, <1>2, QueryNumbers DEF InFlight, LiveQueries, OthersKeep
  <2>2. \A p \in live' : p <= issued' /\ qry'[p].pc \notin {"none", "done"}
    BY <1>0, <1>1, <1>2, QueryNumbers DEF InFlight, LiveQueries, OthersKeep, TypeOK
  <2>3. \A p \in Query : /\ qry'[p].pc \in {"send", "next", "rest", "end"} => p \in live'
                         /\ qry'[p].pc = "rest" => qry'[p].caller = NoQuery
    BY <1>0, <1>1, <1>2 DEF InFlight, LiveQueries, OthersKeep
  <2>. QED
    BY <2>1, <2>2, <2>3 DEF LiveQueries
<1>6. ServerLists'
  BY <1>0, <1>1, <1>2 DEF InFlight, ServerLists, OthersKeep, TypeOK
<1>7. SavedWait'
  BY <1>0, <1>1, <1>2 DEF InFlight, SavedWait, OthersKeep, Stolen, TypeOK
<1>8. CallbackOnce'
  BY <1>0, <1>1, <1>2 DEF InFlight, CallbackOnce, OthersKeep, TypeOK
<1>. QED
  BY <1>4, <1>5, <1>6, <1>7, <1>8 DEF InFlight

LEMMA QueryStepInFlight ==
  ASSUME TypeOK, InFlight, NEW q \in Query,
         \/ OpenFails(q) \/ SendTcp(q) \/ SendTcpNoMemory(q) \/ SendUdp(q)
         \/ SendUdpFails(q) \/ NextServer(q) \/ EndQuery(q) \/ CallbackReturns(q)
  PROVE  InFlight'
<1>. DEFINE s == qry[q].server
<1>0. qry[q] \in QueryRecord /\ s \in Server
  BY DEF TypeOK, QueryRecord
<1>. USE DEF chanVars, ctlVars
<1>1. ASSUME OpenFails(q) PROVE InFlight'
  <2>1. /\ cur = q /\ qry[q].pc = "send" /\ OthersKeep(q) /\ NoServerGains
        /\ qry'[q].pc = "next" /\ qry'[q].caller = qry[q].caller
    BY <1>0, <1>1 DEF OpenFails, Sending, GiveUpServer, OthersKeep, NoServerGains, TypeOK, QueryRecord
  <2>. QED
    BY <1>1, <2>1, KeepsRunning DEF OpenFails
<1>2. ASSUME SendTcp(q) PROVE InFlight'
  <2>1. /\ cur = q /\ qry[q].pc = "send" /\ Registered(q, s)
        /\ UNCHANGED <<issued, live, phase, todo, err, calls>>
    BY <1>2 DEF SendTcp, Sending
  <2>2. /\ OthersKeep(q) /\ qry'[q].pc = "rest" /\ qry'[q].caller = NoQuery
        /\ qry'[q].server = qry[q].server /\ cur' = qry[q].caller
    BY <1>0, <2>1 DEF Registered, OthersKeep, TypeOK, QueryRecord
  <2>3. ASSUME NEW r \in Server
        PROVE  /\ srv'[r].clients \subseteq srv[r].clients \cup {q}
               /\ r # s => q \notin srv'[r].clients
               /\ srv'[r].udpAsked \subseteq srv[r].udpAsked \cup {q}
               /\ srv'[r].tcpAsked \subseteq srv[r].tcpAsked
    BY <1>2, <2>1 DEF SendTcp, Moved, TcpReady, TypeOK, ServerRecord
  <2>. QED
    BY <2>1, <2>2, <2>3, ComesToRest
<1>3. ASSUME SendTcpNoMemory(q) PROVE InFlight'
  <2>1. /\ cur = q /\ qry[q].pc = "send" /\ OthersKeep(q)
        /\ qry'[q].pc = "end" /\ qry'[q].caller = qry[q].caller
    BY <1>0, <1>3 DEF SendTcpNoMemory, Sending, OthersKeep, TypeOK, QueryRecord
  <2>2. NoServerGains
    BY <1>0, <1>3 DEF SendTcpNoMemory, TcpReady, NoServerGains, TypeOK, ServerRecord
  <2>. QED
    BY <1>3, <2>1, <2>2, KeepsRunning DEF SendTcpNoMemory
<1>4. ASSUME SendUdp(q) PROVE InFlight'
  <2>1. /\ cur = q /\ qry[q].pc = "send" /\ Registered(q, s)
        /\ UNCHANGED <<issued, live, phase, todo, err, calls>>
    BY <1>4 DEF SendUdp, Sending
  <2>2. /\ OthersKeep(q) /\ qry'[q].pc = "rest" /\ qry'[q].caller = NoQuery
        /\ qry'[q].server = qry[q].server /\ cur' = qry[q].caller
    BY <1>0, <2>1 DEF Registered, OthersKeep, TypeOK, QueryRecord
  <2>3. ASSUME NEW r \in Server
        PROVE  /\ srv'[r].clients \subseteq srv[r].clients \cup {q}
               /\ r # s => q \notin srv'[r].clients
               /\ srv'[r].udpAsked \subseteq srv[r].udpAsked \cup {q}
               /\ srv'[r].tcpAsked \subseteq srv[r].tcpAsked
    BY <1>4, <2>1 DEF SendUdp, Moved, TypeOK, ServerRecord
  <2>. QED
    BY <2>1, <2>2, <2>3, ComesToRest
<1>5. ASSUME SendUdpFails(q) PROVE InFlight'
  <2>1. /\ cur = q /\ qry[q].pc = "send" /\ OthersKeep(q)
        /\ qry'[q].pc = "next" /\ qry'[q].caller = qry[q].caller
    BY <1>0, <1>5 DEF SendUdpFails, Sending, GiveUpServer, OthersKeep, TypeOK, QueryRecord
  <2>2. NoServerGains
    BY <1>0, <1>5 DEF SendUdpFails, NoServerGains, TypeOK, ServerRecord
  <2>. QED
    BY <1>5, <2>1, <2>2, KeepsRunning DEF SendUdpFails
<1>6. ASSUME NextServer(q) PROVE InFlight'
  <2>1. /\ cur = q /\ qry[q].pc = "next" /\ OthersKeep(q) /\ NoServerGains
        /\ qry'[q].pc \in {"send", "next", "end"} /\ qry'[q].caller = qry[q].caller
    BY <1>0, <1>6 DEF NextServer, OthersKeep, NoServerGains, TypeOK, QueryRecord
  <2>. QED
    BY <1>6, <2>1, KeepsRunning DEF NextServer
<1>7. ASSUME EndQuery(q) PROVE InFlight'
  <2>1. /\ cur = q /\ qry[q].pc = "end" /\ OthersKeep(q)
        /\ qry'[q].pc = "callback" /\ qry'[q].caller = qry[q].caller
        /\ calls' = [calls EXCEPT ![q] = @ + 1]
        /\ UNCHANGED <<issued, live, phase, todo, err, cur>>
    BY <1>0, <1>7 DEF EndQuery, OthersKeep, TypeOK, QueryRecord
  <2>2. NoServerGains
    BY <1>7 DEF EndQuery, NoServerGains, TypeOK, ServerRecord
  <2>. QED
    BY <2>1, <2>2, CallsBack
<1>8. ASSUME CallbackReturns(q) PROVE InFlight'
  <2>1. /\ cur = q /\ qry[q].pc = "callback" /\ OthersKeep(q) /\ qry'[q].pc = "done"
        /\ live' = live \ {q} /\ cur' = qry[q].caller
        /\ UNCHANGED <<issued, phase, todo, err, calls>>
    BY <1>0, <1>8 DEF CallbackReturns, OthersKeep, TypeOK, FreshQuery
  <2>2. ASSUME NEW r \in Server
        PROVE  /\ srv'[r].clients \subseteq srv[r].clients \ {q}
               /\ srv'[r].udpAsked \subseteq srv[r].udpAsked \ {q}
               /\ srv'[r].tcpAsked \subseteq srv[r].tcpAsked \ {q}
    <3>1. CASE CloseAll
      BY <2>1, <3>1 DEF CloseAll, Closed, TypeOK, ServerRecord
    <3>2. CASE srv' = [t \in Server |-> Released(srv[t], q)]
      BY <3>2 DEF Released, TypeOK, ServerRecord
    <3>. QED
      BY <1>8, <3>1, <3>2 DEF CallbackReturns
  <2>. QED
    BY <2>1, <2>2, Returns DEF NoServerGains
<1>. QED
  BY <1>1, <1>2, <1>3, <1>4, <1>5, <1>6, <1>7, <1>8

\* Between two pieces of query code every query in flight waits.
LEMMA AllWait ==
  ASSUME TypeOK, InFlight, cur = NoQuery
  PROVE  \A q \in live : q \in Query /\ qry[q].pc = "rest" /\ qry[q].caller = NoQuery
<1>1. Active = {}
  BY NothingRuns DEF InFlight
<1>2. ASSUME NEW q \in live
      PROVE  q \in Query /\ qry[q].pc = "rest" /\ qry[q].caller = NoQuery
  <2>1. q \in Query /\ qry[q] \in QueryRecord /\ qry[q].pc \notin {"none", "done"}
    BY DEF TypeOK, InFlight, LiveQueries
  <2>2. qry[q].pc = "rest"
    BY <1>1, <2>1 DEF Active, QueryRecord
  <2>. QED
    BY <2>1, <2>2 DEF InFlight, LiveQueries
<1>. QED
  BY <1>2

\* The list handle_error steals holds waiting queries of the failed server.
LEMMA HandleErrorInFlight ==
  ASSUME TypeOK, InFlight, NEW s \in Server, cur = NoQuery, HandleError(s)
  PROVE  InFlight'
<1>1. ASSUME NEW r \in Server
      PROVE  /\ srv'[r].clients \subseteq srv[r].clients
             /\ srv'[r].udpAsked \cup srv'[r].tcpAsked \subseteq live
  <2>1. CASE r = s
    BY <2>1 DEF HandleError, Closed, TypeOK, ServerRecord
  <2>2. CASE r # s
    BY <2>2 DEF HandleError, InFlight, ServerLists, TypeOK
  <2>. QED
    BY <2>1, <2>2
<1>2. \A q \in todo' : q \in live /\ qry[q].pc = "rest" /\ qry[q].server = err'
  BY AllWait DEF HandleError, InFlight, ServerLists
<1>3. UNCHANGED <<issued, live, qry, cur, calls>>
  BY DEF HandleError
<1>4. \A q \in Stolen' : q \in todo'
  BY DEF Stolen
<1>. QED
  BY <1>1, <1>2, <1>3, <1>4, MovesNothing

LEMMA AnswerInFlight ==
  ASSUME TypeOK, InFlight, cur = NoQuery, todo = {}, NEW q \in live,
         NEW s \in Server, NEW tcp, NEW kind, ProcessAnswer(q, s, tcp, kind),
         UNCHANGED <<issued, live, srv, phase, todo, err, calls>>
  PROVE  InFlight'
<1>0. /\ q \in Query /\ qry[q] \in QueryRecord /\ qry[q].pc = "rest" /\ qry[q].caller = NoQuery
      /\ Stolen' = {}
  BY AllWait DEF TypeOK, Stolen
<1>1. ASSUME cur' = q, OthersKeep(q), qry'[q].pc \in {"send", "next", "end"},
             qry'[q].caller = NoQuery
      PROVE  InFlight'
  <2>1. calls' = [p \in Query |-> IF p = q /\ qry'[q].pc = "callback" THEN calls[p] + 1 ELSE calls[p]]
    BY <1>1 DEF TypeOK
  <2>. QED
    BY <1>0, <1>1, <2>1, PicksUp
<1>2. ASSUME cur' = cur, OthersKeep(q), qry'[q].pc = qry[q].pc,
             qry'[q].caller = qry[q].caller, qry'[q].server = qry[q].server
      PROVE  InFlight'
  <2>1. \A p \in Query : /\ qry'[p].pc = qry[p].pc
                         /\ qry'[p].caller = qry[p].caller
                         /\ qry'[p].server = qry[p].server
    BY <1>2 DEF OthersKeep
  <2>2. \A r \in Server : /\ srv'[r].clients \subseteq srv[r].clients
                          /\ srv'[r].udpAsked \cup srv'[r].tcpAsked \subseteq live
    BY DEF InFlight, ServerLists
  <2>. QED
    BY <1>0, <1>2, <2>1, <2>2, MovesNothing
<1>3. PICK r : /\ qry' = [qry EXCEPT ![q] = r]
               /\ \/ /\ cur' = q /\ r.pc \in {"send", "next", "end"}
                     /\ r.caller = qry[q].caller
                  \/ /\ cur' = cur /\ r.pc = qry[q].pc
                     /\ r.caller = qry[q].caller /\ r.server = qry[q].server
  <2>. DEFINE skipped == [qry[q] EXCEPT !.skip = SkipServer(@, s)]
              toTcp == [qry[q] EXCEPT !.usingTcp = TRUE, !.pc = "send"]
              refused == [skipped EXCEPT !.pc = "next"]
              done == [qry[q] EXCEPT !.pc = "end", !.result = "SUCCESS"]
  <2>2. /\ skipped.pc = qry[q].pc /\ skipped.caller = qry[q].caller
        /\ skipped.server = qry[q].server /\ DOMAIN skipped = DOMAIN qry[q]
    BY <1>0 DEF QueryRecord
  <2>3. toTcp.pc = "send" /\ toTcp.caller = qry[q].caller
    BY <1>0 DEF QueryRecord
  <2>4. refused.pc = "next" /\ refused.caller = qry[q].caller
    BY <1>0 DEF QueryRecord
  <2>5. done.pc = "end" /\ done.caller = qry[q].caller
    BY <1>0 DEF QueryRecord
  <2>1. qry = [qry EXCEPT ![q] = qry[q]]
    BY <1>0 DEF TypeOK
  <2>6. \/ qry' = qry /\ UNCHANGED cur
        \/ qry' = [qry EXCEPT ![q] = toTcp] /\ cur' = q
        \/ qry' = [qry EXCEPT ![q] = refused] /\ cur' = q
        \/ qry' = [qry EXCEPT ![q] = skipped] /\ UNCHANGED cur
        \/ qry' = [qry EXCEPT ![q] = done] /\ cur' = q
    BY Zenon DEF ProcessAnswer
  <2>. HIDE DEF skipped, toTcp, refused, done
  <2>. QED
    BY <2>1, <2>2, <2>3, <2>4, <2>5, <2>6
<1>4. OthersKeep(q) /\ qry'[q] = r
  BY <1>0, <1>3 DEF OthersKeep, TypeOK
<1>. QED
  BY <1>0, <1>1, <1>2, <1>3, <1>4

LEMMA ProcessStepInFlight ==
  ASSUME TypeOK, StolenFromServer, InFlight, ProcessStep
  PROVE  InFlight'
<1>. USE DEF chanVars, ctlVars
<1>0. /\ \A s \in Server : /\ srv[s].clients \cup srv[s].udpAsked \cup srv[s].tcpAsked \subseteq live
                           /\ srv[s].clients \subseteq srv[s].clients
      /\ todo \subseteq live
  BY DEF InFlight, ServerLists, SavedWait, LiveQueries, TypeOK
<1>1. ASSUME LoopDone, todo' = todo, UNCHANGED <<issued, live, qry, srv, cur, calls>>
      PROVE  InFlight'
  <2>1. todo' = {} /\ Stolen' = {}
    BY <1>1 DEF LoopDone, Stolen
  <2>. QED
    BY <1>0, <1>1, <2>1, MovesNothing
<1>2. ASSUME BeginProcess \/ Advance \/ EndLoop \/ EndTimeouts PROVE InFlight'
  BY <1>1, <1>2 DEF BeginProcess, Advance, EndLoop, EndTimeouts
<1>3. ASSUME NEW q \in todo, cur = NoQuery, cur' = q, todo' = todo \ {q}, OthersKeep(q),
             qry'[q].pc = "next", qry'[q].caller = qry[q].caller,
             UNCHANGED <<issued, live, srv, phase, err, calls>>
      PROVE  InFlight'
  <2>1. q \in live /\ qry[q].caller = NoQuery /\ Stolen' \subseteq Stolen
    BY <1>0, <1>3, AllWait DEF Stolen
  <2>2. calls' = [p \in Query |-> IF p = q /\ qry'[q].pc = "callback" THEN calls[p] + 1 ELSE calls[p]]
    BY <1>3 DEF TypeOK
  <2>. QED
    BY <1>0, <1>3, <2>1, <2>2, PicksUp
<1>4. ASSUME MoveOn \/ Timeout PROVE InFlight'
  <2>1. PICK q \in todo : /\ todo' = todo \ {q} /\ cur' = q
                          /\ \/ qry' = [qry EXCEPT ![q].pc = "next", ![q].skip = SkipServer(@, err)]
                             \/ qry' = [qry EXCEPT ![q].pc = "next", ![q].error = "ETIMEOUT"]
    BY <1>4 DEF MoveOn, Timeout
  <2>2. OthersKeep(q) /\ qry'[q].pc = "next" /\ qry'[q].caller = qry[q].caller
    BY <2>1 DEF OthersKeep, TypeOK, QueryRecord
  <2>. QED
    BY <1>3, <1>4, <2>1, <2>2 DEF MoveOn, Timeout
<1>5. ASSUME WriteTcp PROVE InFlight'
  <2>1. at \in Server /\ LoopDone
    BY <1>5, TurnIndex DEF WriteTcp, ServerTurn
  <2>2. PICK n \in 1 .. Len(srv[at].queue) :
          srv' = [srv EXCEPT ![at] = [srv[at] EXCEPT
                   !.queue = Unwritten(@, n),
                   !.tcpAsked = @ \cup ({srv[at].queue[i].owner : i \in 1 .. n} \cap live)]]
    BY <1>5 DEF WriteTcp
  <2>3. ASSUME NEW r \in Server
        PROVE  /\ srv'[r].clients \subseteq srv[r].clients
               /\ srv'[r].udpAsked \cup srv'[r].tcpAsked \subseteq live
    BY <1>0, <2>1, <2>2 DEF TypeOK, ServerRecord
  <2>4. todo' = {} /\ Stolen' = {}
    BY <1>5, <2>1 DEF WriteTcp, LoopDone, Stolen
  <2>5. UNCHANGED <<issued, live, qry, cur, calls>>
    BY <1>5 DEF WriteTcp
  <2>. QED
    BY <2>3, <2>4, <2>5, MovesNothing
<1>6. ASSUME WriteTcpFails \/ ReadTcpFails \/ ReadUdpFails \/ CloseBroken PROVE InFlight'
  <2>1. HandleError(at) /\ at < NServers /\ cur = NoQuery
    BY <1>6 DEF WriteTcpFails, ReadTcpFails, ReadUdpFails, CloseBroken, UdpTurn, ServerTurn, LoopDone
  <2>. QED
    BY <2>1, TurnIndex, HandleErrorInFlight
<1>7. ASSUME ReadTcpAnswer PROVE InFlight'
  <2>1. at \in Server /\ cur = NoQuery /\ todo = {}
    BY <1>7, TurnIndex DEF ReadTcpAnswer, ServerTurn, LoopDone
  <2>2. PICK q \in srv[at].tcpAsked, kind \in {"ok", "servfail"} : ProcessAnswer(q, at, TRUE, kind)
    BY <1>7 DEF ReadTcpAnswer
  <2>3. q \in live
    BY <1>0, <2>1
  <2>4. UNCHANGED <<issued, live, srv, phase, todo, err, calls>>
    BY <1>7 DEF ReadTcpAnswer
  <2>. QED
    BY <2>1, <2>2, <2>3, <2>4, AnswerInFlight
<1>8. ASSUME ReadUdpAnswer PROVE InFlight'
  <2>1. at \in Server /\ cur = NoQuery /\ todo = {}
    BY <1>8, TurnIndex DEF ReadUdpAnswer, UdpTurn, ServerTurn, LoopDone
  <2>2. PICK q \in srv[at].udpAsked, kind \in {"ok", "servfail", "truncated"} :
          ProcessAnswer(q, at, FALSE, kind)
    BY <1>8 DEF ReadUdpAnswer
  <2>3. q \in live
    BY <1>0, <2>1
  <2>4. UNCHANGED <<issued, live, srv, phase, todo, err, calls>>
    BY <1>8 DEF ReadUdpAnswer
  <2>. QED
    BY <2>1, <2>2, <2>3, <2>4, AnswerInFlight
<1>9. ASSUME NEW late \in SUBSET Query, BeginTimeouts(late) PROVE InFlight'
  <2>1. /\ cur = NoQuery /\ todo' \subseteq live /\ Stolen' = {}
        /\ UNCHANGED <<issued, live, qry, srv, cur, calls>>
    BY <1>9 DEF BeginTimeouts, LoopDone, Stolen
  <2>. QED
    BY <1>0, <2>1, AllWait, MovesNothing
<1>. QED
  BY <1>2, <1>4, <1>5, <1>6, <1>7, <1>8, <1>9 DEF ProcessStep

\* The walks of ares_cancel and ares_destroy: they free the node at hand and
\* go on with the one they have saved.
LEMMA SweepStepInFlight ==
  ASSUME TypeOK, InFlight, SweepStep
  PROVE  InFlight'
<1>. USE DEF chanVars
<1>0. \A s \in Server : /\ srv[s].udpAsked \cup srv[s].tcpAsked \subseteq live
                        /\ srv[s].clients \subseteq srv[s].clients
  BY DEF InFlight, ServerLists
<1>1. ASSUME NEW kind \in {"cancel", "destroy"}, BeginSweep(kind) PROVE InFlight'
  <2>1. /\ cur = NoQuery /\ todo' \subseteq live /\ Stolen' = {}
        /\ UNCHANGED <<issued, live, qry, srv, cur, calls>>
    BY <1>1 DEF BeginSweep, LoopDone, Following, Stolen
  <2>. QED
    BY <1>0, <2>1, AllWait, MovesNothing
<1>2. ASSUME SweepQuery PROVE InFlight'
  <2>1. PICK q \in todo :
          /\ todo' = Following(q)
          /\ qry' = [qry EXCEPT ![q].pc = "callback", ![q].caller = NoQuery,
                       ![q].result = IF phase = "cancel" THEN "ECANCELLED" ELSE "EDESTRUCTION"]
          /\ calls' = [calls EXCEPT ![q] = @ + 1]
          /\ cur' = q
    BY <1>2 DEF SweepQuery
  <2>2. q \in Query /\ q \in live
    BY DEF TypeOK, InFlight, SavedWait, LiveQueries
  <2>3. OthersKeep(q) /\ qry'[q].pc = "callback" /\ qry'[q].caller = NoQuery
    BY <2>1, <2>2 DEF OthersKeep, TypeOK, QueryRecord
  <2>4. calls' = [p \in Query |-> IF p = q /\ qry'[q].pc = "callback" THEN calls[p] + 1 ELSE calls[p]]
    BY <2>1, <2>2, <2>3 DEF TypeOK
  <2>5. q \notin todo' /\ todo' \subseteq live
    BY <2>1, <2>2, QueryNumbers DEF Following
  <2>6. cur = NoQuery /\ Stolen' = {} /\ UNCHANGED <<issued, live, srv, phase, err>>
    BY <1>2 DEF SweepQuery, Stolen
  <2>. QED
    BY <2>1, <2>2, <2>3, <2>4, <2>5, <2>6, PicksUp
<1>3. ASSUME EndSweep PROVE InFlight'
  <2>1. /\ todo' = {} /\ Stolen' = {} /\ cur = NoQuery
        /\ UNCHANGED <<issued, live, qry, cur, calls>>
    BY <1>3 DEF EndSweep, LoopDone, Stolen
  <2>2. ASSUME NEW s \in Server
        PROVE  /\ srv'[s].clients \subseteq srv[s].clients
               /\ srv'[s].udpAsked \cup srv'[s].tcpAsked \subseteq live
    <3>1. CASE srv' = srv
      BY <1>0, <3>1
    <3>2. CASE CloseAll
      <4>1. srv'[s] = [Closed(srv[s], chanGen + Cardinality(OpenTcpUpTo(s)))
                         EXCEPT !.clients = @ \ {cur}]
        BY <3>2 DEF CloseAll
      <4>. QED
        BY <4>1 DEF Closed, TypeOK, ServerRecord
    <3>. QED
      BY <1>3, <3>1, <3>2 DEF EndSweep
  <2>. QED
    BY <2>1, <2>2, MovesNothing
<1>. QED
  BY <1>1, <1>2, <1>3 DEF SweepStep

LEMMA NextInFlight ==
  ASSUME TypeOK, StolenFromServer, InFlight, [Next]_vars
  PROVE  InFlight'
<1>1. CASE Send
  BY <1>1, SendInFlight DEF Send, LoopDone
<1>2. ASSUME NEW q \in Query, CallbackSends(q) PROVE InFlight'
  BY <1>2, SendInFlight DEF CallbackSends
<1>3. CASE QueryStep
  BY <1>2, <1>3, QueryStepInFlight DEF QueryStep
<1>4. CASE ProcessStep
  BY <1>4, ProcessStepInFlight
<1>5. CASE SweepStep
  BY <1>5, SweepStepInFlight
<1>6. CASE UNCHANGED vars
  <2>1. UNCHANGED <<issued, live, qry, srv, phase, todo, err, cur, calls>>
    BY <1>6 DEF vars
  <2>. QED
    BY <2>1 DEF InFlight, CallStack, Active, LiveQueries, ServerLists, SavedWait, Stolen, CallbackOnce
<1>. QED
  BY <1>1, <1>3, <1>4, <1>5, <1>6 DEF Next

-----------------------------------------------------------------------------
(* The theorems *)

LEMMA InvHolds == Spec => []Inv
<1>1. Init => Inv
  BY InitType, InitInFlight DEF Inv, Init, StolenFromServer, Stolen
<1>2. Inv /\ [Next]_vars => Inv'
  BY NextType, NextStolen, NextInFlight DEF Inv
<1>. QED
  BY <1>1, <1>2, PTL DEF Spec

\* The stack of callbacks, the lists of the channel and the nodes its loops
\* have saved agree on where every query is, after every step of ares_send,
\* ares_process, ares_cancel and ares_destroy.
THEOREM ControlConsistent == Spec => []InFlight
<1>1. Inv => InFlight
  BY DEF Inv
<1>. QED
  BY <1>1, InvHolds, PTL

\* Whoever sends a query gets its callback exactly once, with any number of
\* servers, tries, nested queries, cancellations and failures.
THEOREM CallbackExactlyOnce == Spec => []CallbackOnce
<1>1. Inv => CallbackOnce
  BY DEF Inv, InFlight
<1>. QED
  BY <1>1, InvHolds, PTL

\* No loop over a list of queries (handle_error, process_timeouts, ares_cancel,
\* ares_destroy) goes on to a node that a callback has freed or moved.
THEOREM LoopNodesAlive == Spec => []SavedNodesAlive
<1>1. Inv => SavedNodesAlive
  BY DEF Inv, InFlight, SavedNodesAlive, SavedWait, LiveQueries, TypeOK, Stolen
<1>. QED
  BY <1>1, InvHolds, PTL
=============================================================================
