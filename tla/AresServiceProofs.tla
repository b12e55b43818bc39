-------------------------- MODULE AresServiceProofs --------------------------
(***************************************************************************)
(* What one query lives through: its record only moves along a few paths,  *)
(* whatever the rest of the channel does.  From these paths follow the     *)
(* bound on transmissions, that skipped servers stay skipped, and that     *)
(* every step of the channel is a step of ResolverService or a stutter.    *)
(***************************************************************************)
EXTENDS AresChannelProofs, AresChannelLive

-----------------------------------------------------------------------------
(* The paths of a record *)

Becomes(q, r) == qry' = [qry EXCEPT ![q] = r]

Accepted(q) ==
  /\ qry[q].pc = "none"
  /\ \E c \in Query \cup {NoQuery}, large \in BOOLEAN :
       Becomes(q, [FreshQuery EXCEPT !.pc = "send", !.caller = c, !.server = lastServer,
                                     !.usingTcp = UseVc \/ large])

RefusedAtOnce(q) ==
  /\ qry[q].pc = "none"
  /\ \E c \in Query \cup {NoQuery}, status \in {"EBADQUERY", "ENOMEM"} :
       Becomes(q, [FreshQuery EXCEPT !.pc = "callback", !.caller = c, !.result = status])

AttemptFails(q) == qry[q].pc = "send" /\ GiveUpServer(q)

AttemptMade(q) ==
  /\ qry[q].pc = "send"
  /\ \E g \in [Server -> Nat] :
       /\ ~qry[q].usingTcp => g = qry[q].gen
       /\ Becomes(q, [qry[q] EXCEPT !.pc = "rest", !.armed = TRUE, !.sends = @ + 1,
                                    !.caller = NoQuery, !.gen = g])

NoMemoryToSend(q) ==
  qry[q].pc = "send" /\ Becomes(q, [qry[q] EXCEPT !.pc = "end", !.result = "ENOMEM"])

\* A loop over queries or a refusal of its server makes a waiting query move on.
MovesOn(q) ==
  /\ qry[q].pc = "rest"
  /\ \/ \E s \in Server : Becomes(q, [qry[q] EXCEPT !.pc = "next", !.skip = SkipServer(@, s)])
     \/ Becomes(q, [qry[q] EXCEPT !.pc = "next", !.error = "ETIMEOUT"])

\* A refusal of a server the query has left.
LateRefusal(q) ==
  /\ qry[q].pc = "rest"
  /\ Stolen = {}
  /\ \E s \in Server \ {qry[q].server} :
       Becomes(q, [qry[q] EXCEPT !.skip = SkipServer(@, s)])

Truncated(q) ==
  /\ qry[q].pc = "rest" /\ ~qry[q].usingTcp
  /\ Stolen = {}
  /\ Becomes(q, [qry[q] EXCEPT !.usingTcp = TRUE, !.pc = "send"])

AnswerTaken(q) ==
  qry[q].pc = "rest" /\ Becomes(q, [qry[q] EXCEPT !.pc = "end", !.result = "SUCCESS"])

CalledBack(q) == qry[q].pc = "end" /\ Becomes(q, [qry[q] EXCEPT !.pc = "callback"])

Swept(q) ==
  /\ qry[q].pc = "rest"
  /\ phase \in {"cancel", "destroy"} /\ UNCHANGED phase
  /\ \E status \in {"ECANCELLED", "EDESTRUCTION"} :
       Becomes(q, [qry[q] EXCEPT !.pc = "callback", !.caller = NoQuery, !.result = status])

Freed(q) ==
  /\ qry[q].pc = "callback"
  /\ Becomes(q, [FreshQuery EXCEPT !.pc = "done", !.result = qry[q].result,
                                   !.sends = qry[q].sends])

\* The paths that leave every socket as it is (or only open one).
QuietPath(q) ==
  \/ Accepted(q) \/ RefusedAtOnce(q) \/ AttemptFails(q) \/ NextServer(q) \/ MovesOn(q)
  \/ LateRefusal(q) \/ Truncated(q) \/ AnswerTaken(q) \/ Swept(q)

Path(q) == QuietPath(q) \/ AttemptMade(q) \/ NoMemoryToSend(q) \/ CalledBack(q) \/ Freed(q)

LEMMA SendPath ==
  ASSUME Inv, NEW c \in Query \cup {NoQuery}, AresSend(c)
  PROVE  \E q \in Query : QuietPath(q)
<1>. DEFINE q == issued + 1
<1>1. issued < MaxQueries /\ issued \in Nat
  <2>1. issued < MaxQueries
    BY DEF AresSend
  <2>2. issued \in 0 .. MaxQueries
    BY DEF Inv, TypeOK
  <2>. QED
    BY <2>1, <2>2, QueriesAssumption
<1>2. q \in Query /\ q > issued
  BY <1>1, QueriesAssumption DEF Query
<1>3. qry[q].pc = "none"
  <2>. HIDE DEF q
  <2>. QED BY <1>2 DEF Inv, InFlight, LiveQueries
<1>4. \/ \E status \in {"EBADQUERY", "ENOMEM"} :
           Becomes(q, [FreshQuery EXCEPT !.pc = "callback", !.caller = c, !.result = status])
      \/ \E large \in BOOLEAN :
           Becomes(q, [FreshQuery EXCEPT !.pc = "send", !.caller = c, !.server = lastServer,
                                         !.usingTcp = UseVc \/ large])
  BY DEF AresSend, Becomes
<1>5. RefusedAtOnce(q) \/ Accepted(q)
  <2>. HIDE DEF q
  <2>. QED BY <1>3, <1>4 DEF RefusedAtOnce, Accepted
<1>. QED
  <2>. HIDE DEF q
  <2>. QED BY <1>2, <1>5 DEF QuietPath

LEMMA QueryStepPath ==
  ASSUME Inv, NEW q \in Query,
         \/ OpenFails(q) \/ SendTcp(q) \/ SendTcpNoMemory(q) \/ SendUdp(q)
         \/ SendUdpFails(q) \/ NextServer(q) \/ EndQuery(q) \/ CallbackReturns(q)
  PROVE  Path(q)
<1>. DEFINE s == qry[q].server
<1>0. TypeOK /\ qry[q] \in QueryRecord /\ s \in Server
  BY DEF Inv, TypeOK, QueryRecord
<1>1. ASSUME qry[q].pc = "send", Registered(q, s), srv'[s].gen \in Nat
      PROVE  AttemptMade(q)
  <2>. DEFINE g == IF qry[q].usingTcp THEN [qry[q].gen EXCEPT ![s] = srv'[s].gen] ELSE qry[q].gen
  <2>1. g \in [Server -> Nat] /\ (~qry[q].usingTcp => g = qry[q].gen)
    BY <1>0, <1>1 DEF QueryRecord
  <2>2. Becomes(q, [qry[q] EXCEPT !.pc = "rest", !.armed = TRUE, !.sends = @ + 1,
                                  !.caller = NoQuery, !.gen = g])
    BY <1>0, <1>1 DEF Registered, Becomes, QueryRecord
  <2>. QED
    BY ONLY <1>1, <2>1, <2>2 DEF AttemptMade
<1>2. CASE OpenFails(q) \/ SendUdpFails(q)
  BY <1>2 DEF OpenFails, SendUdpFails, Sending, Path, QuietPath, AttemptFails
<1>3. CASE SendTcp(q) \/ SendUdp(q)
  <2>1. TypeOK'
    BY <1>0, <1>3, QueryStepType
  <2>2. srv'[s].gen \in Nat
    BY <1>0, <2>1 DEF TypeOK, ServerRecord
  <2>. QED
    BY <1>1, <1>3, <2>2 DEF SendTcp, SendUdp, Sending, Path, QuietPath
<1>4. CASE SendTcpNoMemory(q)
  <2>1. Becomes(q, [qry[q] EXCEPT !.pc = "end", !.result = "ENOMEM"])
    BY <1>4 DEF SendTcpNoMemory, Becomes
  <2>. QED
    BY <1>4, <2>1 DEF SendTcpNoMemory, Sending, NoMemoryToSend, Path, QuietPath
<1>5. CASE NextServer(q)
  BY <1>5 DEF Path, QuietPath
<1>6. CASE EndQuery(q)
  <2>1. Becomes(q, [qry[q] EXCEPT !.pc = "callback"])
    BY <1>6 DEF EndQuery, Becomes
  <2>. QED
    BY <1>6, <2>1 DEF EndQuery, CalledBack, Path, QuietPath
<1>7. CASE CallbackReturns(q)
  BY <1>7 DEF CallbackReturns, Freed, Becomes, Path, QuietPath
<1>. QED
  BY <1>2, <1>3, <1>4, <1>5, <1>6, <1>7

LEMMA AnswerPath ==
  ASSUME Inv, cur = NoQuery, todo = {}, NEW q \in live, NEW s \in Server, NEW tcp, NEW kind,
         ProcessAnswer(q, s, tcp, kind), todo' = todo
  PROVE  qry' = qry \/ QuietPath(q)
<1>. DEFINE skipped == [qry[q] EXCEPT !.skip = SkipServer(@, s)]
<1>0. q \in Query /\ qry[q].pc = "rest" /\ qry[q] \in QueryRecord  /\ Stolen = {}
  BY AllWait DEF Inv, TypeOK, Stolen
<1>1. \/ qry' = qry
      \/ ~qry[q].usingTcp /\ qry' = [qry EXCEPT ![q] = [qry[q] EXCEPT !.usingTcp = TRUE, !.pc = "send"]]
      \/ qry[q].server = s /\ qry' = [qry EXCEPT ![q] = [skipped EXCEPT !.pc = "next"]]
      \/ qry[q].server # s /\ qry' = [qry EXCEPT ![q] = skipped]
      \/ qry' = [qry EXCEPT ![q] = [qry[q] EXCEPT !.pc = "end", !.result = "SUCCESS"]]
  BY Zenon DEF ProcessAnswer
<1>2. CASE ~qry[q].usingTcp /\ qry' = [qry EXCEPT ![q] = [qry[q] EXCEPT !.usingTcp = TRUE, !.pc = "send"]]
  BY <1>0, <1>2 DEF Truncated, Becomes, QuietPath
<1>3. CASE qry[q].server = s /\ qry' = [qry EXCEPT ![q] = [skipped EXCEPT !.pc = "next"]]
  <2>1. [skipped EXCEPT !.pc = "next"] = [qry[q] EXCEPT !.pc = "next", !.skip = SkipServer(@, s)]
    BY <1>0 DEF QueryRecord
  <2>2. MovesOn(q)
    BY <1>0, <1>3, <2>1 DEF MovesOn, Becomes
  <2>. QED
    BY <2>2 DEF QuietPath
<1>4. CASE qry[q].server # s /\ qry' = [qry EXCEPT ![q] = skipped]
  BY <1>0, <1>4 DEF LateRefusal, Becomes, QuietPath
<1>5. CASE qry' = [qry EXCEPT ![q] = [qry[q] EXCEPT !.pc = "end", !.result = "SUCCESS"]]
  BY <1>0, <1>5 DEF AnswerTaken, Becomes, QuietPath
<1>. QED
  BY <1>1, <1>2, <1>3, <1>4, <1>5

LEMMA ProcessStepPath ==
  ASSUME Inv, ProcessStep
  PROVE  qry' = qry \/ \E q \in Query : QuietPath(q)
<1>. USE DEF chanVars
<1>0. TypeOK /\ todo \subseteq live /\ live \subseteq Query
  BY DEF Inv, TypeOK, InFlight, SavedWait, LiveQueries
<1>1. CASE MoveOn
  <2>1. PICK q \in todo : /\ qry' = [qry EXCEPT ![q].pc = "next", ![q].skip = SkipServer(@, err)]
                          /\ todo' = todo \ {q}
    BY <1>1 DEF MoveOn
  <2>2. q \in Query /\ qry[q] \in QueryRecord /\ qry[q].pc = "rest"
    BY <1>0 DEF Inv, TypeOK, InFlight, SavedWait
  <2>3. err \in Server
    BY <1>1 DEF MoveOn, Inv, StolenFromServer, Stolen
  <2>4. Becomes(q, [qry[q] EXCEPT !.pc = "next", !.skip = SkipServer(@, err)])
    BY <2>1, <2>2 DEF Becomes, QueryRecord
  <2>. QED
    BY <2>2, <2>3, <2>4 DEF MovesOn, QuietPath
<1>2. CASE Timeout
  <2>1. PICK q \in todo : qry' = [qry EXCEPT ![q].pc = "next", ![q].error = "ETIMEOUT"]
    BY <1>2 DEF Timeout
  <2>2. q \in Query /\ qry[q] \in QueryRecord /\ qry[q].pc = "rest"
    BY <1>0 DEF Inv, TypeOK, InFlight, SavedWait
  <2>3. Becomes(q, [qry[q] EXCEPT !.pc = "next", !.error = "ETIMEOUT"])
    BY <2>1, <2>2 DEF Becomes, QueryRecord
  <2>. QED
    BY <2>2, <2>3 DEF MovesOn, QuietPath
<1>3. CASE ReadTcpAnswer
  <2>1. at \in Server /\ cur = NoQuery /\ todo = {} /\ todo' = todo
    BY <1>0, <1>3, TurnIndex DEF ReadTcpAnswer, ServerTurn, LoopDone
  <2>2. PICK q \in srv[at].tcpAsked, kind \in {"ok", "servfail"} : ProcessAnswer(q, at, TRUE, kind)
    BY <1>3 DEF ReadTcpAnswer
  <2>3. q \in live
    BY <2>1 DEF Inv, InFlight, ServerLists
  <2>. QED
    BY <1>0, <2>1, <2>2, <2>3, AnswerPath
<1>4. CASE ReadUdpAnswer
  <2>1. at \in Server /\ cur = NoQuery /\ todo = {} /\ todo' = todo
    BY <1>0, <1>4, TurnIndex DEF ReadUdpAnswer, UdpTurn, ServerTurn, LoopDone
  <2>2. PICK q \in srv[at].udpAsked, kind \in {"ok", "servfail", "truncated"} :
          ProcessAnswer(q, at, FALSE, kind)
    BY <1>4 DEF ReadUdpAnswer
  <2>3. q \in live
    BY <2>1 DEF Inv, InFlight, ServerLists
  <2>. QED
    BY <1>0, <2>1, <2>2, <2>3, AnswerPath
<1>5. CASE \/ BeginProcess \/ Advance \/ EndLoop \/ WriteTcp \/ EndTimeouts
           \/ \E late \in SUBSET Query : BeginTimeouts(late)
  BY <1>5 DEF BeginProcess, Advance, EndLoop, WriteTcp, EndTimeouts, BeginTimeouts
<1>6. CASE WriteTcpFails \/ ReadTcpFails \/ ReadUdpFails \/ CloseBroken
  BY <1>6 DEF WriteTcpFails, ReadTcpFails, ReadUdpFails, CloseBroken, HandleError
<1>. QED
  BY <1>1, <1>2, <1>3, <1>4, <1>5, <1>6 DEF ProcessStep

LEMMA SweepStepPath ==
  ASSUME Inv, SweepStep
  PROVE  qry' = qry \/ \E q \in Query : QuietPath(q)
<1>. USE DEF chanVars
<1>1. CASE SweepQuery
  <2>1. PICK q \in todo :
          qry' = [qry EXCEPT ![q].pc = "callback", ![q].caller = NoQuery,
                    ![q].result = IF phase = "cancel" THEN "ECANCELLED" ELSE "EDESTRUCTION"]
    BY <1>1 DEF SweepQuery
  <2>2. q \in Query /\ qry[q] \in QueryRecord /\ qry[q].pc = "rest"
    BY DEF Inv, TypeOK, InFlight, SavedWait
  <2>3. PICK status \in {"ECANCELLED", "EDESTRUCTION"} :
          Becomes(q, [qry[q] EXCEPT !.pc = "callback", !.caller = NoQuery, !.result = status])
    BY <2>1, <2>2 DEF Becomes, QueryRecord
  <2>4. phase \in {"cancel", "destroy"} /\ UNCHANGED phase
    BY <1>1 DEF SweepQuery
  <2>. QED
    BY <2>2, <2>3, <2>4 DEF Swept, QuietPath
<1>2. CASE EndSweep \/ \E kind \in {"cancel", "destroy"} : BeginSweep(kind)
  BY <1>2 DEF EndSweep, BeginSweep
<1>. QED
  BY <1>1, <1>2 DEF SweepStep

\* Whatever step the channel takes, at most one query moves, along its path.
LEMMA OnePath ==
  ASSUME Inv, [Next]_vars
  PROVE  qry' = qry \/ \E q \in Query : Path(q)
<1>1. CASE Send
  BY <1>1, SendPath DEF Send, Path
<1>2. ASSUME NEW q \in Query, CallbackSends(q) PROVE \E p \in Query : Path(p)
  BY <1>2, SendPath DEF CallbackSends, Path
<1>3. CASE QueryStep
  BY <1>2, <1>3, QueryStepPath DEF QueryStep
<1>4. CASE ProcessStep
  BY <1>4, ProcessStepPath DEF Path
<1>5. CASE SweepStep
  BY <1>5, SweepStepPath DEF Path
<1>6. CASE UNCHANGED vars
  BY <1>6 DEF vars
<1>. QED
  BY <1>1, <1>3, <1>4, <1>5, <1>6 DEF Next

-----------------------------------------------------------------------------
(* What the record of a query says of its past *)

\* The one transmission that the move to TCP adds.
Extra(r) == IF r.usingTcp /\ ~UseVc THEN 1 ELSE 0

\* tryCount counts the servers that were left, sends the transmissions: before
\* a transmission there were at most as many, after it one more.  Nothing but
\* a transmission gives a query an answer, a timer or an error.
SoundRecord(r) ==
  /\ r.pc = "none" => r.sends = 0
  /\ r.pc \in {"send", "next", "rest"} =>
       r.tryCount < NServers * Tries /\ (UseVc => r.usingTcp) /\ r.result = "NONE"
  /\ r.pc = "send" => r.sends <= r.tryCount + Extra(r)
  /\ r.pc \in {"next", "rest"} => 0 < r.sends /\ r.sends <= r.tryCount + 1 + Extra(r)
  /\ r.sends <= NServers * Tries + (IF UseVc THEN 0 ELSE 1)
  /\ r.pc = "rest" => r.armed
  /\ r.error \in {"ECONNREFUSED", "ETIMEOUT"}
  /\ r.pc = "end" => \/ r.result = "ENOMEM"
                     \/ r.sends > 0 /\ r.result \in {"SUCCESS", "ETIMEOUT", "ECONNREFUSED"}
  /\ ~r.usingTcp => r.gen = [s \in Server |-> 0]

SoundRecords == \A q \in Query : SoundRecord(qry[q])

LEMMA PathChangesOne ==
  ASSUME TypeOK, NEW q \in Query, Path(q)
  PROVE  OthersKeep(q)
<1>1. \E r : qry' = [qry EXCEPT ![q] = r]
  BY DEF Path, QuietPath, Accepted, RefusedAtOnce, AttemptFails, GiveUpServer, AttemptMade, NoMemoryToSend,
         NextServer, MovesOn, LateRefusal, Truncated, AnswerTaken, CalledBack, Swept, Freed, Becomes
<1>. QED
  BY <1>1 DEF OthersKeep, TypeOK

LEMMA BudgetPositive == NServers * Tries \in Nat /\ NServers * Tries > 0
BY ServersAssumption, TriesAssumption

LEMMA FreshSoundRecord ==
  ASSUME NEW r, r.sends = 0, r.gen = [s \in Server |-> 0], r.error = "ECONNREFUSED",
         \/ r.pc \in {"none", "callback"}
         \/ r.pc = "send" /\ r.tryCount = 0 /\ (UseVc => r.usingTcp) /\ r.result = "NONE"
  PROVE  SoundRecord(r)
<1>1. r.pc \in {"none", "callback", "send"} => r.pc \notin {"next", "rest", "end"}
  OBVIOUS
<1>2. r.pc = "send" => r.pc \notin {"next", "rest", "end"} /\ r.tryCount = 0
  OBVIOUS
<1>. QED
  BY <1>1, <1>2, BudgetPositive DEF SoundRecord, Extra

LEMMA PathSound ==
  ASSUME TypeOK, NEW q \in Query, SoundRecord(qry[q]), Path(q)
  PROVE  SoundRecord(qry'[q])
<1>. DEFINE old == qry[q]
            new == qry'[q]
            limit == NServers * Tries
<1>0. old \in QueryRecord /\ limit \in Nat /\ limit > 0 /\ DOMAIN qry = Query
  BY BudgetPositive DEF TypeOK
<1>1. /\ old.sends \in Nat /\ old.tryCount \in Nat /\ old.usingTcp \in BOOLEAN
      /\ DOMAIN old = {"server", "tryCount", "skip", "usingTcp", "gen", "error", "armed",
                       "result", "pc", "caller", "sends"}
  BY <1>0 DEF QueryRecord
<1>2. CASE Accepted(q) \/ RefusedAtOnce(q)
  <2>1. /\ new.sends = 0 /\ new.gen = [s \in Server |-> 0] /\ new.error = "ECONNREFUSED"
        /\ \/ new.pc = "callback"
           \/ new.pc = "send" /\ new.tryCount = 0 /\ (UseVc => new.usingTcp) /\ new.result = "NONE"
    <3>1. CASE Accepted(q)
      <4>1. PICK c \in Query \cup {NoQuery}, large \in BOOLEAN :
              new = [FreshQuery EXCEPT !.pc = "send", !.caller = c, !.server = lastServer,
                                       !.usingTcp = UseVc \/ large]
        BY <1>0, <3>1 DEF Accepted, Becomes
      <4>. QED
        BY <4>1 DEF FreshQuery
    <3>2. CASE RefusedAtOnce(q)
      <4>1. PICK c \in Query \cup {NoQuery}, status \in {"EBADQUERY", "ENOMEM"} :
              new = [FreshQuery EXCEPT !.pc = "callback", !.caller = c, !.result = status]
        BY <1>0, <3>2 DEF RefusedAtOnce, Becomes
      <4>. QED
        BY <4>1 DEF FreshQuery
    <3>. QED
      BY <1>2, <3>1, <3>2
  <2>. QED
    BY <2>1, FreshSoundRecord
<1>3. CASE AttemptFails(q)
  <2>1. /\ old.pc = "send" /\ new.pc = "next" /\ new.sends = old.sends + 1
        /\ UNCHANGED <<qry[q].tryCount, qry[q].usingTcp, qry[q].error, qry[q].gen, qry[q].result>>
    BY <1>0, <1>1, <1>3 DEF AttemptFails, GiveUpServer
  <2>. QED
    BY <1>0, <1>1, <2>1 DEF SoundRecord, Extra
<1>4. CASE AttemptMade(q)
  <2>1. /\ old.pc = "send" /\ new.pc = "rest" /\ new.sends = old.sends + 1 /\ new.armed
        /\ ~old.usingTcp => new.gen = old.gen
        /\ UNCHANGED <<qry[q].tryCount, qry[q].usingTcp, qry[q].error, qry[q].result>>
    BY <1>0, <1>1, <1>4 DEF AttemptMade, Becomes
  <2>. QED
    BY <1>0, <1>1, <2>1 DEF SoundRecord, Extra
<1>5. CASE NoMemoryToSend(q)
  <2>1. /\ new.pc = "end" /\ new.result = "ENOMEM"
        /\ UNCHANGED <<qry[q].sends, qry[q].usingTcp, qry[q].error, qry[q].gen>>
    BY <1>0, <1>1, <1>5 DEF NoMemoryToSend, Becomes
  <2>. QED
    BY <1>0, <1>1, <2>1 DEF SoundRecord
<1>6. CASE NextServer(q)
  <2>1. /\ old.pc = "next" /\ new.tryCount = old.tryCount + 1
        /\ \/ new.pc = "end" /\ new.result = old.error
           \/ new.pc \in {"send", "next"} /\ new.result = old.result /\ new.tryCount < limit
        /\ UNCHANGED <<qry[q].sends, qry[q].usingTcp, qry[q].error, qry[q].gen>>
    BY <1>0, <1>1, <1>6 DEF NextServer, Exhausted
  <2>. QED
    BY <1>0, <1>1, <2>1 DEF SoundRecord, Extra
<1>7. CASE MovesOn(q)
  <2>1. /\ old.pc = "rest" /\ new.pc = "next" /\ new.error \in {old.error, "ETIMEOUT"}
        /\ UNCHANGED <<qry[q].tryCount, qry[q].sends, qry[q].usingTcp, qry[q].gen, qry[q].result>>
    <3>1. CASE \E s \in Server : new = [old EXCEPT !.pc = "next", !.skip = SkipServer(@, s)]
      BY <1>0, <1>1, <1>7, <3>1 DEF MovesOn
    <3>2. CASE new = [old EXCEPT !.pc = "next", !.error = "ETIMEOUT"]
      BY <1>0, <1>1, <1>7, <3>2 DEF MovesOn
    <3>. QED
      BY <1>0, <1>7, <3>1, <3>2 DEF MovesOn, Becomes
  <2>. QED
    BY <1>0, <1>1, <2>1 DEF SoundRecord, Extra
<1>8. CASE LateRefusal(q)
  <2>1. UNCHANGED <<qry[q].pc, qry[q].tryCount, qry[q].sends, qry[q].usingTcp, qry[q].gen,
                    qry[q].error, qry[q].armed, qry[q].result>>
    BY <1>0, <1>1, <1>8 DEF LateRefusal, Becomes
  <2>. QED
    BY <2>1 DEF SoundRecord, Extra
<1>9. CASE Truncated(q)
  <2>1. /\ old.pc = "rest" /\ new.pc = "send" /\ ~old.usingTcp /\ new.usingTcp = TRUE
        /\ UNCHANGED <<qry[q].tryCount, qry[q].sends, qry[q].gen, qry[q].error, qry[q].result>>
    BY <1>0, <1>1, <1>9 DEF Truncated, Becomes
  <2>. QED
    BY <1>0, <1>1, <2>1 DEF SoundRecord, Extra
<1>10. CASE AnswerTaken(q)
  <2>1. /\ old.pc = "rest" /\ new.pc = "end" /\ new.result = "SUCCESS"
        /\ UNCHANGED <<qry[q].sends, qry[q].usingTcp, qry[q].gen, qry[q].error>>
    BY <1>0, <1>1, <1>10 DEF AnswerTaken, Becomes
  <2>. QED
    BY <1>0, <1>1, <2>1 DEF SoundRecord
<1>11. CASE CalledBack(q) \/ Swept(q)
  <2>1. /\ new.pc = "callback"
        /\ UNCHANGED <<qry[q].sends, qry[q].usingTcp, qry[q].gen, qry[q].error>>
    <3>1. CASE CalledBack(q)
      BY <1>0, <1>1, <3>1 DEF CalledBack, Becomes
    <3>2. CASE Swept(q)
      BY <1>0, <1>1, <3>2 DEF Swept, Becomes
    <3>. QED
      BY <1>11, <3>1, <3>2
  <2>. QED
    BY <2>1 DEF SoundRecord
<1>12. CASE Freed(q)
  <2>1. /\ new.pc = "done" /\ new.sends = old.sends /\ new.gen = [s \in Server |-> 0]
        /\ new.error = "ECONNREFUSED"
    BY <1>0, <1>1, <1>12 DEF Freed, Becomes, FreshQuery
  <2>. QED
    BY <2>1 DEF SoundRecord
<1>. QED
  BY <1>2, <1>3, <1>4, <1>5, <1>6, <1>7, <1>8, <1>9, <1>10, <1>11, <1>12 DEF Path, QuietPath

LEMMA InitSound == Init => SoundRecords
<1>. SUFFICES ASSUME Init, NEW q \in Query PROVE SoundRecord(qry[q])
  BY DEF SoundRecords
<1>. QED
  BY FreshSoundRecord DEF Init, FreshQuery

LEMMA NextSound ==
  ASSUME Inv, SoundRecords, [Next]_vars
  PROVE  SoundRecords'
<1>1. CASE qry' = qry
  BY <1>1 DEF SoundRecords
<1>2. ASSUME NEW q \in Query, Path(q) PROVE SoundRecords'
  <2>1. TypeOK /\ OthersKeep(q) /\ SoundRecord(qry'[q])
    BY <1>2, PathChangesOne, PathSound DEF Inv, SoundRecords
  <2>2. \A p \in Query : SoundRecord(qry'[p])
    BY <2>1 DEF SoundRecords, OthersKeep
  <2>. QED
    BY <2>2 DEF SoundRecords
<1>. QED
  BY <1>1, <1>2, OnePath

LEMMA SoundHolds == Spec => [](Inv /\ SoundRecords)
<1>1. Inv /\ SoundRecords /\ [Next]_vars => SoundRecords'
  BY NextSound
<1>. QED
  BY <1>1, InitSound, InvHolds, PTL DEF Spec

\* No query is transmitted more often than nservers * tries, plus the once
\* that a truncated answer moves it to TCP, however often servers refuse it,
\* time out, reset the connection, or answer late.
THEOREM BudgetKept == Spec => []SendsBounded
<1>1. SoundRecords => SendsBounded
  BY DEF SoundRecords, SoundRecord, SendsBounded
<1>. QED
  BY <1>1, SoundHolds, PTL

-----------------------------------------------------------------------------
(* Skipped servers *)

\* Only handle_error takes a query out of the list it has stolen, to move it on.
LEMMA StolenMovesOn ==
  ASSUME Inv, [Next]_vars, NEW q \in Stolen, q \notin Stolen'
  PROVE  qry'[q].pc = "next"
<1>. USE DEF chanVars, ctlVars
<1>0. q \in Query /\ qry \in [Query -> QueryRecord]
  BY DEF Inv, TypeOK, Stolen
<1>1. CASE MoveOn
  <2>1. PICK p \in todo : /\ qry' = [qry EXCEPT ![p].pc = "next", ![p].skip = SkipServer(@, err)]
                          /\ todo' = todo \ {p}
    BY <1>1 DEF MoveOn
  <2>2. p = q
    BY <1>1, <2>1 DEF MoveOn, Stolen
  <2>. QED
    BY <1>0, <2>1, <2>2 DEF QueryRecord
<1>2. CASE LoopDone
  BY <1>2 DEF LoopDone, Stolen
<1>3. CASE UNCHANGED ctlVars
  BY <1>3 DEF Stolen
<1>4. CASE Send \/ QueryStep \/ UNCHANGED vars
  BY <1>3, <1>4 DEF vars, Send, QueryStep, OpenFails, SendTcp, SendTcpNoMemory, SendUdp, SendUdpFails,
                    NextServer, EndQuery, CallbackSends, AresSend, CallbackReturns
<1>5. CASE ProcessStep
  <2>1. CASE Timeout
    BY <2>1 DEF Timeout, Stolen
  <2>. QED
    BY <1>1, <1>2, <1>5, <2>1
       DEF ProcessStep, BeginProcess, Advance, EndLoop, WriteTcp, WriteTcpFails, ReadTcpFails,
           ReadTcpAnswer, ReadUdpFails, ReadUdpAnswer, BeginTimeouts, EndTimeouts, CloseBroken,
           UdpTurn, ServerTurn
<1>6. CASE SweepStep
  <2>1. CASE SweepQuery
    BY <2>1 DEF SweepQuery, Stolen
  <2>. QED
    BY <1>2, <1>6, <2>1 DEF SweepStep, BeginSweep, EndSweep
<1>. QED
  BY <1>4, <1>5, <1>6 DEF Next

LEMMA NextSkipped ==
  ASSUME Inv, SkippedStaySkipped, [Next]_vars
  PROVE  SkippedStaySkipped'
<1>. SUFFICES ASSUME NEW q \in live', qry'[q].pc \in {"send", "rest"}, q \notin Stolen'
              PROVE  qry'[q].server \notin qry'[q].skip
  BY DEF SkippedStaySkipped
<1>0. TypeOK /\ TypeOK' /\ q \in Query
  BY NextType DEF Inv, TypeOK
<1>1. /\ q \in DOMAIN qry
      /\ DOMAIN qry[q] = {"server", "tryCount", "skip", "usingTcp", "gen", "error", "armed",
                          "result", "pc", "caller", "sends"}
  BY <1>0 DEF TypeOK, QueryRecord
<1>2. q \notin Stolen
  BY StolenMovesOn
<1>3. ASSUME qry[q].pc \in {"send", "rest"}
      PROVE  qry[q].server \notin qry[q].skip
  BY <1>0, <1>2, <1>3 DEF Inv, InFlight, LiveQueries, SkippedStaySkipped
<1>4. CASE qry'[q] = qry[q]
  BY <1>3, <1>4
<1>5. CASE Path(q)
  <2>1. CASE Accepted(q)
    <3>1. PICK c \in Query \cup {NoQuery}, large \in BOOLEAN :
            qry'[q] = [FreshQuery EXCEPT !.pc = "send", !.caller = c, !.server = lastServer,
                                         !.usingTcp = UseVc \/ large]
      BY <1>1, <2>1 DEF Accepted, Becomes
    <3>. QED
      BY <3>1 DEF FreshQuery
  <2>2. CASE AttemptMade(q)
    <3>1. qry'[q].server = qry[q].server /\ qry'[q].skip = qry[q].skip /\ qry[q].pc = "send"
      BY <1>1, <2>2 DEF AttemptMade, Becomes
    <3>. QED
      BY <1>3, <3>1
  <2>3. CASE NextServer(q)
    <3>. DEFINE s == (qry[q].server + 1) % NServers
                t == qry[q].tryCount + 1
    <3>2. CASE Exhausted(t)
      <4>1. qry'[q].pc = "end"
        BY <1>1, <2>3, <3>2 DEF NextServer, QueryRecord
      <4>. QED
        BY <4>1
    <3>3. CASE ~Exhausted(t)
      <4>. HIDE DEF s, t
      <4>1. qry'[q] = [qry[q] EXCEPT !.tryCount = t, !.server = s,
                                     !.pc = IF Usable(q, s) THEN "send" ELSE "next"]
        BY <1>1, <2>3, <3>3 DEF NextServer, s, t
      <4>2. qry'[q].skip = qry[q].skip /\ qry'[q].server = s
        BY <1>1, <4>1 DEF QueryRecord
      <4>3. ~Usable(q, s) => qry'[q].pc = "next"
        BY <1>1, <4>1 DEF QueryRecord
      <4>. QED
        BY <4>2, <4>3 DEF Usable
    <3>. QED
      BY <3>2, <3>3
  <2>4. CASE LateRefusal(q)
    <3>1. PICK s \in Server \ {qry[q].server} :
            qry'[q] = [qry[q] EXCEPT !.skip = SkipServer(@, s)]
      BY <1>1, <2>4 DEF LateRefusal, Becomes
    <3>2. qry'[q].server = qry[q].server /\ qry'[q].skip = SkipServer(qry[q].skip, s)
      BY <1>1, <3>1 DEF QueryRecord
    <3>. QED
      <4>1. qry[q].server \notin qry[q].skip /\ s # qry[q].server
        BY <1>3, <2>4, <3>1 DEF LateRefusal
      <4>. QED
        BY <3>2, <4>1 DEF SkipServer
  <2>5. CASE Truncated(q)
    BY <1>1, <1>3, <2>5 DEF Truncated, Becomes, QueryRecord
  <2>6. CASE \/ RefusedAtOnce(q) \/ AttemptFails(q) \/ NoMemoryToSend(q) \/ MovesOn(q)
             \/ AnswerTaken(q) \/ CalledBack(q) \/ Swept(q) \/ Freed(q)
    <3>1. qry'[q].pc \in {"callback", "next", "end", "done"}
      <4>1. CASE RefusedAtOnce(q) \/ Freed(q)
        BY <1>1, <4>1 DEF RefusedAtOnce, Freed, Becomes, FreshQuery
      <4>2. CASE AttemptFails(q)
        BY <1>1, <4>2 DEF AttemptFails, GiveUpServer
      <4>3. CASE NoMemoryToSend(q) \/ AnswerTaken(q) \/ CalledBack(q)
        BY <1>1, <4>3 DEF NoMemoryToSend, AnswerTaken, CalledBack, Becomes
      <4>4. CASE MovesOn(q)
        BY <1>1, <4>4 DEF MovesOn, Becomes
      <4>5. CASE Swept(q)
        BY <1>1, <4>5 DEF Swept, Becomes
      <4>. QED
        BY <2>6, <4>1, <4>2, <4>3, <4>4, <4>5
    <3>. QED
      BY <3>1
  <2>. QED
    BY <1>5, <2>1, <2>2, <2>3, <2>4, <2>5, <2>6 DEF Path, QuietPath
<1>. QED
  BY <1>0, <1>4, <1>5, OnePath, PathChangesOne DEF OthersKeep

\* No transmission goes to a server that the query was told to skip, even when
\* refusals of servers it has left arrive while it waits for another one.
THEOREM SkipsKept == Spec => []SkippedStaySkipped
<1>1. Init => SkippedStaySkipped
  BY DEF Init, SkippedStaySkipped
<1>2. Inv /\ SkippedStaySkipped /\ [Next]_vars => SkippedStaySkipped'
  BY NextSkipped
<1>. QED
  BY <1>1, <1>2, InvHolds, PTL DEF Spec

-----------------------------------------------------------------------------
(* The channel takes no step its callers do not know *)

\* What a step of query q means to the callers.
Seen(q, stage, sends, outcome) ==
  /\ OthersKeep(q)
  /\ StageOf(q)' = stage /\ qry'[q].sends = sends /\ OutcomeOf(q)' = outcome

\* The three mappings change at q only.
LEMMA SeenMapping ==
  ASSUME NEW q \in Query, NEW stage, NEW sends, NEW outcome, Seen(q, stage, sends, outcome)
  PROVE  \A p \in Query : /\ StageOf(p)' = (IF p = q THEN stage ELSE StageOf(p))
                          /\ qry'[p].sends = (IF p = q THEN sends ELSE qry[p].sends)
                          /\ OutcomeOf(p)' = (IF p = q THEN outcome ELSE OutcomeOf(p))
<1>1. \A p \in Query \ {q} : /\ StageOf(p)' = StageOf(p) /\ qry'[p].sends = qry[p].sends
                             /\ OutcomeOf(p)' = OutcomeOf(p)
  BY DEF Seen, OthersKeep, StageOf, OutcomeOf
<1>. QED
  BY <1>1 DEF Seen

\* What the step leaves alone.
LEMMA SeenUnchanged ==
  ASSUME NEW q \in Query, NEW stage, NEW sends, NEW outcome, Seen(q, stage, sends, outcome)
  PROVE  /\ sends = qry[q].sends => UNCHANGED [p \in Query |-> qry[p].sends]
         /\ stage = StageOf(q) => UNCHANGED [p \in Query |-> StageOf(p)]
         /\ outcome = OutcomeOf(q) => UNCHANGED [p \in Query |-> OutcomeOf(p)]
<1>1. \A p \in Query \ {q} : /\ StageOf(p)' = StageOf(p) /\ qry'[p].sends = qry[p].sends
                             /\ OutcomeOf(p)' = OutcomeOf(p)
  BY DEF Seen, OthersKeep, StageOf, OutcomeOf
<1>. QED
  BY <1>1 DEF Seen

LEMMA SeenNothing ==
  ASSUME NEW q \in Query, Seen(q, StageOf(q), qry[q].sends, OutcomeOf(q))
  PROVE  UNCHANGED Service!vars
BY SeenUnchanged DEF Service!vars

LEMMA SeenSubmit ==
  ASSUME NEW q \in Query, StageOf(q) = "new", Seen(q, "pending", qry[q].sends, OutcomeOf(q))
  PROVE  Service!Submit(q)
<1>1. [p \in Query |-> StageOf(p)]' = [[p \in Query |-> StageOf(p)] EXCEPT ![q] = "pending"]
  <2>1. \A p \in Query : StageOf(p)' = (IF p = q THEN "pending" ELSE StageOf(p))
    BY SeenMapping, Zenon
  <2>. QED
    BY <2>1
<1>2. UNCHANGED <<[p \in Query |-> qry[p].sends], [p \in Query |-> OutcomeOf(p)]>>
  BY SeenUnchanged
<1>. QED
  BY <1>1, <1>2 DEF Service!Submit

LEMMA SeenRefuse ==
  ASSUME NEW q \in Query, NEW status \in {"EBADQUERY", "ENOMEM"}, StageOf(q) = "new",
         Seen(q, "concluded", qry[q].sends, status)
  PROVE  Service!Refuse(q)
<1>1. [p \in Query |-> StageOf(p)]' = [[p \in Query |-> StageOf(p)] EXCEPT ![q] = "concluded"]
  <2>1. \A p \in Query : StageOf(p)' = (IF p = q THEN "concluded" ELSE StageOf(p))
    BY SeenMapping, Zenon
  <2>. QED
    BY <2>1
<1>5. [p \in Query |-> OutcomeOf(p)]' = [[p \in Query |-> OutcomeOf(p)] EXCEPT ![q] = status]
  <2>1. \A p \in Query : OutcomeOf(p)' = (IF p = q THEN status ELSE OutcomeOf(p))
    BY SeenMapping, Zenon
  <2>. QED
    BY <2>1
<1>2. UNCHANGED [p \in Query |-> qry[p].sends]
  BY SeenUnchanged
<1>3. [p \in Query |-> OutcomeOf(p)]' \in
        {[[p \in Query |-> OutcomeOf(p)] EXCEPT ![q] = st] : st \in {"EBADQUERY", "ENOMEM"}}
  BY <1>5
<1>4. [p \in Query |-> StageOf(p)][q] = "new"
  OBVIOUS
<1>. QED
  BY <1>1, <1>2, <1>3, <1>4, Zenon DEF Service!Refuse

LEMMA SeenTransmit ==
  ASSUME NEW q \in Query, StageOf(q) = "pending", qry[q].sends < NServers * Tries + 1,
         Seen(q, "pending", qry[q].sends + 1, OutcomeOf(q))
  PROVE  Service!Transmit(q)
<1>1. [p \in Query |-> qry[p].sends]' = [[p \in Query |-> qry[p].sends] EXCEPT ![q] = @ + 1]
  <2>1. \A p \in Query : qry'[p].sends = (IF p = q THEN qry[q].sends + 1 ELSE qry[p].sends)
    BY SeenMapping, Zenon
  <2>. QED
    BY <2>1
<1>2. UNCHANGED <<[p \in Query |-> StageOf(p)], [p \in Query |-> OutcomeOf(p)]>>
  BY SeenUnchanged
<1>3. [p \in Query |-> StageOf(p)][q] = "pending"
  OBVIOUS
<1>4. [p \in Query |-> qry[p].sends][q] < NServers * Tries + 1
  OBVIOUS
<1>. QED
  BY <1>1, <1>2, <1>3, <1>4, Zenon DEF Service!Transmit

LEMMA SeenConclude ==
  ASSUME NEW q \in Query, StageOf(q) = "pending", NEW status \in Service!Ending(q),
         Seen(q, "concluded", qry[q].sends, status)
  PROVE  Service!Conclude(q)
<1>1. [p \in Query |-> StageOf(p)]' = [[p \in Query |-> StageOf(p)] EXCEPT ![q] = "concluded"]
  <2>1. \A p \in Query : StageOf(p)' = (IF p = q THEN "concluded" ELSE StageOf(p))
    BY SeenMapping, Zenon
  <2>. QED
    BY <2>1
<1>5. [p \in Query |-> OutcomeOf(p)]' = [[p \in Query |-> OutcomeOf(p)] EXCEPT ![q] = status]
  <2>1. \A p \in Query : OutcomeOf(p)' = (IF p = q THEN status ELSE OutcomeOf(p))
    BY SeenMapping, Zenon
  <2>. QED
    BY <2>1
<1>2. UNCHANGED [p \in Query |-> qry[p].sends]
  BY SeenUnchanged
<1>3. [p \in Query |-> OutcomeOf(p)]' \in
        {[[p \in Query |-> OutcomeOf(p)] EXCEPT ![q] = st] : st \in Service!Ending(q)}
  BY <1>5
<1>4. [p \in Query |-> StageOf(p)][q] = "pending"
  OBVIOUS
<1>. QED
  BY <1>1, <1>2, <1>3, <1>4, Zenon DEF Service!Conclude

LEMMA PathService ==
  ASSUME TypeOK, NEW q \in Query, SoundRecord(qry[q]), SoundRecord(qry'[q]), Path(q)
  PROVE  [Service!Next]_(Service!vars)
<1>. DEFINE old == qry[q]
            new == qry'[q]
<1>0. OthersKeep(q) /\ old \in QueryRecord /\ DOMAIN qry = Query
  BY PathChangesOne DEF TypeOK
<1>1. /\ old.sends \in Nat /\ old.usingTcp \in BOOLEAN
      /\ DOMAIN old = {"server", "tryCount", "skip", "usingTcp", "gen", "error", "armed",
                       "result", "pc", "caller", "sends"}
  BY <1>0 DEF QueryRecord
<1>2. CASE Accepted(q)
  <2>1. PICK c \in Query \cup {NoQuery}, large \in BOOLEAN :
          new = [FreshQuery EXCEPT !.pc = "send", !.caller = c, !.server = lastServer,
                                   !.usingTcp = UseVc \/ large]
    BY <1>0, <1>2 DEF Accepted, Becomes
  <2>2. old.pc = "none" /\ new.pc = "send" /\ new.sends = old.sends
    BY <1>2, <2>1 DEF Accepted, FreshQuery, SoundRecord
  <2>3. StageOf(q) = "new" /\ Seen(q, "pending", qry[q].sends, OutcomeOf(q))
    BY <1>0, <2>2 DEF Seen, StageOf, OutcomeOf
  <2>. QED
    BY <2>3, SeenSubmit DEF Service!Next
<1>3. CASE RefusedAtOnce(q)
  <2>1. PICK c \in Query \cup {NoQuery}, status \in {"EBADQUERY", "ENOMEM"} :
          new = [FreshQuery EXCEPT !.pc = "callback", !.caller = c, !.result = status]
    BY <1>0, <1>3 DEF RefusedAtOnce, Becomes
  <2>2. old.pc = "none" /\ new.pc = "callback" /\ new.sends = old.sends /\ new.result = status
    BY <1>3, <2>1 DEF RefusedAtOnce, FreshQuery, SoundRecord
  <2>3. StageOf(q) = "new" /\ Seen(q, "concluded", qry[q].sends, status)
    BY <1>0, <2>2 DEF Seen, StageOf, OutcomeOf
  <2>. QED
    BY <2>3, SeenRefuse DEF Service!Next
<1>4. CASE AttemptFails(q) \/ AttemptMade(q)
  <2>1. old.pc = "send" /\ new.pc \in {"next", "rest"} /\ new.sends = old.sends + 1
    <3>1. CASE AttemptFails(q)
      BY <1>0, <1>1, <3>1 DEF AttemptFails, GiveUpServer
    <3>2. CASE AttemptMade(q)
      BY <1>0, <1>1, <3>2 DEF AttemptMade, Becomes
    <3>. QED
      BY <1>4, <3>1, <3>2
  <2>2. StageOf(q) = "pending" /\ Seen(q, "pending", qry[q].sends + 1, OutcomeOf(q))
    BY <1>0, <2>1 DEF Seen, StageOf, OutcomeOf
  <2>3. qry[q].sends < NServers * Tries + 1
    BY <1>1, <2>1, BudgetPositive DEF SoundRecord
  <2>. QED
    BY <2>2, <2>3, SeenTransmit DEF Service!Next
<1>5. CASE CalledBack(q)
  <2>1. old.pc = "end" /\ new.pc = "callback" /\ UNCHANGED <<qry[q].sends, qry[q].result>>
    BY <1>0, <1>1, <1>5 DEF CalledBack, Becomes
  <2>2. qry[q].result \in Service!Ending(q)
    BY <2>1 DEF SoundRecord, Service!Ending
  <2>3. StageOf(q) = "pending" /\ Seen(q, "concluded", qry[q].sends, qry[q].result)
    BY <1>0, <2>1 DEF Seen, StageOf, OutcomeOf
  <2>. QED
    BY <2>2, <2>3, SeenConclude DEF Service!Next
<1>6. CASE Swept(q)
  <2>1. PICK status \in {"ECANCELLED", "EDESTRUCTION"} :
          Becomes(q, [qry[q] EXCEPT !.pc = "callback", !.caller = NoQuery, !.result = status])
    BY <1>6 DEF Swept
  <2>2. /\ old.pc = "rest" /\ new.pc = "callback" /\ new.sends = old.sends
        /\ new.result = status
    BY <1>0, <1>1, <1>6, <2>1 DEF Swept, Becomes
  <2>3. status \in Service!Ending(q)
    BY DEF Service!Ending
  <2>4. StageOf(q) = "pending" /\ Seen(q, "concluded", qry[q].sends, status)
    BY <1>0, <2>2 DEF Seen, StageOf, OutcomeOf
  <2>. QED
    BY <2>3, <2>4, SeenConclude DEF Service!Next
<1>7. CASE \/ NoMemoryToSend(q) \/ NextServer(q) \/ MovesOn(q) \/ LateRefusal(q)
           \/ Truncated(q) \/ AnswerTaken(q)
  <2>1. /\ old.pc \in {"send", "next", "rest"} /\ new.pc \in {"send", "next", "rest", "end"}
        /\ new.sends = old.sends
    <3>1. CASE NoMemoryToSend(q)
      BY <1>0, <1>1, <3>1 DEF NoMemoryToSend, Becomes
    <3>5. CASE AnswerTaken(q)
      BY <1>0, <1>1, <3>5 DEF AnswerTaken, Becomes
    <3>6. CASE Truncated(q)
      BY <1>0, <1>1, <3>6 DEF Truncated, Becomes
    <3>2. CASE NextServer(q)
      BY <1>0, <1>1, <3>2 DEF NextServer
    <3>3. CASE MovesOn(q)
      <4>1. /\ old.pc = "rest"
            /\ \/ \E s \in Server : new = [old EXCEPT !.pc = "next", !.skip = SkipServer(@, s)]
               \/ new = [old EXCEPT !.pc = "next", !.error = "ETIMEOUT"]
        BY <1>0, <3>3 DEF MovesOn, Becomes
      <4>. QED
        BY <1>1, <4>1
    <3>4. CASE LateRefusal(q)
      BY <1>0, <1>1, <3>4 DEF LateRefusal, Becomes
    <3>. QED
      BY <1>7, <3>1, <3>2, <3>3, <3>4, <3>5, <3>6
  <2>2. Seen(q, StageOf(q), qry[q].sends, OutcomeOf(q))
    BY <1>0, <2>1 DEF Seen, StageOf, OutcomeOf
  <2>. QED
    BY <2>2, SeenNothing
<1>8. CASE Freed(q)
  <2>1. old.pc = "callback" /\ new.pc = "done" /\ new.sends = old.sends /\ new.result = old.result
    BY <1>0, <1>1, <1>8 DEF Freed, Becomes, FreshQuery
  <2>2. Seen(q, StageOf(q), qry[q].sends, OutcomeOf(q))
    BY <1>0, <2>1 DEF Seen, StageOf, OutcomeOf
  <2>. QED
    BY <2>2, SeenNothing
<1>. QED
  BY <1>2, <1>3, <1>4, <1>5, <1>6, <1>7, <1>8 DEF Path, QuietPath

LEMMA ServiceStep ==
  ASSUME Inv, SoundRecords, [Next]_vars
  PROVE  [Service!Next]_(Service!vars)
<1>1. CASE qry' = qry
  <2>1. \A q \in Query : StageOf(q)' = StageOf(q) /\ OutcomeOf(q)' = OutcomeOf(q)
    BY <1>1 DEF StageOf, OutcomeOf
  <2>. QED
    BY <1>1, <2>1 DEF Service!vars
<1>2. ASSUME NEW q \in Query, Path(q) PROVE [Service!Next]_(Service!vars)
  <2>1. TypeOK /\ SoundRecord(qry[q])
    BY DEF Inv, SoundRecords
  <2>. QED
    BY <1>2, <2>1, PathSound, PathService
<1>. QED
  BY <1>1, <1>2, OnePath

LEMMA ServiceInit == Init => Service!Init
<1>. SUFFICES ASSUME Init PROVE Service!Init
  OBVIOUS
<1>1. \A q \in Query : StageOf(q) = "new" /\ qry[q].sends = 0 /\ OutcomeOf(q) = "NONE"
  BY DEF Init, FreshQuery, StageOf, OutcomeOf
<1>. QED
  BY <1>1 DEF Service!Init

\* The channel does nothing its callers were not promised: it starts where the
\* service starts, and every step either is a step of the service (a query is
\* taken, refused, transmitted within the budget, or concluded once, with a
\* status it can have by then) or is invisible to the callers.
THEOREM ServiceSafety == Spec => Service!Init /\ [][Service!Next]_(Service!vars)
<1>1. Inv /\ SoundRecords /\ [Next]_vars => [Service!Next]_(Service!vars)
  BY ServiceStep
<1>. QED
  BY <1>1, ServiceInit, SoundHolds, PTL DEF Spec
=============================================================================
