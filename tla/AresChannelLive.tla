--------------------------- MODULE AresChannelLive ---------------------------
(***************************************************************************)
(* The channel driven by an application that keeps calling ares_process    *)
(* (the select loops of fakedns.c), and the promise it keeps.              *)
(***************************************************************************)
EXTENDS AresChannel

\* What the thread does by itself: running code goes on, the loops of
\* ares_process come to their end and the application calls ares_process
\* again.  Answers, errors of sockets and new queries are not among them.
ThreadStep ==
  \/ QueryStep \/ MoveOn \/ Timeout \/ EndTimeouts \/ CloseBroken
  \/ BeginProcess \/ Advance \/ EndLoop
  \/ \E late \in SUBSET Query : BeginTimeouts(late)

\* Time passes: a query that stays armed is late in some call of
\* process_timeouts, since a deadline is a finite time away.
DeadlinePasses(q) == \E late \in SUBSET Query : q \in late /\ BeginTimeouts(late)

Fairness == WF_vars(ThreadStep) /\ \A q \in Query : SF_vars(DeadlinePasses(q))

FairSpec == Spec /\ Fairness

-----------------------------------------------------------------------------
\* A query that was handed to ares_send does not wait for ever, whatever the
\* servers and the network do: retries, timeouts and broken connections end.
EveryQueryEnds == \A q \in Query : q \in live ~> q \notin live

\* A connection marked as broken by end_query does not stay so: it waits only
\* for process_broken_connections.
BrokenIsClosed == \A s \in Server : srv[s].broken ~> ~srv[s].broken

-----------------------------------------------------------------------------
\* The callback, not the release of the memory, is what the caller sees.
StageOf(q) ==
  IF qry[q].pc = "none" THEN "new"
  ELSE IF qry[q].pc \in {"callback", "done"} THEN "concluded" ELSE "pending"

OutcomeOf(q) == IF StageOf(q) = "concluded" THEN qry[q].result ELSE "NONE"

Service == INSTANCE ResolverService WITH
  Budget <- NServers * Tries + 1,
  stage <- [q \in Query |-> StageOf(q)],
  attempts <- [q \in Query |-> qry[q].sends],
  outcome <- [q \in Query |-> OutcomeOf(q)]

\* The channel implements the service its callers rely on, fairness included.
ImplementsService == Service!Spec
=============================================================================
