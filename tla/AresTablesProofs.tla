-------------------------- MODULE AresTablesProofs --------------------------
(***************************************************************************)
(* No deadline is missed: for every size of the tables, every back-off     *)
(* that fits an int, and however long ares_process is not called.          *)
(***************************************************************************)
EXTENDS AresTables, TLAPS, NaturalsInduction, WellFoundedInduction

QueryRecord == [listed : BOOLEAN, id : Id, question : Question,
                tryCount : Attempt, deadline : Nat]

-----------------------------------------------------------------------------
(* Arithmetic of seconds and of the back-off *)

LEMMA SecPositive == Sec \in Nat \ {0}
BY SizesAssumption DEF Sec

LEMMA SecOfType ==
  ASSUME NEW t \in Nat
  PROVE  SecOf(t) \in Nat
<1>. DEFINE S == Sec
<1>1. S \in Nat \ {0}
  BY SecPositive
<1>2. t \div S \in Nat
  <2>. HIDE DEF S
  <2>. QED BY <1>1
<1>. QED
  BY <1>2 DEF SecOf

LEMMA SecOfMonotone ==
  ASSUME NEW s \in Nat, NEW t \in Nat, s <= t
  PROVE  SecOf(s) <= SecOf(t)
<1>. DEFINE S == Sec
<1>1. S \in Nat \ {0}
  BY SecPositive
<1>2. s \div S <= t \div S
  <2>. HIDE DEF S
  <2>1. /\ s \div S \in Nat /\ s % S \in 0 .. S - 1 /\ s = S * (s \div S) + (s % S)
        /\ t \div S \in Nat /\ t % S \in 0 .. S - 1 /\ t = S * (t \div S) + (t % S)
    BY <1>1
  <2>2. ASSUME s \div S >= t \div S + 1
        PROVE  FALSE
    <3>1. S * (s \div S) >= S * (t \div S + 1)
      BY <1>1, <2>1, <2>2
    <3>2. S * (t \div S + 1) = S * (t \div S) + S
      BY <1>1, <2>1
    <3>. QED
      BY <1>1, <2>1, <3>1, <3>2
  <2>. QED
    BY <2>1, <2>2
<1>. QED
  BY <1>2 DEF SecOf

\* Every attempt waits for at least one millisecond.
LEMMA TimePlusPositive ==
  ASSUME NEW k \in Attempt, NEW r \in Rands
  PROVE  TimePlus(k, r) \in Nat \ {0}
<1>. DEFINE round == k \div NServers
            base == Timeout * 2^round
<1>1. round \in 0 .. Tries - 1
  <2>1. /\ k \in Nat /\ k < NServers * Tries
        /\ NServers \in Nat \ {0} /\ Tries \in Nat \ {0}
    BY SizesAssumption DEF Attempt
  <2>2. k \div NServers \in Nat /\ k = NServers * (k \div NServers) + (k % NServers)
        /\ k % NServers \in Nat
    BY <2>1
  <2>3. ASSUME k \div NServers >= Tries
        PROVE  FALSE
    <3>1. NServers * (k \div NServers) >= NServers * Tries
      BY <2>1, <2>2, <2>3
    <3>. QED
      BY <2>1, <2>2, <3>1
  <2>. QED
    BY <2>1, <2>2, <2>3
<1>2. base \in Nat /\ base >= 2
  <2>1. base \in 2 .. IntMax \div 16
    BY <1>1, BackoffAssumption
  <2>2. IntMax \div 16 \in Int
    BY SizesAssumption
  <2>. QED
    BY <2>1, <2>2
<1>3. r \in 0 .. 7
  BY SizesAssumption
<1>4. (base * (9 + r)) \div 16 \in Nat \ {0}
  <2>. HIDE DEF base
  <2>1. base * (9 + r) \in Nat /\ base * (9 + r) >= 18
    BY <1>2, <1>3
  <2>. QED
    BY <2>1
<1>. QED
  BY <1>4 DEF TimePlus

\* A transmission at time t is late only after t.
LEMMA DeadlineAfter ==
  ASSUME NEW k \in Attempt, NEW t \in Nat, NEW d \in Deadlines(k, t)
  PROVE  d \in Nat /\ d > t
<1>1. PICK r \in Rands : d = t + TimePlus(k, r) * Msec
  BY DEF Deadlines
<1>2. TimePlus(k, r) \in Nat \ {0} /\ Msec \in Nat \ {0}
  BY TimePlusPositive, SizesAssumption
<1>3. TimePlus(k, r) * Msec \in Nat /\ TimePlus(k, r) * Msec >= 1
  BY <1>2
<1>. QED
  BY <1>1, <1>3

\* What becomes of a query sent at time t: it is over, or late after t; it
\* still asks the same.
LEMMA SentRecord ==
  ASSUME NEW rec \in QueryRecord, NEW n \in Int, NEW t \in Nat, NEW new \in Sent(rec, n, t)
  PROVE  /\ new \in QueryRecord
         /\ new.listed => new.deadline > t
         /\ new.question = rec.question
<1>1. CASE new = [rec EXCEPT !.listed = FALSE, !.tryCount = 0, !.deadline = 0]
  <2>1. 0 \in Attempt
    BY SizesAssumption DEF Attempt
  <2>2. new \in QueryRecord /\ new.listed = FALSE /\ new.question = rec.question
    BY <1>1, <2>1 DEF QueryRecord
  <2>. QED
    BY <2>2
<1>2. ASSUME NEW k \in AttemptsFrom(n), NEW d \in Deadlines(k, t),
             new = [rec EXCEPT !.tryCount = k, !.deadline = d]
      PROVE  /\ new \in QueryRecord
             /\ new.listed => new.deadline > t
             /\ new.question = rec.question
  <2>1. k \in Attempt
    BY DEF AttemptsFrom
  <2>2. d \in Nat /\ d > t
    BY <2>1, DeadlineAfter
  <2>3. new \in QueryRecord /\ new.deadline = d /\ new.question = rec.question
    BY <1>2, <2>1, <2>2 DEF QueryRecord
  <2>. QED
    BY <2>2, <2>3
<1>. QED
  BY <1>1, <1>2 DEF Sent

-----------------------------------------------------------------------------
(* The inductive invariant *)

\* ares_process never works with a time ahead of the clock, nor walks again
\* from a second ahead of it.
ClocksOrdered ==
  /\ 1 <= last
  /\ now <= clock
  /\ last <= SecOf(clock)
  /\ phase = "read" => last <= SecOf(now)

IInv == TypeOK /\ ClocksOrdered /\ DeadlineAhead

LEMMA ProcessTimeoutsRecords ==
  ASSUME IInv, ProcessTimeouts, NEW q \in Query
  PROVE  /\ query'[q] \in QueryRecord
         /\ query'[q].listed => now < query'[q].deadline
<1>1. query'[q] \in IF q \in Late THEN NextServer(query[q]) ELSE {query[q]}
  BY DEF ProcessTimeouts
<1>2. query[q] \in QueryRecord /\ now \in Nat /\ last \in Nat /\ phase = "read"
  BY DEF IInv, TypeOK, QueryRecord, ProcessTimeouts
<1>3. CASE q \in Late
  <2>1. query'[q] \in Sent(query[q], query[q].tryCount + 1, now)
    BY <1>1, <1>3 DEF NextServer
  <2>2. query[q].tryCount + 1 \in Int
    BY <1>2 DEF QueryRecord, Attempt
  <2>. QED
    BY <1>2, <2>1, <2>2, SentRecord
<1>4. CASE q \notin Late
  <2>1. query'[q] = query[q]
    BY <1>1, <1>4
  <2>2. ASSUME query[q].listed, query[q].deadline <= now
        PROVE  FALSE
    <3>. DEFINE d == query[q].deadline
    <3>1. d \in Nat
      BY <1>2 DEF QueryRecord
    <3>2. SecOf(d) \in Nat /\ SecOf(now) \in Nat /\ SecOf(d) <= SecOf(now)
      BY <1>2, <2>2, <3>1, SecOfType, SecOfMonotone
    <3>3. last <= SecOf(d) /\ SecOf(d) # 0
      BY <1>2, <2>2, <3>2 DEF IInv, ClocksOrdered, DeadlineAhead, Listed
    <3>4. SecOf(d) \in Seconds
      BY <1>2, <3>2, <3>3 DEF Seconds
    <3>5. q \in Late
      BY <2>2, <3>1, <3>4, <3>3, <1>2 DEF Late, Armed, Listed, TimedOut
    <3>. QED
      BY <3>5, <1>4
  <2>. QED
    BY <1>2, <2>1, <2>2 DEF QueryRecord
<1>. QED
  BY <1>3, <1>4

LEMMA InvariantInit == Init => IInv
<1>. SUFFICES ASSUME Init PROVE IInv
  OBVIOUS
<1>1. SecOf(Sec) = 1
  <2>. DEFINE S == Sec
  <2>1. S \in Nat \ {0}
    BY SecPositive
  <2>2. S \div S = 1
    <3>. HIDE DEF S
    <3>1. S \div S \in Nat /\ S % S \in 0 .. S - 1 /\ S = S * (S \div S) + (S % S)
      BY <2>1
    <3>2. CASE S \div S = 0
      BY <2>1, <3>1, <3>2
    <3>3. ASSUME S \div S >= 2
          PROVE  FALSE
      <4>1. S * (S \div S) >= S * 2
        BY <2>1, <3>1, <3>3
      <4>. QED
        BY <2>1, <3>1, <4>1
    <3>. QED
      BY <3>1, <3>2, <3>3
  <2>. QED
    BY <2>2 DEF SecOf
<1>2. Sec \in 0 .. MaxClock /\ Sec \in Nat
  BY SecPositive, SizesAssumption
<1>2a. 0 \in 0 .. MaxClock /\ 0 \in 0 .. MaxQueries /\ 0 \in Attempt
  BY SizesAssumption DEF Attempt
<1>3. 0 \in Id /\ 1 \in Id
  <2>1. IdHalf * IdHalf >= 2 /\ IdHalf * IdHalf \in Nat
    BY SizesAssumption
  <2>. QED
    BY <2>1 DEF Id
<1>4. FreshQuery \in QueryRecord
  <2>1. (CHOOSE n \in Question : TRUE) \in Question
    BY SizesAssumption
  <2>. QED
    BY <1>2a, <1>3, <2>1 DEF FreshQuery, QueryRecord
<1>5. TypeOK
  BY <1>1, <1>2, <1>2a, <1>3, <1>4 DEF Init, TypeOK, QueryRecord
<1>6. Listed = {}
  BY DEF Init, Listed, FreshQuery
<1>. QED
  BY <1>1, <1>2, <1>5, <1>6 DEF Init, IInv, ClocksOrdered, DeadlineAhead

LEMMA InvariantNext == IInv /\ [Next]_vars => IInv'
<1>. SUFFICES ASSUME IInv, [Next]_vars PROVE IInv'
  OBVIOUS
<1>0. /\ clock \in Nat /\ now \in Nat /\ last \in Nat /\ SecOf(clock) \in Nat /\ SecOf(now) \in Nat
      /\ \A q \in Query : query[q] \in QueryRecord
      /\ DOMAIN query = Query
  BY SecOfType DEF IInv, TypeOK, QueryRecord
<1>1. ASSUME Tick PROVE IInv'
  <2>1. clock' \in Nat /\ clock' \in 0 .. MaxClock /\ clock <= clock'
    BY <1>0, <1>1, SizesAssumption DEF Tick
  <2>2. SecOf(clock) <= SecOf(clock') /\ SecOf(clock') \in Nat
    BY <1>0, <2>1, SecOfMonotone, SecOfType
  <2>3. TypeOK'
    BY <1>1, <2>1 DEF Tick, IInv, TypeOK
  <2>4. ClocksOrdered'
    BY <1>0, <1>1, <2>1, <2>2 DEF Tick, IInv, ClocksOrdered, SecOf
  <2>5. DeadlineAhead'
    BY <1>1 DEF Tick, IInv, DeadlineAhead, Listed
  <2>. QED
    BY <2>3, <2>4, <2>5 DEF IInv
<1>2. ASSUME Process PROVE IInv'
  <2>1. TypeOK' /\ ClocksOrdered'
    BY <1>0, <1>2 DEF Process, IInv, TypeOK, ClocksOrdered, SecOf
  <2>2. DeadlineAhead'
    BY <1>2 DEF Process, IInv, DeadlineAhead, Listed
  <2>. QED
    BY <2>1, <2>2 DEF IInv
<1>3. ASSUME ProcessTimeouts PROVE IInv'
  <2>1. \A q \in Query : query'[q] \in QueryRecord /\ (query'[q].listed => now < query'[q].deadline)
    BY <1>3, ProcessTimeoutsRecords
  <2>2. query' \in [Query -> QueryRecord]
    BY <1>3, <2>1 DEF ProcessTimeouts
  <2>3. TypeOK'
    BY <1>0, <1>3, <2>2, SizesAssumption DEF ProcessTimeouts, IInv, TypeOK, QueryRecord, WalkedTo
  <2>4. SecOf(now) <= SecOf(clock)
    BY <1>0, SecOfMonotone DEF IInv, ClocksOrdered
  <2>5. ClocksOrdered'
    BY <1>0, <1>3, <2>4 DEF ProcessTimeouts, IInv, ClocksOrdered, WalkedTo, SecOf
  <2>6. ASSUME NEW q \in Query, query'[q].listed
        PROVE  last' <= SecOf(query'[q].deadline)
    <3>1. query'[q].deadline \in Nat /\ now <= query'[q].deadline
      BY <1>0, <2>1, <2>6 DEF QueryRecord
    <3>2. SecOf(now) <= SecOf(query'[q].deadline)
      BY <1>0, <3>1, SecOfMonotone
    <3>. QED
      BY <1>3, <3>2 DEF ProcessTimeouts, WalkedTo
  <2>7. DeadlineAhead'
    BY <2>6 DEF DeadlineAhead, Listed, SecOf
  <2>. QED
    BY <2>3, <2>5, <2>7 DEF IInv
<1>4. ASSUME NEW name \in Question, AresQuery(name) PROVE IInv'
  <2>. DEFINE q == used + 1
              start == [listed |-> TRUE, id |-> nextId, question |-> name,
                        tryCount |-> 0, deadline |-> 0]
  <2>1. used \in 0 .. MaxQueries /\ q \in Query /\ nextId \in Id
    BY <1>4, SizesAssumption DEF AresQuery, IInv, TypeOK, Query
  <2>2. start \in QueryRecord
    BY <2>1, SizesAssumption DEF QueryRecord, Attempt
  <2>3. PICK rec \in Sent(start, 0, clock) : query' = [query EXCEPT ![q] = rec]
    BY <1>4 DEF AresQuery
  <2>4. rec \in QueryRecord /\ (rec.listed => rec.deadline > clock)
    BY <1>0, <2>2, SentRecord
  <2>5. query' \in [Query -> QueryRecord]
    BY <1>0, <2>3, <2>4
  <2>6. nextId' \in Id /\ used' \in 0 .. MaxQueries
    BY <1>4, <2>1 DEF AresQuery, UniqueId, Query
  <2>7. TypeOK'
    BY <1>4, <2>5, <2>6 DEF AresQuery, IInv, TypeOK, QueryRecord
  <2>8. ClocksOrdered'
    BY <1>4 DEF AresQuery, IInv, ClocksOrdered, SecOf
  <2>9. ASSUME NEW r \in Query, query'[r].listed
        PROVE  last <= SecOf(query'[r].deadline)
    <3>1. CASE r = q
      <4>1. query'[r] = rec
        BY <1>0, <2>1, <2>3, <3>1
      <4>2. rec.deadline \in Nat /\ clock <= rec.deadline
        BY <1>0, <2>4, <2>9, <4>1 DEF QueryRecord
      <4>3. SecOf(clock) <= SecOf(rec.deadline) /\ SecOf(rec.deadline) \in Nat
        BY <1>0, <4>2, SecOfMonotone, SecOfType
      <4>. QED
        BY <1>0, <4>1, <4>3 DEF IInv, ClocksOrdered
    <3>2. CASE r # q
      <4>1. query'[r] = query[r]
        BY <1>0, <2>3, <3>2
      <4>. QED
        BY <2>9, <4>1 DEF IInv, DeadlineAhead, Listed
    <3>. QED
      BY <3>1, <3>2
  <2>10. DeadlineAhead'
    <3>1. last' = last
      BY <1>4 DEF AresQuery
    <3>. QED
      BY <2>9, <3>1 DEF DeadlineAhead, Listed, SecOf
  <2>. QED
    BY <2>7, <2>8, <2>10 DEF IInv
<1>5. ASSUME NEW packet \in Answers, ProcessAnswer(packet) PROVE IInv'
  <2>1. PICK q \in Addressee(packet) :
          \E rec \in Sent(query[q], query[q].tryCount, now) :
            /\ query' = [query EXCEPT ![q] = rec]
            /\ got' = IF rec.listed THEN got
                      ELSE [got EXCEPT ![q] = @ \cup {packet.question}]
    BY <1>5 DEF ProcessAnswer
  <2>2. PICK rec \in Sent(query[q], query[q].tryCount, now) :
          /\ query' = [query EXCEPT ![q] = rec]
          /\ got' = IF rec.listed THEN got
                    ELSE [got EXCEPT ![q] = @ \cup {packet.question}]
    BY <2>1
  <2>3. q \in Query /\ packet.question \in Question
    BY <1>0, <2>1 DEF Addressee, Asking, Listed, QueryRecord
  <2>4. rec \in QueryRecord /\ (rec.listed => rec.deadline > now)
    <3>1. query[q].tryCount \in Int
      BY <1>0, <2>3 DEF QueryRecord, Attempt
    <3>. QED
      BY <1>0, <2>3, <3>1, SentRecord
  <2>5. query' \in [Query -> QueryRecord]
    BY <1>0, <2>2, <2>3, <2>4
  <2>6. got' \in [Query -> SUBSET Question]
    BY <2>2, <2>3 DEF IInv, TypeOK
  <2>7. TypeOK'
    BY <1>5, <2>5, <2>6 DEF ProcessAnswer, IInv, TypeOK, QueryRecord
  <2>8. ClocksOrdered' /\ last' = last /\ phase = "read"
    BY <1>5 DEF ProcessAnswer, IInv, ClocksOrdered, SecOf
  <2>9. ASSUME NEW r \in Query, query'[r].listed
        PROVE  last <= SecOf(query'[r].deadline)
    <3>1. CASE r = q
      <4>1. query'[r] = rec
        BY <1>0, <2>2, <2>3, <3>1
      <4>2. rec.deadline \in Nat /\ now <= rec.deadline
        BY <1>0, <2>4, <2>9, <4>1 DEF QueryRecord
      <4>3. SecOf(now) <= SecOf(rec.deadline) /\ SecOf(rec.deadline) \in Nat
        BY <1>0, <4>2, SecOfMonotone, SecOfType
      <4>4. last <= SecOf(now)
        BY <2>8 DEF IInv, ClocksOrdered
      <4>. QED
        BY <1>0, <4>1, <4>3, <4>4
    <3>2. CASE r # q
      <4>1. query'[r] = query[r]
        BY <1>0, <2>2, <3>2
      <4>. QED
        BY <2>9, <4>1 DEF IInv, DeadlineAhead, Listed
    <3>. QED
      BY <3>1, <3>2
  <2>10. DeadlineAhead'
    BY <2>8, <2>9 DEF DeadlineAhead, Listed, SecOf
  <2>. QED
    BY <2>7, <2>8, <2>10 DEF IInv
<1>6. ASSUME UNCHANGED vars PROVE IInv'
  BY <1>6 DEF vars, IInv, TypeOK, ClocksOrdered, DeadlineAhead, Listed, SecOf
<1>. QED
  BY <1>1, <1>2, <1>3, <1>4, <1>5, <1>6 DEF Next

\* The types of the tables and of the clocks.
THEOREM TablesTyped == Spec => []TypeOK
<1>1. IInv => TypeOK
  BY DEF IInv
<1>. QED
  BY <1>1, InvariantInit, InvariantNext, PTL DEF Spec

\* process_timeouts always starts at or before the bucket of every deadline,
\* whatever the clock does between two calls of ares_process.
THEOREM NextWalkInTime == Spec => []DeadlineAhead
<1>1. IInv => DeadlineAhead
  BY DEF IInv
<1>. QED
  BY <1>1, InvariantInit, InvariantNext, PTL DEF Spec

\* When process_timeouts returns, no query in flight is late.
THEOREM TimeoutsExhaustive == Spec => NoDeadlineMissed
<1>1. IInv /\ [Next]_vars =>
        [ProcessTimeouts => \A q \in Query : query'[q].listed => now < query'[q].deadline]_vars
  BY ProcessTimeoutsRecords
<1>. QED
  BY <1>1, InvariantInit, InvariantNext, PTL DEF Spec, NoDeadlineMissed

-----------------------------------------------------------------------------
(* Answers *)

\* A query that does not exist yet is in no bucket and has no answer.
NotYetAsked == \A q \in Query : q > used => ~query[q].listed /\ got[q] = {}

LEMMA AnswersInit == Init => NotYetAsked /\ AnswerFits
BY DEF Init, NotYetAsked, AnswerFits, FreshQuery

LEMMA AnswersNext ==
  IInv /\ NotYetAsked /\ AnswerFits /\ [Next]_vars => NotYetAsked' /\ AnswerFits'
<1>. SUFFICES ASSUME IInv, NotYetAsked, AnswerFits, [Next]_vars
              PROVE  NotYetAsked' /\ AnswerFits'
  OBVIOUS
<1>0. /\ now \in Nat /\ clock \in Nat /\ used \in 0 .. MaxQueries /\ MaxQueries \in Nat
      /\ \A q \in Query : query[q] \in QueryRecord
      /\ DOMAIN query = Query /\ DOMAIN got = Query
  BY SizesAssumption DEF IInv, TypeOK, QueryRecord
<1>1. CASE Tick \/ Process \/ UNCHANGED vars
  BY <1>1 DEF Tick, Process, vars, NotYetAsked, AnswerFits
<1>2. CASE ProcessTimeouts
  <2>1. ASSUME NEW q \in Query
        PROVE  query'[q] = query[q] \/ (query[q].listed /\ query'[q].question = query[q].question)
    <3>1. query'[q] \in IF q \in Late THEN NextServer(query[q]) ELSE {query[q]}
      BY <1>2 DEF ProcessTimeouts
    <3>2. CASE q \in Late
      <4>1. query'[q] \in Sent(query[q], query[q].tryCount + 1, now) /\ query[q].listed
        BY <3>1, <3>2 DEF NextServer, Late, Armed, Listed
      <4>2. query[q].tryCount + 1 \in Int
        BY <1>0 DEF QueryRecord, Attempt
      <4>. QED
        BY <1>0, <4>1, <4>2, SentRecord
    <3>. QED
      BY <3>1, <3>2
  <2>2. used' = used /\ got' = got
    BY <1>2 DEF ProcessTimeouts
  <2>. QED
    BY <2>1, <2>2 DEF NotYetAsked, AnswerFits
<1>3. ASSUME NEW name \in Question, AresQuery(name)
      PROVE  NotYetAsked' /\ AnswerFits'
  <2>1. used' = used + 1 /\ got' = got /\ used + 1 \in Query
    BY <1>0, <1>3 DEF AresQuery, Query
  <2>2. PICK rec : query' = [query EXCEPT ![used + 1] = rec]
    BY <1>3 DEF AresQuery
  <2>3. \A q \in Query : q # used + 1 => query'[q] = query[q]
    BY <1>0, <2>2
  <2>4. got[used + 1] = {}
    BY <1>0, <2>1 DEF NotYetAsked
  <2>5. \A q \in Query : q \in Int
    BY DEF Query
  <2>6. NotYetAsked'
    BY <1>0, <2>1, <2>3, <2>5 DEF NotYetAsked
  <2>7. AnswerFits'
    BY <2>1, <2>3, <2>4 DEF AnswerFits
  <2>. QED
    BY <2>6, <2>7
<1>4. ASSUME NEW packet \in Answers, ProcessAnswer(packet)
      PROVE  NotYetAsked' /\ AnswerFits'
  <2>1. PICK q \in Addressee(packet) :
          \E rec \in Sent(query[q], query[q].tryCount, now) :
            /\ query' = [query EXCEPT ![q] = rec]
            /\ got' = IF rec.listed THEN got
                      ELSE [got EXCEPT ![q] = @ \cup {packet.question}]
    BY <1>4 DEF ProcessAnswer
  <2>2. PICK rec \in Sent(query[q], query[q].tryCount, now) :
          /\ query' = [query EXCEPT ![q] = rec]
          /\ got' = IF rec.listed THEN got
                    ELSE [got EXCEPT ![q] = @ \cup {packet.question}]
    BY <2>1
  <2>3. q \in Query /\ query[q].listed /\ packet.question = query[q].question
    BY <2>1 DEF Addressee, Asking, Listed
  <2>4. rec.question = query[q].question
    <3>1. query[q].tryCount \in Int
      BY <1>0, <2>3 DEF QueryRecord, Attempt
    <3>. QED
      BY <1>0, <2>3, <3>1, SentRecord
  <2>5. used' = used
    BY <1>4 DEF ProcessAnswer
  <2>6. ASSUME NEW r \in Query
        PROVE  /\ query'[r] = IF r = q THEN rec ELSE query[r]
               /\ got'[r] \subseteq IF r = q THEN got[q] \cup {packet.question} ELSE got[r]
    BY <1>0, <2>2, <2>3
  <2>7. ~(q > used)
    BY <2>3 DEF NotYetAsked
  <2>8. NotYetAsked'
    BY <2>5, <2>6, <2>7 DEF NotYetAsked
  <2>9. AnswerFits'
    BY <2>3, <2>4, <2>6 DEF AnswerFits
  <2>. QED
    BY <2>8, <2>9
<1>. QED
  BY <1>1, <1>2, <1>3, <1>4 DEF Next

\* Late packets and shared ids notwithstanding, a query only ends with an
\* answer to its own question.
THEOREM AnswersFit == Spec => []AnswerFits
BY InvariantInit, InvariantNext, AnswersInit, AnswersNext, PTL DEF Spec

-----------------------------------------------------------------------------
(* How long a caller sleeps *)

LEMMA TowardsZeroClose ==
  ASSUME NEW n \in Int, NEW d \in Nat \ {0}
  PROVE  /\ TowardsZero(n, d) \in Int
         /\ n - d < TowardsZero(n, d) * d /\ TowardsZero(n, d) * d < n + d
<1>1. ASSUME NEW k \in Nat
      PROVE  /\ k \div d \in Nat
             /\ k - d < (k \div d) * d /\ (k \div d) * d <= k
  <2>1. k \div d \in Nat /\ k % d \in 0 .. d - 1 /\ k = d * (k \div d) + (k % d)
    OBVIOUS
  <2>2. d * (k \div d) = (k \div d) * d /\ (k \div d) * d \in Nat
    BY <2>1
  <2>. QED
    BY <2>1, <2>2
<1>2. CASE n >= 0
  <2>1. TowardsZero(n, d) = n \div d
    BY <1>2 DEF TowardsZero
  <2>. QED
    BY <1>1, <1>2, <2>1
<1>3. CASE ~(n >= 0)
  <2>1. PICK k \in Nat : k = -n
    BY <1>3
  <2>2. PICK m \in Nat : m = k \div d
    BY <1>1, <2>1
  <2>3. k - d < m * d /\ m * d <= k
    BY <1>1, <2>2
  <2>4. TowardsZero(n, d) = -m
    BY <1>3, <2>1, <2>2 DEF TowardsZero
  <2>5. (-m) * d = -(m * d) /\ m * d \in Nat
    BY <2>2
  <2>. QED
    BY <2>1, <2>3, <2>4, <2>5
<1>. QED
  BY <1>2, <1>3

LEMMA SecondsAndRest ==
  ASSUME NEW t \in Nat
  PROVE  /\ SecOf(t) \in Nat /\ t % Sec \in Nat
         /\ t = SecOf(t) * Sec + (t % Sec)
<1>1. PICK S \in Nat \ {0} : S = Sec
  BY SecPositive
<1>2. t \div S \in Nat /\ t % S \in Nat /\ t = S * (t \div S) + (t % S)
  BY <1>1
<1>. QED
  BY <1>1, <1>2 DEF SecOf

\* An offset in milliseconds is less than one millisecond off the truth.
LEMMA OffsetClose ==
  ASSUME NEW t \in Nat, NEW d \in Nat
  PROVE  /\ TimeOffset(t, d) \in Int
         /\ d - t - Msec < TimeOffset(t, d) * Msec
         /\ TimeOffset(t, d) * Msec < d - t + Msec
<1>1. PICK S \in Nat \ {0}, m \in Nat \ {0}, n \in Nat \ {0} :
        S = Sec /\ m = Msec /\ n = SecMsecs /\ S = m * n
  BY SecPositive, SizesAssumption DEF Sec
<1>2. ASSUME NEW k \in Nat
      PROVE  \E a \in Nat, r \in Nat : a = SecOf(k) /\ r = k % Sec /\ k = a * S + r
  <2>1. SecOf(k) \in Nat /\ k % Sec \in Nat /\ k = SecOf(k) * Sec + (k % Sec)
    BY SecondsAndRest
  <2>. QED
    BY <1>1, <2>1
<1>3. PICK a \in Nat, r \in Nat : a = SecOf(t) /\ r = t % Sec /\ t = a * S + r
  BY <1>2
<1>4. PICK b \in Nat, u \in Nat : b = SecOf(d) /\ u = d % Sec /\ d = b * S + u
  BY <1>2
<1>5. PICK x \in Int : x = u - r
  OBVIOUS
<1>6. PICK z : z = TowardsZero(x, m)
  OBVIOUS
<1>7. z \in Int /\ x - m < z * m /\ z * m < x + m
  BY <1>6, TowardsZeroClose
<1>8. TimeOffset(t, d) = (b - a) * n + z
  BY <1>1, <1>3, <1>4, <1>5, <1>6 DEF TimeOffset
<1>9. ((b - a) * n + z) * m = (b - a) * S + z * m
  <2>1. PICK e \in Int : e = b - a
    OBVIOUS
  <2>2. (e * n) * m = e * (m * n) /\ e * n \in Int
    BY <1>1
  <2>3. PICK p \in Int : p = e * n
    BY <2>2
  <2>4. (p + z) * m = p * m + z * m
    BY <1>1, <1>7
  <2>. QED
    BY <1>1, <2>1, <2>2, <2>3, <2>4
<1>10. d - t = (b - a) * S + x
  <2>1. (b - a) * S = b * S - a * S /\ b * S \in Int /\ a * S \in Int
    BY <1>1
  <2>2. t = a * S + r /\ d = b * S + u
    BY <1>3, <1>4
  <2>. QED
    BY <1>5, <2>1, <2>2
<1>11. (b - a) * S \in Int /\ z * m \in Int
  BY <1>1, <1>7
<1>. QED
  BY <1>1, <1>7, <1>8, <1>9, <1>10, <1>11

Less == {ss \in Nat \X Nat : ss[1] < ss[2]}

LEMMA LessWellFounded == IsWellFoundedOn(Less, Nat)
BY NatLessThanWellFounded DEF OpToRel, Less

\* A set of integers with a lower bound has a least element.
LEMMA LeastInteger ==
  ASSUME NEW S \in SUBSET Int, S # {}, NEW b \in Int, \A i \in S : b <= i
  PROVE  \E m \in S : \A n \in S : m <= n
<1>. DEFINE shifted == {i - b : i \in S}
<1>1. shifted \in SUBSET Nat /\ shifted # {}
  <2>1. \A i \in S : i - b \in Nat
    OBVIOUS
  <2>. QED
    BY <2>1
<1>2. PICK k \in shifted : \A j \in shifted : <<j, k>> \notin Less
  BY <1>1, LessWellFounded, WFMin
<1>3. PICK m \in S : k = m - b
  OBVIOUS
<1>4. ASSUME NEW n \in S PROVE m <= n
  <2>1. n - b \in shifted /\ n - b \in Nat /\ m - b \in Nat
    BY <1>1
  <2>2. ~(n - b < m - b)
    BY <1>2, <1>3, <2>1 DEF Less
  <2>. QED
    BY <2>2
<1>. QED
  BY <1>4

\* The offset ares_timeout computes belongs to a query, and none is smaller.
LEMMA MinOffsetLeast ==
  ASSUME NEW t \in Nat, Armed # {}, \A q \in Armed : query[q].deadline \in Nat
  PROVE  /\ \E q \in Armed : MinOffset(t) = TimeOffset(t, query[q].deadline)
         /\ \A q \in Armed : MinOffset(t) <= TimeOffset(t, query[q].deadline)
<1>. DEFINE offsets == {TimeOffset(t, query[q].deadline) : q \in Armed}
<1>1. PICK m \in Nat \ {0} : m = Msec
  BY SizesAssumption
<1>2. ASSUME NEW q \in Armed
      PROVE  /\ TimeOffset(t, query[q].deadline) \in Int
             /\ -(t + m) <= TimeOffset(t, query[q].deadline)
  <2>1. PICK i, d : i = TimeOffset(t, d) /\ d = query[q].deadline
    OBVIOUS
  <2>2. d \in Nat /\ i \in Int /\ d - t - m < i * m
    BY <1>1, <2>1, OffsetClose
  <2>3. ASSUME i <= -(t + m) - 1 PROVE FALSE
    <3>1. i * m <= i
      <4>1. i * m = i + i * (m - 1) /\ i * (m - 1) \in Int
        BY <1>1, <2>2
      <4>2. i * (m - 1) <= 0
        BY <1>1, <2>2, <2>3
      <4>. QED
        BY <2>2, <4>1, <4>2
    <3>2. i * m \in Int
      BY <1>1, <2>2
    <3>. QED
      BY <1>1, <2>2, <2>3, <3>1, <3>2
  <2>. QED
    BY <1>1, <2>1, <2>2, <2>3
<1>3. offsets \in SUBSET Int /\ offsets # {} /\ \A i \in offsets : -(t + m) <= i
  BY <1>2
<1>4. \E k \in offsets : \A n \in offsets : k <= n
  <2>. HIDE DEF offsets
  <2>1. -(t + m) \in Int
    BY <1>1
  <2>. QED
    BY <1>3, <2>1, LeastInteger
<1>5. MinOffset(t) \in offsets /\ \A n \in offsets : MinOffset(t) <= n
  BY <1>4 DEF MinOffset
<1>. QED
  BY <1>5

\* A caller that sleeps as ares_timeout says wakes up less than a millisecond
\* after the first deadline and not without need: for every length of a second
\* and of a millisecond, although ares__timeoffset rounds towards zero.
THEOREM WakesUpInTime == Spec => []WakesInTime
<1>1. ASSUME IInv PROVE WakesInTime
  <2>. SUFFICES ASSUME Listed # {}, NEW maxtv \in 0 .. Sec
                PROVE  LET wait == AresTimeout(clock, maxtv)
                           Due(q) == IF query[q].deadline < clock THEN clock ELSE query[q].deadline
                       IN  /\ maxtv # 0 => wait <= maxtv
                           /\ \A q \in Listed : clock + wait < Due(q) + Msec
                           /\ maxtv = 0 \/ wait < maxtv =>
                                \E q \in Listed : Due(q) < clock + wait + Msec
    BY DEF WakesInTime
  <2>0. clock \in Nat /\ maxtv \in Nat /\ \A q \in Listed : query[q].deadline \in Nat
    BY <1>1, SecPositive DEF IInv, TypeOK, Listed
  <2>1. Armed = Listed
    <3>1. ASSUME NEW q \in Listed PROVE SecOf(query[q].deadline) # 0
      BY <1>1, <2>0, SecOfType DEF IInv, TypeOK, ClocksOrdered, DeadlineAhead
    <3>. QED
      BY <3>1 DEF Armed
  <2>2. PICK m \in Nat \ {0} : m = Msec
    BY SizesAssumption
  <2>3. PICK first \in Listed : MinOffset(clock) = TimeOffset(clock, query[first].deadline)
    BY <2>0, <2>1, MinOffsetLeast
  <2>4. PICK least \in Int : least = MinOffset(clock)
    BY <2>0, <2>3, OffsetClose
  <2>5. PICK wait : wait = AresTimeout(clock, maxtv)
    OBVIOUS
  <2>6. PICK offset \in Nat : offset = IF least < 0 THEN 0 ELSE least * m
    BY <2>2, <2>4
  <2>7. /\ wait = IF maxtv = 0 \/ maxtv >= offset THEN offset ELSE maxtv
        /\ wait \in Nat /\ wait <= offset
    BY <2>0, <2>1, <2>2, <2>4, <2>5, <2>6 DEF AresTimeout, TimedOut
  <2>8. ASSUME NEW q \in Listed, least >= 0
        PROVE  clock + least * m < query[q].deadline + m
    <3>1. PICK i \in Int, d \in Nat : d = query[q].deadline /\ i = TimeOffset(clock, d)
      BY <2>0, OffsetClose
    <3>2. least <= i /\ i * m < d - clock + m
      BY <2>0, <2>1, <2>2, <2>4, <3>1, MinOffsetLeast, OffsetClose
    <3>3. least * m <= i * m /\ least * m \in Int /\ i * m \in Int
      BY <2>2, <3>1, <3>2
    <3>. QED
      BY <2>0, <2>2, <3>1, <3>2, <3>3
  <2>9. ASSUME NEW q \in Listed
        PROVE  clock + wait < (IF query[q].deadline < clock THEN clock ELSE query[q].deadline) + m
    <3>1. CASE least < 0
      BY <2>0, <2>2, <2>6, <2>7, <3>1
    <3>2. CASE least >= 0
      <4>1. clock + least * m < query[q].deadline + m /\ offset = least * m
        BY <2>6, <2>8, <3>2
      <4>. QED
        BY <2>0, <2>2, <2>6, <2>7, <4>1
    <3>. QED
      BY <2>4, <3>1, <3>2
  <2>10. ASSUME wait = offset
         PROVE  (IF query[first].deadline < clock THEN clock ELSE query[first].deadline)
                  < clock + wait + m
    <3>1. PICK d \in Nat : d = query[first].deadline
      BY <2>0
    <3>2. d - clock - m < least * m /\ least * m \in Int
      <4>1. least = TimeOffset(clock, d)
        BY <2>3, <2>4, <3>1
      <4>2. d - clock - Msec < TimeOffset(clock, d) * Msec
        BY <2>0, OffsetClose
      <4>. QED
        BY <2>2, <4>1, <4>2
    <3>3. CASE least < 0
      <4>1. least * m <= -m
        <5>1. least * m = (least + 1) * m - m /\ (least + 1) * m \in Int
          BY <2>2, <2>4
        <5>2. (least + 1) * m <= 0
          BY <2>2, <2>4, <3>3
        <5>. QED
          BY <2>2, <5>1, <5>2
      <4>. QED
        BY <2>0, <2>2, <2>6, <2>10, <3>1, <3>2, <3>3, <4>1
    <3>4. CASE least >= 0
      BY <2>0, <2>2, <2>6, <2>10, <3>1, <3>2, <3>4
    <3>. QED
      BY <2>4, <3>3, <3>4
  <2>11. maxtv # 0 => wait <= maxtv
    BY <2>0, <2>6, <2>7
  <2>12. maxtv = 0 \/ wait < maxtv => wait = offset
    BY <2>0, <2>6, <2>7
  <2>. QED
    BY <2>2, <2>5, <2>9, <2>10, <2>11, <2>12
<1>. QED
  BY <1>1, InvariantInit, InvariantNext, PTL DEF Spec
=============================================================================
