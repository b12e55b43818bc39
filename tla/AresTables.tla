----------------------------- MODULE AresTables -----------------------------
(***************************************************************************)
(* The two hash tables of a channel: queries_by_qid, which takes an answer *)
(* to its query, and queries_by_timeout, which takes the clock to the      *)
(* queries that are late (ares_query.c, ares_send.c, ares_process.c,       *)
(* ares_timeout.c).  AresChannel says to which server a query goes and     *)
(* what happens to sockets; here a retry only has its number.              *)
(*                                                                         *)
(* Time is a number of ticks.  The clock runs on while ares_process works  *)
(* with the time it has read at its start (now).  The clock is the         *)
(* monotonic one that configure selects where it exists.                   *)
(*                                                                         *)
(* A 16 bit id is two "bytes" of IdHalf values each.  The hosts of         *)
(* build.sh are little-endian.                                             *)
(***************************************************************************)
EXTENDS Integers, FiniteSets

CONSTANTS
  NServers, Tries,   \* channel->nservers, channel->tries
  Timeout,           \* channel->timeout, in milliseconds
  Msec,              \* ticks in a millisecond
  SecMsecs,          \* milliseconds in a second
  IntMax,            \* the largest int
  Rands,             \* values of rand() & 7
  TimeoutBuckets,    \* ARES_TIMEOUT_TABLE_SIZE
  QidBuckets,        \* ARES_QID_TABLE_SIZE
  IdHalf,            \* values of one byte of an id
  Question,          \* the questions applications ask
  MaxQueries,        \* bound: queries in a behaviour
  MaxClock           \* bound: the last tick

Sec == Msec * SecMsecs

ASSUME SizesAssumption ==
  /\ {NServers, Tries, Msec, SecMsecs, TimeoutBuckets, QidBuckets} \subseteq Nat \ {0}
  /\ IdHalf \in Nat /\ IdHalf >= 2
  /\ Rands \subseteq 0 .. 7 /\ Rands # {}
  /\ Question # {}
  /\ {MaxQueries, MaxClock, IntMax} \subseteq Nat
  /\ Sec <= MaxClock

\* ares__send_query computes in an int, and a retry of zero milliseconds would
\* be late at once: the default options stay far inside these limits.
ASSUME BackoffAssumption ==
  \A round \in 0 .. Tries - 1 : Timeout * 2^round \in 2 .. IntMax \div 16

Query == 1 .. MaxQueries
Attempt == 0 .. NServers * Tries - 1
Id == 0 .. IdHalf * IdHalf - 1

VARIABLES
  clock,     \* ares__tvnow
  phase,     \* "app", or "read": ares_process before process_timeouts
  now,       \* the time ares_process has read; 0 outside of it
  last,      \* channel->last_timeout_processed, in seconds
  nextId,    \* channel->next_id
  used,      \* how many queries there have been
  query,     \* struct query, one record per query
  got        \* history: the question of the packet that ended the query

vars == <<clock, phase, now, last, nextId, used, query, got>>

FreshQuery == [listed |-> FALSE, id |-> 0, question |-> CHOOSE n \in Question : TRUE,
               tryCount |-> 0, deadline |-> 0]

TypeOK ==
  /\ clock \in 0 .. MaxClock
  /\ phase \in {"app", "read"}
  /\ now \in 0 .. MaxClock
  /\ last \in Nat
  /\ nextId \in Id
  /\ used \in 0 .. MaxQueries
  /\ query \in [Query -> [listed : BOOLEAN, id : Id, question : Question,
                          tryCount : Attempt, deadline : Nat]]
  /\ got \in [Query -> SUBSET Question]

Listed == {q \in Query : query[q].listed}

-----------------------------------------------------------------------------
(* Ids *)

\* DNS_HEADER_SET_QID stores the high byte first, and the search reads the
\* two bytes back as a number of the host.
Swapped(id) == (id % IdHalf) * IdHalf + (id \div IdHalf)

\* The bucket of an id; a query is inserted in the bucket of its own qid.
QidBucket(id) == id % QidBuckets

\* find_query_by_id: the queries it would return for id.
FindQueryById(id) ==
  {q \in Listed : /\ QidBucket(query[q].id) = QidBucket(Swapped(id))
                  /\ query[q].id = Swapped(id)}

\* generate_unique_id; the rc4 stream may produce any id.
UniqueId == {id \in Id : FindQueryById(id) = {}}

\* Mutant: the question is not compared.
FirstWithId(packet) ==
  {q \in Listed : QidBucket(query[q].id) = QidBucket(packet.id) /\ query[q].id = packet.id}

\* process_answer takes the first query of the bucket with the id and the
\* question of the packet; which one is first depends on when they were sent.
Asking(packet) ==
  {q \in Listed : /\ QidBucket(query[q].id) = QidBucket(packet.id)
                  /\ query[q].id = packet.id /\ query[q].question = packet.question}

Addressee(packet) ==
  {q \in Asking(packet) : \A r \in Asking(packet) : q <= r}

-----------------------------------------------------------------------------
(* Deadlines *)

SecOf(t) == t \div Sec

\* Mutant: a query is late after its deadline.
PastDeadline(t, check) == t > check

\* ares__timedout
TimedOut(t, check) == t >= check

\* timeplus for rand() & 7 = r, in milliseconds
TimePlus(try, r) == ((Timeout * 2^(try \div NServers)) * (9 + r)) \div 16

\* ares__timeadd of timeplus to t: the deadlines of attempt number try.
Deadlines(try, t) == {t + TimePlus(try, r) * Msec : r \in Rands}

\* ares__timeoffset: the difference of the microseconds is divided towards
\* zero, so an offset may be up to one millisecond too long.
TowardsZero(n, d) == IF n >= 0 THEN n \div d ELSE -((-n) \div d)

TimeOffset(t, check) ==
  (SecOf(check) - SecOf(t)) * SecMsecs + TowardsZero((check % Sec) - (t % Sec), Msec)

\* A deadline in second 0 counts as none.
Armed == {q \in Listed : SecOf(query[q].deadline) # 0}

\* Mutant: the offset of any query instead of the smallest one.
LargestOffset(t) ==
  LET offsets == {TimeOffset(t, query[q].deadline) : q \in Armed}
  IN  CHOOSE m \in offsets : \A n \in offsets : n <= m

MinOffset(t) ==
  LET offsets == {TimeOffset(t, query[q].deadline) : q \in Armed}
  IN  CHOOSE m \in offsets : \A n \in offsets : m <= n

\* ares_timeout(channel, maxtv, tv) at time t, in ticks; maxtv = 0 is NULL,
\* and the result 0 with no query listed is NULL.
AresTimeout(t, maxtv) ==
  LET offset == IF MinOffset(t) < 0 THEN 0 ELSE MinOffset(t) * Msec
  IN  IF Armed = {} THEN maxtv
      ELSE IF maxtv = 0 \/ TimedOut(maxtv, offset) THEN offset ELSE maxtv

-----------------------------------------------------------------------------
\* Bound: the first id; the others may be any.  The host has been up for a
\* second.
Init ==
  /\ clock = Sec
  /\ phase = "app"
  /\ now = 0
  /\ last = SecOf(clock)
  /\ nextId = 1
  /\ used = 0
  /\ query = [q \in Query |-> FreshQuery]
  /\ got = [q \in Query |-> {}]

\* Time passes: the caller sleeps, or some function takes long.
Tick ==
  /\ clock' \in clock + 1 .. MaxClock
  /\ UNCHANGED <<phase, now, last, nextId, used, query, got>>

AttemptsFrom(n) == {k \in Attempt : k >= n}

\* What becomes of a query that is to be sent at time t: it leaves with
\* attempt n or a later one, or it has ended.  AresChannel says which
\* attempts are passed over.
Sent(rec, n, t) ==
  {[rec EXCEPT !.listed = FALSE, !.tryCount = 0, !.deadline = 0]}
    \cup UNION {{[rec EXCEPT !.tryCount = k, !.deadline = d] : d \in Deadlines(k, t)} :
                  k \in AttemptsFrom(n)}

\* next_server, at the time ares_process has read
NextServer(rec) == Sent(rec, rec.tryCount + 1, now)

\* ares_query: the packet has the current next_id; the next one is drawn
\* before the query is in the tables.  Its first transmission counts from
\* the clock, also when a callback of ares_process is the caller.
AresQuery(name) ==
  LET q == used + 1 IN
  /\ q <= MaxQueries
  /\ \E rec \in Sent([listed |-> TRUE, id |-> nextId, question |-> name,
                     tryCount |-> 0, deadline |-> 0], 0, clock) :
       query' = [query EXCEPT ![q] = rec]
  /\ nextId' \in UniqueId
  /\ used' = q
  /\ UNCHANGED <<clock, phase, now, last, got>>

Process ==
  /\ phase = "app"
  /\ phase' = "read"
  /\ now' = clock
  /\ UNCHANGED <<clock, last, nextId, used, query, got>>

\* The packets servers make of the requests they get.
Answers == {[id |-> query[q].id, question |-> query[q].question] : q \in 1 .. used}

\* process_answer: end_query, the same attempt again over TCP, or next_server
\* after a SERVFAIL.  The packet may be late, a repetition, or overtaken by
\* others.
ProcessAnswer(packet) ==
  /\ phase = "read"
  /\ \E q \in Addressee(packet) :
       \E rec \in Sent(query[q], query[q].tryCount, now) :
         /\ query' = [query EXCEPT ![q] = rec]
         /\ got' = IF rec.listed THEN got
                   ELSE [got EXCEPT ![q] = @ \cup {packet.question}]
  /\ UNCHANGED <<clock, phase, now, last, nextId, used>>

\* The seconds process_timeouts walks over.
Seconds == last .. SecOf(now)

\* The queries in the buckets of these seconds that are late.
Late ==
  {q \in Armed : /\ \E t \in Seconds :
                       t % TimeoutBuckets = SecOf(query[q].deadline) % TimeoutBuckets
                  /\ TimedOut(now, query[q].deadline)}

\* Mutant: the next walk starts at the second of the clock.
WalkedToClock == SecOf(clock)

WalkedTo == SecOf(now)

\* process_timeouts.  What a late query becomes does not depend on the others.
ProcessTimeouts ==
  /\ phase = "read"
  /\ query' \in {f \in [Query -> UNION {NextServer(query[q]) \cup {query[q]} : q \in Query}] :
                   \A q \in Query : f[q] \in IF q \in Late THEN NextServer(query[q]) ELSE {query[q]}}
  /\ last' = WalkedTo
  /\ phase' = "app"
  /\ now' = 0
  /\ UNCHANGED <<clock, nextId, used, got>>

Next ==
  \/ Tick
  \/ Process
  \/ ProcessTimeouts
  \/ \E name \in Question : AresQuery(name)
  \/ \E packet \in Answers : ProcessAnswer(packet)

Spec == Init /\ [][Next]_vars

-----------------------------------------------------------------------------
(* Properties *)

\* Although ids are not unique, a query is only ended by the answer to a
\* question it asked, however late packets of earlier queries arrive.
AnswerFits ==
  \A q \in Query : got[q] \subseteq {query[q].question}

\* process_timeouts starts its next walk no later than the bucket of any
\* deadline, so that a query is never left until the buckets wrap around.
DeadlineAhead ==
  \A q \in Listed : last <= SecOf(query[q].deadline)

\* When process_timeouts returns, no query in flight is late, however long
\* ares_process was not called.
NoDeadlineMissed ==
  [][ProcessTimeouts => \A q \in Query : query'[q].listed => now < query'[q].deadline]_vars

\* A caller that sleeps as long as ares_timeout allows wakes up less than a
\* millisecond after the first deadline, and never later than it asked for;
\* when it wakes earlier than it asked, a deadline is less than one
\* millisecond away.
WakesInTime ==
  Listed # {} =>
    \A maxtv \in 0 .. Sec :
      LET wait == AresTimeout(clock, maxtv)
          Due(q) == IF query[q].deadline < clock THEN clock ELSE query[q].deadline
      IN  /\ maxtv # 0 => wait <= maxtv
          /\ \A q \in Listed : clock + wait < Due(q) + Msec
          /\ maxtv = 0 \/ wait < maxtv => \E q \in Listed : Due(q) < clock + wait + Msec
=============================================================================
