-------------------------- MODULE AresLookupProofs --------------------------
(***************************************************************************)
(* Every lookup is answered once, and ares_cancel and ares_destroy leave   *)
(* none behind: for any number of lookups and search domains, provided     *)
(* that channel->lookups names the name servers once.  The callbacks call  *)
(* each other; each lemma takes one of them and says that the lookup has   *)
(* ended or asks one more query (Moves).  From the same steps follow that  *)
(* IPv4 is tried before a lookup of either family gives up, and that every *)
(* step of the search is one that NameSearch allows.                       *)
(***************************************************************************)
EXTENDS AresHostLookup, TLAPS, SequenceTheorems, WellFoundedInduction

\* "b" stands at one place of channel->lookups.
OneDns ==
  \A i, k \in DOMAIN Lookups : Lookups[i] = "b" /\ Lookups[k] = "b" => i = k

JobRecord ==
  [stage : {"new", "ask", "wait", "done"}, want : {"none", "inet", "inet6", "unspec", "addr"},
   form : {"single", "dotted", "bare"}, at : 1 .. Len(Lookups) + 1,
   sent : {"none", "inet", "inet6", "ptr"}, name : Candidate, nextDomain : Candidate,
   asIs : {"NONE"} \cup Soft, nodata : BOOLEAN, result : Status,
   heard : [Candidate -> {"NONE"} \cup Soft], verdict : Status, calls : Nat]

\* A name is searched for only if there are domains, and a query for which
\* channel->lookups has been moved on has no name servers after it.
Sound(j) ==
  /\ j \in JobRecord
  /\ j.form # "single" => NDomains > 0
  /\ OneDns /\ j.stage \in {"ask", "wait"} => DnsLeft(j) = {}
  /\ j.calls = IF j.stage = "done" THEN 1 ELSE 0

AllSound == job \in [Lookup -> JobRecord] /\ \A l \in Lookup : Sound(job[l])

\* What a callback makes of the lookup it works on.
Becomes(l, stages) ==
  \E r \in JobRecord : /\ Sound(r) /\ r.stage \in stages
                       /\ job' = [job EXCEPT ![l] = r]

Ended(l) == Becomes(l, {"done"})
Moves(l) == Becomes(l, {"ask", "done"})

\* A job whose callback has not been called.
Running(j) ==
  j \in JobRecord /\ j.calls = 0 /\ (j.form # "single" => NDomains > 0)

-----------------------------------------------------------------------------
(* The least element of a set of naturals *)

Less == {ss \in Nat \X Nat : ss[1] < ss[2]}

LEMMA LessWellFounded == IsWellFoundedOn(Less, Nat)
BY NatLessThanWellFounded DEF OpToRel, Less

LEMMA LeastNatural ==
  ASSUME NEW S \in SUBSET Nat, S # {}
  PROVE  \E m \in S : \A n \in S : m <= n
<1>1. PICK m \in S : \A n \in S : <<n, m>> \notin Less
  BY LessWellFounded, WFMin
<1>2. \A n \in S : <<n, m>> \in Less <=> n < m
  BY DEF Less
<1>3. \A n \in S : ~ (n < m) => m <= n
  OBVIOUS
<1>. QED
  BY <1>1, <1>2, <1>3

-----------------------------------------------------------------------------
(* The callbacks *)

LEMMA DomainsAreNatural == NDomains \in Nat /\ AsIs \in Candidate /\ Len(Lookups) \in Nat
<1>1. Len(Lookups) \in Nat
  BY ChannelAssumption
<1>. QED
  BY <1>1, ChannelAssumption DEF AsIs, Candidate

LEMMA FreshSound == Sound(Fresh)
<1>1. Fresh \in JobRecord
  BY DomainsAreNatural DEF Fresh, JobRecord, Status, Candidate, AsIs
<1>. QED
  BY <1>1 DEF Sound, Fresh

LEMMA EndHqueryEnds ==
  ASSUME NEW l \in Lookup, NEW j, Running(j), NEW status \in Status, EndHquery(l, j, status)
  PROVE  Ended(l)
<1>. DEFINE v == j.verdict
            n == j.calls + 1
            r == [Fresh EXCEPT !.stage = "done", !.result = status, !.verdict = v, !.calls = n]
<1>1. Fresh \in JobRecord
  BY FreshSound DEF Sound
<1>2. Fresh.form = "single"
  BY DEF Fresh
<1>3. v \in Status /\ n = 1
  BY DEF Running, JobRecord
<1>. HIDE DEF v, n
<1>4. r \in JobRecord /\ r.stage = "done" /\ r.calls = 1 /\ r.form = "single"
  BY <1>1, <1>2, <1>3 DEF JobRecord
<1>5. Sound(r)
  BY <1>4 DEF Sound
<1>. QED
  BY <1>4, <1>5 DEF EndHquery, Ended, Becomes, v, n

LEMMA AresSearchMoves ==
  ASSUME NEW l \in Lookup, NEW j, Running(j), OneDns => DnsLeft(j) = {},
         NEW family \in {"inet", "inet6"}, AresSearch(l, j, family)
  PROVE  Moves(l)
<1>. DEFINE r == [j EXCEPT !.stage = "ask", !.sent = family,
                           !.name = IF j.form = "bare" THEN 1 ELSE AsIs,
                           !.nextDomain = FirstDomain(j.form), !.asIs = "NONE", !.nodata = FALSE,
                           !.heard = Fresh.heard, !.verdict = "NONE"]
<1>1. j.form = "bare" => 1 \in Candidate
  BY DomainsAreNatural DEF Running, Candidate
<1>2. FirstDomain(j.form) \in Candidate
  BY <1>1, DomainsAreNatural DEF FirstDomain, AsIs
<1>3. Fresh.heard \in [Candidate -> {"NONE"} \cup Soft] /\ "NONE" \in Status
  BY DEF Fresh, Status
<1>4. r \in JobRecord
  BY <1>1, <1>2, <1>3, DomainsAreNatural DEF Running, JobRecord
<1>5. r.stage = "ask" /\ r.form = j.form /\ r.calls = 0 /\ r.at = j.at
  BY DEF Running, JobRecord
<1>6. Sound(r)
  BY <1>4, <1>5 DEF Sound, Running, DnsLeft
<1>. QED
  BY <1>4, <1>5, <1>6 DEF AresSearch, Moves, Becomes

\* next_lookup moves on behind the first of the name servers that are left.
LEMMA MovedOn ==
  ASSUME NEW j, Running(j), DnsLeft(j) # {}
  PROVE  LET dns == DnsLeft(j)
             first == IF dns = {} THEN Len(Lookups) + 1 ELSE CHOOSE i \in dns : \A k \in dns : i <= k
             moved == [j EXCEPT !.at = first + 1]
         IN  /\ Running(moved) /\ moved.want = j.want
             /\ OneDns => DnsLeft(moved) = {}
<1>. DEFINE dns == DnsLeft(j)
            first == IF dns = {} THEN Len(Lookups) + 1 ELSE CHOOSE i \in dns : \A k \in dns : i <= k
            moved == [j EXCEPT !.at = first + 1]
<1>1. dns \in SUBSET Nat /\ \A i \in dns : i \in 1 .. Len(Lookups) /\ Lookups[i] = "b"
  BY DomainsAreNatural DEF Running, JobRecord, DnsLeft
<1>2. first \in dns
  BY <1>1, LeastNatural
<1>3. first \in 1 .. Len(Lookups) /\ Lookups[first] = "b"
  BY <1>1, <1>2
<1>4. first + 1 \in 1 .. Len(Lookups) + 1
  BY <1>3, DomainsAreNatural
<1>5. moved \in JobRecord /\ moved.at = first + 1
  <2>. HIDE DEF first
  <2>. QED BY <1>4 DEF Running, JobRecord
<1>6. ASSUME OneDns, NEW i \in DnsLeft(moved)
      PROVE  FALSE
  <2>1. i \in first + 1 .. Len(Lookups) /\ Lookups[i] = "b"
    BY <1>5, <1>6 DEF DnsLeft
  <2>2. i \in 1 .. Len(Lookups) /\ i # first
    <3>. HIDE DEF first
    <3>. QED BY <1>3, <2>1, DomainsAreNatural
  <2>3. DOMAIN Lookups = 1 .. Len(Lookups)
    BY ChannelAssumption
  <2>. QED
    BY <1>3, <1>6, <2>1, <2>2, <2>3 DEF OneDns
<1>. QED
  BY <1>5, <1>6 DEF Running, JobRecord

\* next_lookup asks the name servers at most once for each time they are named.
LEMMA NextLookupMoves ==
  ASSUME NEW l \in Lookup, NEW j, Running(j), NEW status \in Status, NextLookup(l, j, status)
  PROVE  Moves(l) /\ (DnsLeft(j) = {} => Ended(l))
<1>. DEFINE dns == DnsLeft(j)
            first == IF dns = {} THEN Len(Lookups) + 1 ELSE CHOOSE i \in dns : \A k \in dns : i <= k
            moved == [j EXCEPT !.at = first + 1]
<1>1. "SUCCESS" \in Status
  BY DEF Status
<1>2. CASE EndHquery(l, j, "SUCCESS") \/ EndHquery(l, j, status)
  <2>1. Ended(l)
    BY <1>1, <1>2, EndHqueryEnds
  <2>. QED
    BY <2>1 DEF Ended, Moves, Becomes
<1>3. ASSUME dns # {}
      PROVE  /\ Running(moved) /\ moved.want = j.want
             /\ OneDns => DnsLeft(moved) = {}
  BY <1>3, MovedOn
<1>4. CASE dns # {} /\ j.want = "addr"
           /\ job' = [job EXCEPT ![l] = [moved EXCEPT !.stage = "ask", !.sent = "ptr"]]
  <2>. DEFINE r == [moved EXCEPT !.stage = "ask", !.sent = "ptr"]
  <2>1. /\ Running(moved) /\ (OneDns => DnsLeft(moved) = {})
    BY <1>3, <1>4
  <2>2. r \in JobRecord /\ r.stage = "ask" /\ r.calls = 0 /\ r.at = moved.at /\ r.form = moved.form
    <3>. HIDE DEF moved
    <3>. QED BY <2>1 DEF Running, JobRecord
  <2>3. Sound(r)
    BY <2>1, <2>2 DEF Sound, Running, DnsLeft
  <2>. QED
    BY <1>4, <2>2, <2>3 DEF Moves, Becomes
<1>5. CASE dns # {} /\ AresSearch(l, moved, IF j.want = "inet" THEN "inet" ELSE "inet6")
  BY <1>3, <1>5, AresSearchMoves
<1>. QED
  BY <1>2, <1>4, <1>5 DEF NextLookup

\* The statuses a query may end with.
Endings == Status \ {"NONE"}

LEMMA SoftIsStatus == Soft \subseteq Endings /\ Useless \subseteq Endings /\ Parsed \subseteq Endings
BY DEF Soft, Status, Useless, Parsed, Endings

LEMMA HostCallbackMoves ==
  ASSUME NEW l \in Lookup, NEW j, Running(j), OneDns => DnsLeft(j) = {},
         NEW status \in Status, HostCallback(l, j, status)
  PROVE  /\ Moves(l)
         /\ OneDns /\ status \in {"ECANCELLED", "EDESTRUCTION"} => Ended(l)
<1>1. ASSUME NEW s \in Status, EndHquery(l, j, s)
      PROVE  Moves(l) /\ Ended(l)
  BY <1>1, EndHqueryEnds DEF Ended, Moves, Becomes
<1>2. ASSUME AresSearch(l, j, "inet")
      PROVE  Moves(l)
  BY <1>2, AresSearchMoves
<1>3. ASSUME NextLookup(l, j, status)
      PROVE  Moves(l) /\ (OneDns => Ended(l))
  BY <1>3, NextLookupMoves
<1>4. Parsed \subseteq Status
  BY SoftIsStatus DEF Endings
<1>. QED
  BY <1>1, <1>2, <1>3, <1>4 DEF HostCallback, Useless

LEMMA AddrCallbackMoves ==
  ASSUME NEW l \in Lookup, NEW j, Running(j), OneDns => DnsLeft(j) = {},
         NEW status \in Status, AddrCallback(l, j, status)
  PROVE  /\ Moves(l)
         /\ OneDns /\ status \in {"ECANCELLED", "EDESTRUCTION"} => Ended(l)
<1>1. ASSUME NEW s \in Status, EndHquery(l, j, s)
      PROVE  Moves(l) /\ Ended(l)
  BY <1>1, EndHqueryEnds DEF Ended, Moves, Becomes
<1>2. ASSUME NextLookup(l, j, "ENOTFOUND")
      PROVE  Moves(l) /\ (OneDns => Ended(l))
  BY <1>2, NextLookupMoves DEF Status
<1>3. Parsed \subseteq Status
  BY SoftIsStatus DEF Endings
<1>. QED
  BY <1>1, <1>2, <1>3 DEF AddrCallback

LEMMA SearchCallbackMoves ==
  ASSUME NEW l \in Lookup, Sound(job[l]), job[l].stage \in {"ask", "wait"},
         NEW status \in Endings, SearchCallback(l, status)
  PROVE  /\ Moves(l)
         /\ OneDns /\ status \in {"ECANCELLED", "EDESTRUCTION"} => Ended(l)
<1>. DEFINE j == Heard(job[l], status)
            goesOn == j.form # "single" /\ status \in Soft
<1>1. /\ Running(job[l]) /\ (OneDns => DnsLeft(job[l]) = {})
  BY DEF Sound, Running
<1>2. Running(j) /\ j.at = job[l].at
  <2>. DEFINE o == job[l]
              heard == [o.heard EXCEPT ![o.name] = status]
              asIs == IF o.name = AsIs THEN status ELSE o.asIs
              nodata == o.nodata \/ status = "ENODATA"
  <2>1. CASE status \in Soft
    <3>1. heard \in [Candidate -> {"NONE"} \cup Soft] /\ asIs \in {"NONE"} \cup Soft
      BY <1>1, <2>1 DEF Running, JobRecord
    <3>2. nodata \in BOOLEAN
      BY <1>1, Zenon
    <3>3. j = [o EXCEPT !.heard = heard, !.asIs = asIs, !.nodata = nodata]
      BY <1>1, <2>1 DEF Heard, Running, JobRecord
    <3>4. ASSUME NEW hd \in [Candidate -> {"NONE"} \cup Soft], NEW as \in {"NONE"} \cup Soft,
                 NEW nd \in BOOLEAN
          PROVE  LET e == [o EXCEPT !.heard = hd, !.asIs = as, !.nodata = nd]
                 IN  Running(e) /\ e.at = o.at
      BY <1>1 DEF Running, JobRecord
    <3>. HIDE DEF heard, asIs, nodata
    <3>5. Running([o EXCEPT !.heard = heard, !.asIs = asIs, !.nodata = nodata])
          /\ [o EXCEPT !.heard = heard, !.asIs = asIs, !.nodata = nodata].at = o.at
      BY <3>1, <3>2, <3>4
    <3>. QED
      BY <3>3, <3>5
  <2>2. CASE status \notin Soft
    BY <1>1, <2>2 DEF Heard
  <2>. QED
    BY <2>1, <2>2
<1>3. OneDns => DnsLeft(j) = {}
  BY <1>1, <1>2 DEF DnsLeft
<1>. HIDE DEF j
<1>4. ASSUME NEW r \in JobRecord, r.stage = "ask", r.calls = 0, r.form = j.form, r.at = j.at,
             job' = [job EXCEPT ![l] = r]
      PROVE  Moves(l)
  <2>1. Sound(r)
    BY <1>2, <1>3, <1>4 DEF Sound, Running, DnsLeft
  <2>. QED
    BY <1>4, <2>1 DEF Moves, Becomes
<1>5. ASSUME goesOn, DomainLeft(j),
             job' = [job EXCEPT ![l] = [j EXCEPT !.stage = "ask", !.name = j.nextDomain + 1,
                                                 !.nextDomain = @ + 1]]
      PROVE  Moves(l)
  <2>1. j.nextDomain + 1 \in Candidate
    BY <1>2, <1>5, DomainsAreNatural DEF DomainLeft, Running, JobRecord, Candidate
  <2>. DEFINE r == [j EXCEPT !.stage = "ask", !.name = j.nextDomain + 1, !.nextDomain = @ + 1]
  <2>2. r \in JobRecord /\ r.stage = "ask" /\ r.calls = 0 /\ r.form = j.form /\ r.at = j.at
    BY <1>2, <2>1 DEF Running, JobRecord
  <2>. QED
    BY <1>4, <1>5, <2>2
<1>6. ASSUME job' = [job EXCEPT ![l] = [j EXCEPT !.stage = "ask", !.name = AsIs]]
      PROVE  Moves(l)
  <2>. DEFINE r == [j EXCEPT !.stage = "ask", !.name = AsIs]
  <2>1. r \in JobRecord /\ r.stage = "ask" /\ r.calls = 0 /\ r.form = j.form /\ r.at = j.at
    BY <1>2, DomainsAreNatural DEF Running, JobRecord
  <2>. QED
    BY <1>4, <1>6, <2>1
<1>7. ASSUME NEW final \in Endings, HostCallback(l, [j EXCEPT !.verdict = final], final)
      PROVE  /\ Moves(l)
             /\ OneDns /\ final \in {"ECANCELLED", "EDESTRUCTION"} => Ended(l)
  <2>. DEFINE v == [j EXCEPT !.verdict = final]
  <2>1. Running(v) /\ v.at = j.at
    BY <1>2 DEF Running, JobRecord, Endings
  <2>2. OneDns => DnsLeft(v) = {}
    BY <1>3, <2>1 DEF DnsLeft
  <2>. QED
    BY <1>7, <2>1, <2>2, HostCallbackMoves DEF Endings
<1>8. j.asIs # "NONE" => FinalStatus(j) \in Endings
  BY <1>2, SoftIsStatus DEF FinalStatus, Running, JobRecord, Soft, Endings
<1>9. "ECANCELLED" \notin Soft /\ "EDESTRUCTION" \notin Soft
  BY DEF Soft
<1>. QED
  BY <1>5, <1>6, <1>7, <1>8, <1>9 DEF SearchCallback, j

\* The query of a lookup ends: the lookup has ended, or asks once more, which
\* it does not when the channel is cancelled or destroyed.
LEMMA QueryEndsMoves ==
  ASSUME NEW l \in Lookup, Sound(job[l]), job[l].stage \in {"ask", "wait"},
         NEW status \in Endings, QueryEnds(l, status)
  PROVE  /\ Moves(l)
         /\ OneDns /\ status \in {"ECANCELLED", "EDESTRUCTION"} => Ended(l)
<1>1. Running(job[l]) /\ (OneDns => DnsLeft(job[l]) = {})
  BY DEF Sound, Running
<1>. QED
  BY <1>1, AddrCallbackMoves, SearchCallbackMoves DEF QueryEnds, Endings
-----------------------------------------------------------------------------
(* The list of queries *)

Listed(l) == \E i \in DOMAIN waiting : waiting[i] = l

\* No lookup stands in the list twice.
Queue ==
  /\ waiting \in Seq(Lookup)
  /\ \A i, k \in DOMAIN waiting : waiting[i] = waiting[k] => i = k

LEMMA QueueIs ==
  ASSUME Queue
  PROVE  /\ Len(waiting) \in Nat /\ DOMAIN waiting = 1 .. Len(waiting)
         /\ \A i \in 1 .. Len(waiting) : waiting[i] \in Lookup
BY DEF Queue

LEMMA PositionIs ==
  ASSUME Queue, NEW i \in DOMAIN waiting
  PROVE  Position(waiting[i]) = i
BY DEF Queue, Position

\* Taking a query out leaves the others, in their order.
LEMMA UnlistedIs ==
  ASSUME Queue, NEW p \in DOMAIN waiting, NEW l \in Lookup, waiting[p] = l
  PROVE  /\ Unlisted(l) \in Seq(Lookup) /\ Len(Unlisted(l)) = Len(waiting) - 1
         /\ \A i \in 1 .. Len(waiting) - 1 :
              Unlisted(l)[i] = waiting[IF i < p THEN i ELSE i + 1]
<1>. DEFINE n == Len(waiting) - 1
            u == [i \in 1 .. n |-> waiting[IF i < p THEN i ELSE i + 1]]
<1>1. Unlisted(l) = u
  BY PositionIs DEF Unlisted
<1>2. n \in Nat /\ p \in 1 .. n + 1
  BY QueueIs
<1>3. \A i \in 1 .. n : waiting[IF i < p THEN i ELSE i + 1] \in Lookup
  BY <1>2, QueueIs
<1>4. u \in [1 .. n -> Lookup]
  BY <1>3
<1>5. u \in Seq(Lookup)
  BY <1>2, <1>4, SeqDef
<1>6. Len(u) = n
  BY <1>2, <1>4, <1>5
<1>. QED
  BY <1>1, <1>5, <1>6

LEMMA UnlistedKeepsOthers ==
  ASSUME Queue, NEW l \in Lookup, Listed(l), waiting' = Unlisted(l)
  PROVE  /\ Queue'
         /\ \A m \in Lookup : Listed(m)' <=> m # l /\ Listed(m)
<1>1. PICK p \in DOMAIN waiting : waiting[p] = l
  BY DEF Listed
<1>. DEFINE n == Len(waiting) - 1
            old(i) == IF i < p THEN i ELSE i + 1
<1>2. n \in Nat /\ p \in 1 .. n + 1 /\ DOMAIN waiting = 1 .. n + 1
  BY QueueIs
<1>3. /\ waiting' \in Seq(Lookup) /\ DOMAIN waiting' = 1 .. n
      /\ \A i \in 1 .. n : waiting'[i] = waiting[old(i)]
  BY <1>1, UnlistedIs
<1>4. \A i \in 1 .. n : old(i) \in 1 .. n + 1 /\ old(i) # p
  BY <1>2
<1>5. \A i, k \in 1 .. n : old(i) = old(k) => i = k
  BY <1>2
<1>6. ASSUME NEW i \in 1 .. n, NEW k \in 1 .. n, waiting'[i] = waiting'[k]
      PROVE  i = k
  <2>. HIDE DEF old
  <2>1. old(i) \in DOMAIN waiting /\ old(k) \in DOMAIN waiting
    BY <1>2, <1>4
  <2>2. waiting[old(i)] = waiting[old(k)]
    BY <1>3, <1>6
  <2>3. old(i) = old(k)
    BY <2>1, <2>2 DEF Queue
  <2>. QED
    BY <1>5, <2>3
<1>7. ASSUME NEW m \in Lookup, Listed(m)'
      PROVE  m # l /\ Listed(m)
  BY <1>1, <1>2, <1>3, <1>4, <1>7 DEF Listed, Queue
<1>8. ASSUME NEW m \in Lookup, m # l, Listed(m)
      PROVE  Listed(m)'
  <2>1. PICK k \in 1 .. n + 1 : waiting[k] = m
    BY <1>2, <1>8 DEF Listed
  <2>2. k # p
    BY <1>1, <1>8, <2>1
  <2>. DEFINE i == IF k < p THEN k ELSE k - 1
  <2>3. i \in 1 .. n /\ old(i) = k
    BY <1>2, <2>2
  <2>. QED
    BY <1>3, <2>1, <2>3 DEF Listed
<1>. QED
  BY <1>3, <1>6, <1>7, <1>8 DEF Queue

\* The walk of ares_cancel and ares_destroy stands at the first query.
First == IF waiting = <<>> THEN NoLookup ELSE waiting[1]

LEMMA UnlistedFirst ==
  ASSUME Queue, waiting # <<>>, waiting' = Unlisted(waiting[1])
  PROVE  After(waiting[1]) = First'
<1>1. Len(waiting) \in Nat /\ Len(waiting) # 0 /\ 1 \in DOMAIN waiting
  BY QueueIs, EmptySeq DEF Queue
<1>2. Position(waiting[1]) = 1
  BY <1>1, PositionIs
<1>3. /\ waiting' \in Seq(Lookup) /\ Len(waiting') = Len(waiting) - 1
      /\ \A i \in 1 .. Len(waiting) - 1 :
           waiting'[i] = waiting[IF i < 1 THEN i ELSE i + 1]
  BY <1>1, UnlistedIs, QueueIs
<1>. QED
  <2>1. 1 < Len(waiting) => waiting'[1] = waiting[2]
    BY <1>1, <1>3
  <2>2. waiting' = <<>> <=> Len(waiting) = 1
    BY <1>1, <1>3, EmptySeq
  <2>. QED
    <3>1. CASE Len(waiting) = 1
      BY <1>2, <2>2, <3>1 DEF After, First
    <3>2. CASE 1 < Len(waiting)
      BY <1>1, <1>2, <2>1, <2>2, <3>2 DEF After, First
    <3>. QED
      BY <1>1, <3>1, <3>2
-----------------------------------------------------------------------------
(* The invariant *)

\* The query of a lookup is in the list, or being handed over.
Carried ==
  /\ \A l \in Lookup : job[l].stage = "wait" <=> Listed(l)
  /\ \A l \in Lookup : job[l].stage = "ask" <=> cur = l
  /\ cur \in Lookup \cup {NoLookup}

\* A walk asks for nothing and stands at the first query.
Walking ==
  /\ phase \in {"app", "cancel", "destroy", "destroyed"}
  /\ phase \in {"cancel", "destroy"} => cur = NoLookup /\ node = First
  /\ node \in Lookup \cup {NoLookup}

LookupsInv == AllSound /\ Queue /\ Carried /\ Walking

LEMMA LookupsInvInit == Init => LookupsInv
<1>. SUFFICES ASSUME Init PROVE LookupsInv
  OBVIOUS
<1>1. AllSound
  BY FreshSound DEF Init, AllSound, Sound
<1>2. Queue
  BY EmptySeq DEF Init, Queue
<1>3. Carried
  BY NoLookupAssumption DEF Init, Carried, Listed, Fresh
<1>. QED
  BY <1>1, <1>2, <1>3 DEF Init, Walking, LookupsInv

LEMMA LookupsInvImplies == LookupsInv => TypeOK /\ AnsweredOnce
<1>. SUFFICES ASSUME LookupsInv PROVE TypeOK /\ AnsweredOnce
  OBVIOUS
<1>1. TypeOK
  BY DEF LookupsInv, AllSound, Queue, Carried, Walking, TypeOK, JobRecord
<1>2. phase # "aborted"
  BY DEF LookupsInv, Walking
<1>3. ASSUME NEW l \in Lookup
      PROVE  LET queries == {i \in DOMAIN waiting : waiting[i] = l} IN
             /\ job[l].calls = IF job[l].stage = "done" THEN 1 ELSE 0
             /\ job[l].stage = "wait" <=> \E i \in DOMAIN waiting : queries = {i}
             /\ job[l].stage # "wait" => queries = {}
             /\ job[l].stage = "ask" <=> cur = l
  <2>. DEFINE queries == {i \in DOMAIN waiting : waiting[i] = l}
  <2>1. job[l].calls = IF job[l].stage = "done" THEN 1 ELSE 0
    BY DEF LookupsInv, AllSound, Sound
  <2>2. job[l].stage = "wait" <=> queries # {}
    BY DEF LookupsInv, Carried, Listed
  <2>3. \A i \in queries : queries = {i}
    BY DEF LookupsInv, Queue
  <2>4. queries # {} <=> \E i \in DOMAIN waiting : queries = {i}
    BY <2>3
  <2>5. job[l].stage = "ask" <=> cur = l
    BY DEF LookupsInv, Carried
  <2>. QED
    BY <2>1, <2>2, <2>4, <2>5
<1>. QED
  BY <1>1, <1>2, <1>3 DEF AnsweredOnce

\* Where a lookup has become another record, the others are as they were.
LEMMA BecomesSound ==
  ASSUME AllSound, NEW l \in Lookup, NEW stages, Becomes(l, stages)
  PROVE  /\ AllSound' /\ job'[l].stage \in stages
         /\ \A m \in Lookup \ {l} : job'[m] = job[m]
<1>1. PICK r \in JobRecord : /\ Sound(r) /\ r.stage \in stages
                             /\ job' = [job EXCEPT ![l] = r]
  BY DEF Becomes
<1>2. /\ job' \in [Lookup -> JobRecord] /\ job'[l] = r
      /\ \A m \in Lookup \ {l} : job'[m] = job[m]
  BY <1>1 DEF AllSound
<1>3. \A m \in Lookup : Sound(job'[m])
  BY <1>1, <1>2 DEF AllSound
<1>4. \A j : Sound(j)' <=> Sound(j)
  BY DEF Sound, OneDns, DnsLeft
<1>. QED
  BY <1>1, <1>2, <1>3 DEF AllSound

-----------------------------------------------------------------------------
(* The steps *)

LEMMA AnsweredByCancel ==
  {StatusOf(rcode, answers) : rcode \in Rcodes, answers \in BOOLEAN}
    \cup {"ETIMEOUT", "ECONNREFUSED", "ENOMEM", "EBADNAME", "ECANCELLED", "EDESTRUCTION"}
  \subseteq Endings
BY DEF StatusOf, Endings, Status

\* A lookup that moves outside ares_query: it is cur exactly if it asks.
LEMMA MovedIsCarried ==
  ASSUME LookupsInv, NEW l \in Lookup, Moves(l), Queue',
         cur' = IF job'[l].stage = "ask" THEN l ELSE NoLookup,
         \A m \in Lookup : Listed(m)' <=> m # l /\ Listed(m),
         cur \in {l, NoLookup}
  PROVE  AllSound' /\ Carried'
<1>1. /\ AllSound' /\ job'[l].stage \in {"ask", "done"}
      /\ \A m \in Lookup \ {l} : job'[m] = job[m]
  BY BecomesSound DEF LookupsInv, Moves
<1>2. cur' \in Lookup \cup {NoLookup}
  OBVIOUS
<1>3. \A m \in Lookup : job'[m].stage = "wait" <=> Listed(m)'
  BY <1>1 DEF LookupsInv, Carried
<1>4. \A m \in Lookup : job'[m].stage = "ask" <=> cur' = m
  BY <1>1, NoLookupAssumption DEF LookupsInv, Carried
<1>. QED
  BY <1>1, <1>2, <1>3, <1>4 DEF Carried

LEMMA StartMoves ==
  ASSUME NEW l \in Lookup, Start(l)
  PROVE  Moves(l)
<1>1. PICK want \in {"inet", "inet6", "unspec", "addr"}, form \in {"single", "dotted", "bare"} :
        LET j == [Fresh EXCEPT !.want = want, !.form = form] IN
        /\ form # "single" => want # "addr" /\ NDomains > 0
        /\ \/ \E status \in {"ENOTIMP", "ENOMEM"} : EndHquery(l, j, status)
           \/ want \in {"inet", "inet6"} /\ EndHquery(l, j, "SUCCESS")
           \/ NextLookup(l, j, IF want = "addr" THEN "ENOTFOUND" ELSE "ECONNREFUSED")
  BY DEF Start
<1>. DEFINE j == [Fresh EXCEPT !.want = want, !.form = form]
<1>2. Running(j)
  <2>1. Fresh \in JobRecord /\ Fresh.calls = 0
    BY FreshSound DEF Sound, Fresh
  <2>2. j \in JobRecord /\ j.calls = 0 /\ j.form = form
    BY <2>1 DEF JobRecord
  <2>. QED
    BY <1>1, <2>2 DEF Running
<1>3. {"ENOTIMP", "ENOMEM", "SUCCESS", "ENOTFOUND", "ECONNREFUSED"} \subseteq Status
  BY DEF Status
<1>4. Ended(l) => Moves(l)
  BY DEF Ended, Moves, Becomes
<1>. HIDE DEF j
<1>5. ASSUME NEW status \in Status, EndHquery(l, j, status)
      PROVE  Moves(l)
  BY <1>2, <1>4, <1>5, EndHqueryEnds
<1>6. ASSUME NEW status \in Status, NextLookup(l, j, status)
      PROVE  Moves(l)
  BY <1>2, <1>6, NextLookupMoves
<1>. QED
  BY <1>1, <1>3, <1>5, <1>6 DEF j

LEMMA StartKeeps ==
  ASSUME LookupsInv, NEW l \in Lookup, Start(l)
  PROVE  LookupsInv'
<1>. USE DEF LookupsInv
<1>1. Moves(l)
  BY StartMoves
<1>2. Queue' /\ \A m \in Lookup : Listed(m)' <=> Listed(m)
  BY DEF Start, Queue, Listed
<1>3. ~ Listed(l)
  BY DEF Start, Carried
<1>4. AllSound' /\ Carried'
  BY <1>1, <1>2, <1>3, MovedIsCarried DEF Start
<1>5. Walking'
  BY DEF Start, Walking, sweepVars
<1>. QED
  BY <1>2, <1>4, <1>5

LEMMA AskSentKeeps ==
  ASSUME LookupsInv, NEW l \in Lookup, AskSent(l)
  PROVE  LookupsInv'
<1>. USE DEF LookupsInv
<1>1. job[l].stage = "ask" /\ ~ Listed(l)
  BY DEF AskSent, Carried
<1>2. AllSound' /\ job'[l].stage = "wait" /\ \A m \in Lookup \ {l} : job'[m] = job[m]
  <2>. DEFINE r == [job[l] EXCEPT !.stage = "wait"]
  <2>1. r \in JobRecord /\ r.stage = "wait" /\ r.form = job[l].form /\ r.at = job[l].at
        /\ r.calls = job[l].calls
    BY DEF AllSound, JobRecord
  <2>2. Sound(r)
    BY <1>1, <2>1 DEF AllSound, Sound, DnsLeft
  <2>3. Becomes(l, {"wait"})
    BY <2>1, <2>2 DEF Becomes, AskSent
  <2>. QED
    BY <2>3, BecomesSound
<1>3. /\ waiting' = Append(waiting, l) /\ waiting' \in Seq(Lookup)
      /\ DOMAIN waiting' = 1 .. Len(waiting) + 1 /\ waiting'[Len(waiting) + 1] = l
      /\ \A i \in 1 .. Len(waiting) : waiting'[i] = waiting[i]
  BY QueueIs DEF AskSent, Queue
<1>4. Len(waiting) \in Nat /\ DOMAIN waiting = 1 .. Len(waiting)
  BY QueueIs
<1>5. \A i \in DOMAIN waiting : waiting[i] # l
  BY <1>1 DEF Listed
<1>6. Queue'
  BY <1>3, <1>4, <1>5 DEF Queue
<1>7. \A m \in Lookup : Listed(m)' <=> m = l \/ Listed(m)
  BY <1>3, <1>4 DEF Listed
<1>8. Carried'
  <2>1. cur' = NoLookup /\ cur = l
    BY DEF AskSent
  <2>. QED
    BY <1>2, <1>7, <2>1, NoLookupAssumption DEF Carried
<1>9. Walking'
  BY NoLookupAssumption DEF AskSent, Walking, sweepVars
<1>. QED
  BY <1>2, <1>6, <1>8, <1>9

LEMMA AskFailsKeeps ==
  ASSUME LookupsInv, NEW l \in Lookup, AskFails(l)
  PROVE  LookupsInv'
<1>. USE DEF LookupsInv
<1>1. PICK status \in {"EBADNAME", "ENOMEM", "ECONNREFUSED"} : QueryEnds(l, status)
  BY DEF AskFails
<1>2. job[l].stage = "ask" /\ ~ Listed(l) /\ Sound(job[l]) /\ cur = l
  BY DEF AskFails, Carried, AllSound
<1>3. Moves(l)
  BY <1>1, <1>2, QueryEndsMoves, AnsweredByCancel
<1>4. Queue' /\ \A m \in Lookup : Listed(m)' <=> m # l /\ Listed(m)
  BY <1>2 DEF AskFails, Queue, Listed
<1>5. AllSound' /\ Carried'
  BY <1>1, <1>2, <1>3, <1>4, MovedIsCarried DEF QueryEnds
<1>6. Walking'
  BY <1>2, NoLookupAssumption DEF AskFails, Walking, sweepVars
<1>. QED
  BY <1>4, <1>5, <1>6

LEMMA AnswerKeeps ==
  ASSUME LookupsInv, NEW l \in Lookup, Answer(l)
  PROVE  LookupsInv'
<1>. USE DEF LookupsInv
<1>1. PICK status \in Endings : QueryEnds(l, status)
  BY AnsweredByCancel DEF Answer
<1>2. job[l].stage = "wait" /\ Listed(l) /\ Sound(job[l]) /\ cur = NoLookup
  BY DEF Answer, Carried, AllSound
<1>3. Moves(l)
  BY <1>1, <1>2, QueryEndsMoves
<1>4. Queue' /\ \A m \in Lookup : Listed(m)' <=> m # l /\ Listed(m)
  BY <1>2, UnlistedKeepsOthers DEF Answer
<1>5. AllSound' /\ Carried'
  BY <1>1, <1>2, <1>3, <1>4, MovedIsCarried DEF QueryEnds
<1>6. Walking'
  BY DEF Answer, Walking, sweepVars
<1>. QED
  BY <1>4, <1>5, <1>6

LEMMA BeginSweepKeeps ==
  ASSUME LookupsInv, NEW kind \in {"cancel", "destroy"}, BeginSweep(kind)
  PROVE  LookupsInv'
<1>. USE DEF LookupsInv
<1>1. AllSound' /\ Queue' /\ Carried'
  BY DEF BeginSweep, AllSound, Sound, OneDns, DnsLeft, Queue, Carried, Listed
<1>2. waiting # <<>> => Head(waiting) = waiting[1] /\ waiting[1] \in Lookup
  BY EmptySeq DEF Queue
<1>3. Walking'
  BY <1>2 DEF BeginSweep, Walking, First
<1>. QED
  BY <1>1, <1>3

\* A callback that is told of the end of its channel asks no further query.
LEMMA SweepQueryKeeps ==
  ASSUME OneDns, LookupsInv, SweepQuery
  PROVE  LookupsInv'
<1>. USE DEF LookupsInv
<1>1. waiting # <<>> /\ node = waiting[1] /\ node \in Lookup /\ cur = NoLookup
  BY DEF SweepQuery, Walking, First
<1>2. PICK status \in {"ECANCELLED", "EDESTRUCTION"} : QueryEnds(node, status)
  BY DEF SweepQuery
<1>3. 1 \in DOMAIN waiting
  BY <1>1, EmptySeq DEF Queue
<1>4. Listed(node) /\ job[node].stage = "wait" /\ Sound(job[node])
  BY <1>1, <1>3 DEF Listed, Carried, AllSound
<1>5. Moves(node) /\ Ended(node)
  BY <1>1, <1>2, <1>4, QueryEndsMoves, AnsweredByCancel
<1>6. Queue' /\ \A m \in Lookup : Listed(m)' <=> m # node /\ Listed(m)
  BY <1>1, <1>4, UnlistedKeepsOthers DEF SweepQuery
<1>7. AllSound' /\ Carried'
  BY <1>1, <1>2, <1>5, <1>6, MovedIsCarried DEF QueryEnds
<1>8. cur' = NoLookup
  <2>1. job'[node].stage = "done"
    BY <1>1, <1>5, BecomesSound DEF Ended
  <2>. QED
    BY <1>2, <2>1 DEF QueryEnds
<1>9. node' = First'
  BY <1>1, UnlistedFirst DEF SweepQuery
<1>10. First' \in Lookup \cup {NoLookup}
  BY <1>6, EmptySeq DEF Queue, First
<1>11. Walking'
  BY <1>8, <1>9, <1>10 DEF SweepQuery, Walking
<1>. QED
  BY <1>6, <1>7, <1>11

LEMMA EndSweepKeeps ==
  ASSUME LookupsInv, EndSweep
  PROVE  LookupsInv'
<1>. USE DEF LookupsInv
<1>1. AllSound' /\ Queue' /\ Carried'
  BY DEF EndSweep, AllSound, Sound, OneDns, DnsLeft, Queue, Carried, Listed
<1>2. waiting = <<>>
  <2>1. waiting # <<>> => waiting[1] \in Lookup
    BY EmptySeq DEF Queue
  <2>. QED
    BY <2>1, NoLookupAssumption DEF EndSweep, Walking, First
<1>3. Walking'
  BY <1>2 DEF EndSweep, Walking
<1>. QED
  BY <1>1, <1>3

LEMMA LookupsInvStep == ASSUME OneDns PROVE LookupsInv /\ [Next]_vars => LookupsInv'
<1>. SUFFICES ASSUME LookupsInv, [Next]_vars PROVE LookupsInv'
  OBVIOUS
<1>1. CASE UNCHANGED vars
  BY <1>1 DEF vars, LookupsInv, AllSound, Sound, OneDns, DnsLeft, Queue, Carried, Listed, Walking, First
<1>2. ASSUME NEW l \in Lookup, Start(l) \/ AskSent(l) \/ AskFails(l) \/ Answer(l)
      PROVE  LookupsInv'
  BY <1>2, StartKeeps, AskSentKeeps, AskFailsKeeps, AnswerKeeps
<1>3. ASSUME NEW kind \in {"cancel", "destroy"}, BeginSweep(kind)
      PROVE  LookupsInv'
  BY <1>3, BeginSweepKeeps
<1>4. CASE SweepQuery \/ EndSweep
  BY <1>4, SweepQueryKeeps, EndSweepKeeps
<1>. QED
  BY <1>1, <1>2, <1>3, <1>4 DEF Next

-----------------------------------------------------------------------------
(* The agenda of a search *)

agenda == [l \in Lookup |-> Agenda(job[l])]
replies == [l \in Lookup |-> job[l].heard]
verdict == [l \in Lookup |-> job[l].verdict]

\* The search domains after the first d, and the name as it is if it comes last.
Domains(d) == [i \in 1 .. NDomains - d |-> d + i]
Last(asIs, name) == IF asIs = "NONE" /\ name # AsIs THEN <<AsIs>> ELSE <<>>

LEMMA DomainsAre ==
  ASSUME NEW d \in Candidate
  PROVE  /\ Domains(d) \in Seq(Candidate) /\ Len(Domains(d)) = NDomains - d
         /\ \A i \in 1 .. NDomains - d : Domains(d)[i] = d + i
<1>1. NDomains - d \in Nat /\ \A i \in 1 .. NDomains - d : d + i \in Candidate
  BY DomainsAreNatural DEF Candidate
<1>2. Domains(d) \in [1 .. NDomains - d -> Candidate]
  BY <1>1 DEF Domains
<1>. QED
  BY <1>1, <1>2, SeqDef DEF Domains

LEMMA NextDomainFirst ==
  ASSUME NEW d \in Candidate, d < NDomains
  PROVE  /\ d + 1 \in Candidate
         /\ Domains(d) = <<d + 1>> \o Domains(d + 1)
<1>1. d + 1 \in Candidate /\ d \in Nat /\ NDomains \in Nat
  BY DomainsAreNatural DEF Candidate
<1>. DEFINE one == <<d + 1>>
            rest == Domains(d + 1)
<1>2. one \in Seq(Candidate) /\ Len(one) = 1 /\ one[1] = d + 1
  BY <1>1
<1>3. /\ rest \in Seq(Candidate) /\ Len(rest) = NDomains - (d + 1)
      /\ \A i \in 1 .. NDomains - (d + 1) : rest[i] = d + 1 + i
  BY <1>1, DomainsAre
<1>. HIDE DEF one, rest
<1>4. /\ one \o rest \in Seq(Candidate) /\ Len(one \o rest) = NDomains - d
      /\ \A i \in 1 .. NDomains - d :
           (one \o rest)[i] = IF i <= 1 THEN one[i] ELSE rest[i - 1]
  <2>1. one \in Seq(Candidate) /\ rest \in Seq(Candidate)
    BY <1>2, <1>3
  <2>2. /\ one \o rest \in Seq(Candidate) /\ Len(one \o rest) = Len(one) + Len(rest)
        /\ \A i \in 1 .. Len(one) + Len(rest) :
             (one \o rest)[i] = IF i <= Len(one) THEN one[i] ELSE rest[i - Len(one)]
    BY <2>1, ConcatProperties, Zenon
  <2>3. 1 + (NDomains - (d + 1)) = NDomains - d
    BY <1>1
  <2>. QED
    BY <1>2, <1>3, <2>2, <2>3, Zenon
<1>5. \A i \in 1 .. NDomains - d : (one \o rest)[i] = d + i
  <2>1. ASSUME NEW i \in 1 .. NDomains - d, ~ (i <= 1)
        PROVE  i - 1 \in 1 .. NDomains - (d + 1) /\ d + 1 + (i - 1) = d + i
    BY <1>1, <2>1
  <2>2. \A i \in 1 .. NDomains - d : i <= 1 => i = 1
    OBVIOUS
  <2>. QED
    BY <1>2, <1>3, <1>4, <2>1, <2>2
<1>6. Domains(d) = one \o rest
  <2>1. /\ Domains(d) \in Seq(Candidate) /\ Len(Domains(d)) = Len(one \o rest)
        /\ \A i \in 1 .. Len(Domains(d)) : Domains(d)[i] = (one \o rest)[i]
    BY <1>4, <1>5, DomainsAre, Zenon
  <2>. QED
    BY <1>4, <2>1, SeqEqual, Zenon
<1>. QED
  BY <1>1, <1>6 DEF one, rest

LEMMA LastIs == \A asIs, name : Last(asIs, name) \in Seq(Candidate)
BY DomainsAreNatural DEF Last

LEMMA OneBefore ==
  ASSUME NEW s \in Seq(Candidate), NEW c \in Candidate
  PROVE  /\ <<c>> \o s \in Seq(Candidate) /\ <<c>> \o s # <<>>
         /\ Len(<<c>> \o s) = 1 + Len(s)
         /\ Head(<<c>> \o s) = c /\ Tail(<<c>> \o s) = s
<1>. DEFINE one == <<c>>
            t == one \o s
<1>1. one \in Seq(Candidate) /\ Len(one) = 1 /\ one[1] = c /\ Len(s) \in Nat
  OBVIOUS
<1>. HIDE DEF one
<1>2. /\ t \in Seq(Candidate) /\ Len(t) = 1 + Len(s)
      /\ \A i \in 1 .. 1 + Len(s) : t[i] = IF i <= 1 THEN one[i] ELSE s[i - 1]
  <2>1. /\ t \in Seq(Candidate) /\ Len(t) = Len(one) + Len(s)
        /\ \A i \in 1 .. Len(one) + Len(s) :
             t[i] = IF i <= Len(one) THEN one[i] ELSE s[i - Len(one)]
    BY <1>1, ConcatProperties, Zenon
  <2>. QED
    BY <1>1, <2>1, Zenon
<1>. HIDE DEF t
<1>3. t # <<>> /\ t[1] = c
  BY <1>1, <1>2, EmptySeq
<1>4. Head(t) = c
  BY <1>2, <1>3
<1>5. /\ Tail(t) \in Seq(Candidate) /\ Len(Tail(t)) = Len(s)
      /\ \A i \in 1 .. Len(s) : Tail(t)[i] = t[i + 1]
  BY <1>1, <1>2, <1>3, HeadTailProperties
<1>6. \A i \in 1 .. Len(s) : t[i + 1] = s[i]
  BY <1>1, <1>2
<1>7. Tail(t) = s
  BY <1>5, <1>6, SeqEqual
<1>. QED
  BY <1>2, <1>3, <1>4, <1>7 DEF one, t

\* What a search has before it, as a sequence with a first element.
LEMMA AgendaIs ==
  ASSUME NEW j \in JobRecord, j.stage \in {"ask", "wait"}, j.want # "addr"
  PROVE  LET rest == IF j.form = "single" THEN <<>>
                     ELSE Domains(j.nextDomain) \o Last(j.asIs, j.name)
         IN  /\ rest \in Seq(Candidate)
             /\ Agenda(j) = <<j.name>> \o rest
<1>1. j.nextDomain \in Candidate
  BY DEF JobRecord
<1>2. Domains(j.nextDomain) \o Last(j.asIs, j.name) \in Seq(Candidate)
  BY <1>1, DomainsAre, LastIs, ConcatProperties
<1>3. <<>> \in Seq(Candidate)
  BY EmptySeq
<1>. QED
  BY <1>2, <1>3 DEF Agenda, Domains, Last

LEMMA NoAgenda == \A j : j.stage \in {"new", "done"} \/ j.want = "addr" => Agenda(j) = <<>>
BY DEF Agenda

\* A search begins with one of the orders of the documentation.
LEMMA AgendaBegins ==
  ASSUME NEW j \in JobRecord, j.stage = "ask", j.want # "addr", j.form # "single" => NDomains > 0,
         j.name = (IF j.form = "bare" THEN 1 ELSE AsIs), j.nextDomain = FirstDomain(j.form),
         j.asIs = "NONE"
  PROVE  Agenda(j) \in Search!Orders
<1>1. NDomains \in Nat /\ AsIs \in Candidate /\ 0 \in Candidate /\ AsIs = 0
  BY DomainsAreNatural DEF AsIs, Candidate
<1>2. Domains(0) = Search!InOrder
  <2>1. NDomains - 0 = NDomains /\ \A i \in 1 .. NDomains : 0 + i = i
    BY <1>1
  <2>. QED
    BY <2>1 DEF Domains, Search!InOrder
<1>3. CASE j.form = "single"
  <2>1. j.name = AsIs /\ <<AsIs>> \in Seq(Candidate)
    BY <1>1, <1>3
  <2>2. Agenda(j) = <<AsIs>> \o <<>>
    BY <1>3, <2>1, AgendaIs
  <2>3. Agenda(j) = <<AsIs>>
    BY <2>1, <2>2, ConcatEmptySeq
  <2>. QED
    BY <2>3 DEF Search!Orders, Search!AsIs, AsIs
<1>4. CASE j.form = "dotted"
  <2>1. j.name = AsIs /\ j.nextDomain = 0 /\ Last(j.asIs, j.name) = <<>>
    BY <1>4 DEF FirstDomain, Last
  <2>2. Agenda(j) = <<AsIs>> \o (Domains(0) \o <<>>)
    BY <1>4, <2>1, AgendaIs
  <2>3. Domains(0) \o <<>> = Domains(0)
    BY <1>1, DomainsAre, ConcatEmptySeq
  <2>. QED
    BY <1>2, <2>2, <2>3 DEF Search!Orders, Search!AsIs, AsIs
<1>5. CASE j.form = "bare"
  <2>1. j.name = 1 /\ j.nextDomain = 1 /\ Last(j.asIs, j.name) = <<AsIs>>
    BY <1>1, <1>5 DEF FirstDomain, Last
  <2>2. 1 \in Candidate /\ 0 < NDomains
    BY <1>1, <1>5 DEF Candidate
  <2>3. Agenda(j) = <<1>> \o (Domains(1) \o <<AsIs>>)
    BY <1>5, <2>1, AgendaIs
  <2>4. Domains(0) = <<1>> \o Domains(1)
    <3>1. 0 + 1 = 1
      OBVIOUS
    <3>. QED
      BY <1>1, <2>2, <3>1, NextDomainFirst
  <2>5. <<1>> \in Seq(Candidate) /\ <<AsIs>> \in Seq(Candidate) /\ Domains(1) \in Seq(Candidate)
    BY <1>1, <2>2, DomainsAre
  <2>6. Agenda(j) = Domains(0) \o <<AsIs>>
    BY <2>3, <2>4, <2>5, ConcatAssociative
  <2>. QED
    BY <1>2, <2>6 DEF Search!Orders, Search!AsIs, AsIs
<1>. QED
  BY <1>3, <1>4, <1>5 DEF JobRecord

-----------------------------------------------------------------------------
(* A lookup's search *)

\* What the search of a lookup remembers is what its answers said: whether a
\* candidate had no data, and the answer for the name as it is.  Neither the
\* candidate that is asked nor the domains after next_domain were answered.
SearchSound(j) ==
  /\ j.stage = "new" => j = Fresh
  /\ j.stage = "done" \/ j.form = "single" => j.heard = Fresh.heard
  /\ j.form = "single" => j.name = AsIs
  /\ j.want = "addr" => j.form = "single"
  /\ j.form # "single" => /\ j.asIs = j.heard[AsIs]
                          /\ j.nodata <=> \E c \in Candidate : j.heard[c] = "ENODATA"
                          /\ j.name <= j.nextDomain
                          /\ \A c \in Candidate : c = j.name \/ c > j.nextDomain =>
                                                  j.heard[c] = "NONE"

SearchesSound == \A l \in Lookup : SearchSound(job[l])

LEMMA FreshIs ==
  /\ Fresh \in JobRecord /\ Fresh.form = "single" /\ Fresh.name = AsIs /\ Fresh.want = "none"
  /\ Fresh.stage = "new" /\ Fresh.calls = 0 /\ Fresh.verdict = "NONE" /\ Fresh.at = 1
  /\ Fresh.heard = Search!NoReplies /\ \A c \in Candidate : Fresh.heard[c] = "NONE"
BY FreshSound DEF Sound, Fresh, Search!NoReplies, Search!Candidate, Candidate

\* The lookup begins a search, the first one or the one for the other family.
Restarts(l) ==
  \E r \in JobRecord :
    /\ job' = [job EXCEPT ![l] = r]
    /\ SearchSound(r) /\ r.stage = "ask"
    /\ Agenda(r) \in Search!Orders /\ r.heard = Search!NoReplies /\ r.verdict = "NONE"

LEMMA AresSearchRestarts ==
  ASSUME NEW l \in Lookup, NEW j, Running(j), j.want # "addr",
         NEW family \in {"inet", "inet6"}, AresSearch(l, j, family)
  PROVE  Restarts(l)
<1>. DEFINE name == IF j.form = "bare" THEN 1 ELSE AsIs
            r == [j EXCEPT !.stage = "ask", !.sent = family, !.name = name,
                           !.nextDomain = FirstDomain(j.form), !.asIs = "NONE", !.nodata = FALSE,
                           !.heard = Fresh.heard, !.verdict = "NONE"]
<1>1. name \in Candidate /\ FirstDomain(j.form) \in Candidate
  BY DomainsAreNatural DEF Running, Candidate, FirstDomain, AsIs
<1>2. Fresh.heard \in [Candidate -> {"NONE"} \cup Soft] /\ "NONE" \in Status
  BY DEF Fresh, Status
<1>3. /\ r \in JobRecord /\ r.stage = "ask" /\ r.form = j.form /\ r.want = j.want
      /\ r.name = name /\ r.nextDomain = FirstDomain(j.form) /\ r.asIs = "NONE"
      /\ r.nodata = FALSE /\ r.heard = Fresh.heard /\ r.verdict = "NONE"
  <2>. HIDE DEF name
  <2>. QED BY <1>1, <1>2 DEF Running, JobRecord
<1>4. job' = [job EXCEPT ![l] = r]
  BY DEF AresSearch
<1>. HIDE DEF r
<1>5. Agenda(r) \in Search!Orders
  BY <1>3, AgendaBegins DEF Running
<1>6. SearchSound(r)
  <2>1. Fresh.heard[AsIs] = "NONE" /\ \A c \in Candidate : Fresh.heard[c] = "NONE"
    BY FreshIs, DomainsAreNatural
  <2>2. r.name <= r.nextDomain
    BY <1>3 DEF FirstDomain, AsIs
  <2>. QED
    BY <1>3, <2>1, <2>2 DEF SearchSound
<1>. QED
  BY <1>3, <1>4, <1>5, <1>6, FreshIs DEF Restarts

LEMMA NextLookupSearches ==
  ASSUME NEW l \in Lookup, NEW j, Running(j), j.want # "addr", NEW status,
         NextLookup(l, j, status)
  PROVE  EndHquery(l, j, "SUCCESS") \/ EndHquery(l, j, status) \/ Restarts(l)
<1>. DEFINE dns == DnsLeft(j)
            first == IF dns = {} THEN Len(Lookups) + 1 ELSE CHOOSE i \in dns : \A k \in dns : i <= k
            moved == [j EXCEPT !.at = first + 1]
<1>1. ASSUME dns # {}, AresSearch(l, moved, IF j.want = "inet" THEN "inet" ELSE "inet6")
      PROVE  Restarts(l)
  <2>1. Running(moved) /\ moved.want = j.want
    BY <1>1, MovedOn
  <2>. HIDE DEF moved
  <2>. QED
    BY <1>1, <2>1, AresSearchRestarts
<1>. QED
  BY <1>1 DEF NextLookup

\* A caller that takes either family is told of a useless answer for IPv6 only
\* as that of a query for IPv4.
Untold == {"ENODATA", "EBADRESP", "ETIMEOUT"}

LEMMA HostCallbackSearches ==
  ASSUME NEW l \in Lookup, NEW j, Running(j), j.want # "addr",
         NEW status \in Status, HostCallback(l, j, status)
  PROVE  \/ Restarts(l)
         \/ \E s \in Status :
              /\ EndHquery(l, j, s)
              /\ j.sent = "inet6" /\ j.want = "unspec" =>
                   s \notin Untold /\ (s = "ENOTFOUND" => status = "ENOTFOUND")
<1>. DEFINE second == j.sent = "inet6" /\ j.want = "unspec"
<1>1. CASE AresSearch(l, j, "inet")
  BY <1>1, AresSearchRestarts
<1>2. ASSUME NEW parsed \in Parsed, EndHquery(l, j, parsed), ~ (second /\ parsed \in Useless)
      PROVE  \E s \in Status : /\ EndHquery(l, j, s)
                               /\ second => s \notin Untold /\ (s = "ENOTFOUND" => status = "ENOTFOUND")
  BY <1>2, SoftIsStatus DEF Parsed, Useless, Untold, Endings
<1>3. ASSUME status = "EDESTRUCTION", EndHquery(l, j, status)
      PROVE  \E s \in Status : /\ EndHquery(l, j, s)
                               /\ second => s \notin Untold /\ (s = "ENOTFOUND" => status = "ENOTFOUND")
  BY <1>3 DEF Untold
<1>4. ASSUME ~ (second /\ status \in Useless \cup {"ETIMEOUT"}), NextLookup(l, j, status)
      PROVE  \/ Restarts(l)
             \/ \E s \in Status : /\ EndHquery(l, j, s)
                                  /\ second => s \notin Untold /\ (s = "ENOTFOUND" => status = "ENOTFOUND")
  <2>1. EndHquery(l, j, "SUCCESS") \/ EndHquery(l, j, status) \/ Restarts(l)
    BY <1>4, NextLookupSearches
  <2>2. "SUCCESS" \in Status /\ "SUCCESS" \notin Untold /\ Untold = Useless \cup {"ETIMEOUT"}
    BY DEF Status, Untold, Useless
  <2>. QED
    BY <1>4, <2>1, <2>2
<1>. QED
  BY <1>1, <1>2, <1>3, <1>4 DEF HostCallback

\* What a refusal leaves in the record of the search.
LEMMA HeardIs ==
  ASSUME NEW o \in JobRecord, NEW status \in Soft
  PROVE  LET j == Heard(o, status) IN
         /\ j \in JobRecord
         /\ j.heard = [o.heard EXCEPT ![o.name] = status]
         /\ j.asIs = IF o.name = AsIs THEN status ELSE o.asIs
         /\ j.nodata <=> o.nodata \/ status = "ENODATA"
         /\ j.stage = o.stage /\ j.want = o.want /\ j.form = o.form /\ j.at = o.at
         /\ j.sent = o.sent /\ j.name = o.name /\ j.nextDomain = o.nextDomain
         /\ j.verdict = o.verdict /\ j.calls = o.calls
<1>. DEFINE heard == [o.heard EXCEPT ![o.name] = status]
            asIs == IF o.name = AsIs THEN status ELSE o.asIs
            nodata == o.nodata \/ status = "ENODATA"
            Filled(hd, as, nd) == [o EXCEPT !.heard = hd, !.asIs = as, !.nodata = nd]
<1>1. heard \in [Candidate -> {"NONE"} \cup Soft] /\ asIs \in {"NONE"} \cup Soft
  BY DEF JobRecord
<1>2. nodata \in BOOLEAN
  BY Zenon
<1>3. Heard(o, status) = Filled(heard, asIs, nodata)
  BY DEF Heard, JobRecord
<1>4. ASSUME NEW hd \in [Candidate -> {"NONE"} \cup Soft], NEW as \in {"NONE"} \cup Soft,
             NEW nd \in BOOLEAN
      PROVE  LET e == Filled(hd, as, nd)
             IN  /\ e \in JobRecord
                 /\ e.heard = hd /\ e.asIs = as /\ (e.nodata <=> nd)
                 /\ e.stage = o.stage /\ e.want = o.want /\ e.form = o.form /\ e.at = o.at
                 /\ e.sent = o.sent /\ e.name = o.name /\ e.nextDomain = o.nextDomain
                 /\ e.verdict = o.verdict /\ e.calls = o.calls
  BY DEF JobRecord
<1>. HIDE DEF heard, asIs, nodata, Filled
<1>5. LET e == Filled(heard, asIs, nodata)
      IN  /\ e \in JobRecord
          /\ e.heard = heard /\ e.asIs = asIs /\ (e.nodata <=> nodata)
          /\ e.stage = o.stage /\ e.want = o.want /\ e.form = o.form /\ e.at = o.at
          /\ e.sent = o.sent /\ e.name = o.name /\ e.nextDomain = o.nextDomain
          /\ e.verdict = o.verdict /\ e.calls = o.calls
  BY <1>1, <1>2, <1>4
<1>. QED
  BY <1>3, <1>5 DEF heard, asIs, nodata

\* What changes of the three variables of NameSearch when one lookup changes.
LEMMA OneSearchMoves ==
  ASSUME job \in [Lookup -> JobRecord], NEW l \in Lookup, NEW r \in JobRecord,
         job' = [job EXCEPT ![l] = r]
  PROVE  /\ agenda' = [agenda EXCEPT ![l] = Agenda(r)]
         /\ replies' = [replies EXCEPT ![l] = r.heard]
         /\ verdict' = [verdict EXCEPT ![l] = r.verdict]
         /\ job'[l] = r
<1>1. /\ job' \in [Lookup -> JobRecord] /\ job'[l] = r
      /\ \A m \in Lookup : m # l => job'[m] = job[m]
  OBVIOUS
<1>2. agenda' = [m \in Lookup |-> Agenda(job'[m])]
  BY DEF agenda, Agenda
<1>. QED
  BY <1>1, <1>2 DEF agenda, replies, verdict

LEMMA HqueryEnds ==
  ASSUME job \in [Lookup -> JobRecord], NEW l \in Lookup, NEW j \in JobRecord,
         NEW s \in Status, EndHquery(l, j, s)
  PROVE  /\ agenda' = [agenda EXCEPT ![l] = <<>>]
         /\ replies' = [replies EXCEPT ![l] = Search!NoReplies]
         /\ verdict' = [verdict EXCEPT ![l] = j.verdict]
         /\ SearchSound(job'[l]) /\ job'[l].stage = "done" /\ job'[l].result = s
<1>. DEFINE v == j.verdict
            n == j.calls + 1
            r == [Fresh EXCEPT !.stage = "done", !.result = s, !.verdict = v, !.calls = n]
<1>1. v \in Status /\ n \in Nat
  BY DEF JobRecord
<1>. HIDE DEF v, n
<1>2. /\ r \in JobRecord /\ r.stage = "done" /\ r.result = s /\ r.verdict = v
      /\ r.form = Fresh.form /\ r.name = Fresh.name /\ r.want = Fresh.want /\ r.heard = Fresh.heard
  BY <1>1, FreshIs DEF JobRecord
<1>3. job' = [job EXCEPT ![l] = r]
  BY DEF EndHquery, v, n
<1>. HIDE DEF r
<1>4. Agenda(r) = <<>> /\ SearchSound(r)
  BY <1>2, FreshIs, NoAgenda DEF SearchSound
<1>5. /\ agenda' = [agenda EXCEPT ![l] = Agenda(r)]
      /\ replies' = [replies EXCEPT ![l] = r.heard]
      /\ verdict' = [verdict EXCEPT ![l] = r.verdict]
      /\ job'[l] = r
  BY <1>2, <1>3, OneSearchMoves
<1>6. r.heard = Search!NoReplies /\ r.verdict = j.verdict
  BY <1>2, FreshIs DEF v
<1>. QED
  BY <1>2, <1>4, <1>5, <1>6

LEMMA SearchStartsOver ==
  ASSUME job \in [Lookup -> JobRecord], NEW l \in Lookup, Restarts(l)
  PROVE  Search!StartOver(l) /\ SearchSound(job'[l]) /\ job'[l].stage = "ask"
<1>1. PICK r \in JobRecord :
        /\ job' = [job EXCEPT ![l] = r]
        /\ SearchSound(r) /\ r.stage = "ask"
        /\ Agenda(r) \in Search!Orders /\ r.heard = Search!NoReplies /\ r.verdict = "NONE"
  BY DEF Restarts
<1>2. /\ agenda' = [agenda EXCEPT ![l] = Agenda(r)]
      /\ replies' = [replies EXCEPT ![l] = r.heard]
      /\ verdict' = [verdict EXCEPT ![l] = r.verdict]
      /\ job'[l] = r
  BY <1>1, OneSearchMoves
<1>3. Search!StartOver(l)
  BY <1>1, <1>2 DEF Search!StartOver, agenda, replies, verdict
<1>. QED
  BY <1>1, <1>2, <1>3

\* The next candidate of the agenda is asked.
LEMMA SearchGoesOn ==
  ASSUME job \in [Lookup -> JobRecord], NEW l \in Lookup, NEW r \in JobRecord,
         job' = [job EXCEPT ![l] = r],
         NEW status \in Soft, NEW rest \in Seq(Candidate), rest # <<>>,
         Agenda(job[l]) = <<job[l].name>> \o rest, Agenda(r) = rest,
         r.heard = [job[l].heard EXCEPT ![job[l].name] = status], r.verdict = job[l].verdict
  PROVE  Search!Refused(l, status)
<1>1. job[l].name \in Candidate
  BY DEF JobRecord
<1>2. /\ Len(Agenda(job[l])) = 1 + Len(rest) /\ Head(Agenda(job[l])) = job[l].name
      /\ Tail(Agenda(job[l])) = rest
  BY <1>1, OneBefore
<1>3. Len(rest) \in Nat \ {0}
  BY EmptySeq
<1>4. /\ agenda[l] = Agenda(job[l]) /\ replies[l] = job[l].heard /\ verdict[l] = job[l].verdict
      /\ replies \in [Lookup -> [Candidate -> {"NONE"} \cup Soft]]
      /\ DOMAIN agenda = Lookup /\ DOMAIN verdict = Lookup
  BY DEF agenda, replies, verdict, JobRecord
<1>5. /\ agenda' = [agenda EXCEPT ![l] = rest]
      /\ replies' = [replies EXCEPT ![l] = r.heard]
      /\ verdict' = [verdict EXCEPT ![l] = r.verdict]
  BY OneSearchMoves
<1>6. Len(agenda[l]) > 1
  BY <1>2, <1>3, <1>4
<1>7. agenda' = [agenda EXCEPT ![l] = Tail(@)]
  BY <1>2, <1>4, <1>5
<1>8. replies' = [replies EXCEPT ![l][Head(agenda[l])] = status]
  BY <1>2, <1>4, <1>5
<1>9. verdict' = verdict
  <2>1. [verdict EXCEPT ![l] = verdict[l]] = verdict
    BY DEF verdict
  <2>. QED
    BY <1>4, <1>5, <2>1
<1>. QED
  BY <1>6, <1>7, <1>8, <1>9 DEF Search!Refused, agenda, replies, verdict

\* The answers a query may give a search.
Outcomes == Soft \cup Search!Hard

LEMMA OutcomesAre == Search!Hard \subseteq Endings /\ Search!Hard \cap Soft = {} /\ Search!Soft = Soft
BY DEF Search!Hard, Endings, Status, Soft, Search!Soft

\* The search ends with what its callback is told.
LEMMA SearchIsOver ==
  ASSUME job \in [Lookup -> JobRecord], NEW l \in Lookup, NEW v \in JobRecord,
         NEW s \in Status, EndHquery(l, v, s),
         NEW rest \in Seq(Candidate), Agenda(job[l]) = <<job[l].name>> \o rest,
         NEW status \in Outcomes,
         NEW heard, heard = [job[l].heard EXCEPT ![job[l].name] = status],
         \/ status \in Search!Hard /\ v.verdict = status
         \/ /\ status \in Soft /\ rest = <<>>
            /\ v.verdict = IF heard[AsIs] = "ENOTFOUND" /\ \E c \in Candidate : heard[c] = "ENODATA"
                           THEN "ENODATA" ELSE heard[AsIs]
  PROVE  Search!Answered(l)
<1>1. job[l].name \in Candidate
  BY DEF JobRecord
<1>2. /\ Len(Agenda(job[l])) = 1 + Len(rest) /\ Head(Agenda(job[l])) = job[l].name
      /\ Agenda(job[l]) # <<>>
  BY <1>1, OneBefore
<1>3. agenda[l] = Agenda(job[l]) /\ replies[l] = job[l].heard
  BY DEF agenda, replies
<1>4. /\ agenda' = [agenda EXCEPT ![l] = <<>>]
      /\ replies' = [replies EXCEPT ![l] = Search!NoReplies]
      /\ verdict' = [verdict EXCEPT ![l] = v.verdict]
  BY HqueryEnds
<1>5. CASE status \in Search!Hard /\ v.verdict = status
  <2>1. Search!Finish(l, status)
    BY <1>4, <1>5 DEF Search!Finish, agenda, replies, verdict
  <2>2. Search!Settled(l, status)
    BY <1>2, <1>3, <2>1 DEF Search!Settled, agenda
  <2>. QED
    BY <1>5, <2>2 DEF Search!Answered
<1>6. CASE /\ status \in Soft /\ rest = <<>>
           /\ v.verdict = IF heard[AsIs] = "ENOTFOUND" /\ \E c \in Candidate : heard[c] = "ENODATA"
                          THEN "ENODATA" ELSE heard[AsIs]
  <2>1. Len(agenda[l]) = 1
    BY <1>2, <1>3, <1>6, EmptySeq
  <2>2. heard = [replies[l] EXCEPT ![Head(agenda[l])] = status]
    BY <1>2, <1>3
  <2>3. Search!Finish(l, v.verdict)
    BY <1>4 DEF Search!Finish, agenda, replies, verdict
  <2>4. Search!AsIs = AsIs /\ Search!Candidate = Candidate
    BY DEF Search!AsIs, Search!Candidate, AsIs, Candidate
  <2>5. v.verdict \in Search!Verdicts(heard)
    BY <1>6, <2>4 DEF Search!Verdicts
  <2>6. v.verdict \in Search!Verdicts([replies[l] EXCEPT ![Head(agenda[l])] = status])
    BY <2>2, <2>5
  <2>7. Search!Exhausted(l, status)
    BY <2>1, <2>3, <2>6 DEF Search!Exhausted, agenda, replies
  <2>. QED
    BY <1>6, <2>7, OutcomesAre DEF Search!Answered
<1>. QED
  BY <1>5, <1>6

\* The fall-back of a lookup for either family.
Falls(l) ==
  Ends(l) /\ job[l].want = "unspec" /\ job[l].sent = "inet6" =>
    /\ job'[l].result \notin Untold
    /\ job'[l].result = "ENOTFOUND" => \A c \in Candidate : job[l].heard[c] # "ENODATA"

\* search_callback is a step of NameSearch.
LEMMA SearchCallbackSearches ==
  ASSUME job \in [Lookup -> JobRecord], NEW l \in Lookup, Sound(job[l]), SearchSound(job[l]),
         job[l].stage \in {"ask", "wait"}, job[l].want # "addr",
         NEW status \in Outcomes, SearchCallback(l, status)
  PROVE  Search!Answered(l) /\ SearchSound(job'[l]) /\ Falls(l)
<1>. DEFINE o == job[l]
            j == Heard(o, status)
            heard == [o.heard EXCEPT ![o.name] = status]
            rest == IF o.form = "single" THEN <<>>
                    ELSE Domains(o.nextDomain) \o Last(o.asIs, o.name)
            goesOn == j.form # "single" /\ status \in Soft
            ends(final) == HostCallback(l, [j EXCEPT !.verdict = final], final)
<1>1. Running(o) /\ o \in JobRecord /\ o.name \in Candidate /\ o.nextDomain \in Candidate
  BY DEF Sound, Running, JobRecord
<1>2. rest \in Seq(Candidate) /\ Agenda(o) = <<o.name>> \o rest
  BY <1>1, AgendaIs
<1>3. /\ j \in JobRecord /\ Running(j)
      /\ j.stage = o.stage /\ j.want = o.want /\ j.form = o.form /\ j.sent = o.sent
      /\ j.name = o.name /\ j.nextDomain = o.nextDomain /\ j.verdict = o.verdict
  <2>1. CASE status \in Soft
    BY <1>1, <2>1, HeardIs DEF Running
  <2>2. CASE status \notin Soft
    BY <1>1, <2>2 DEF Heard
  <2>. QED
    BY <2>1, <2>2
<1>4. ASSUME status \in Soft
      PROVE  /\ j.heard = heard
             /\ j.asIs = IF o.name = AsIs THEN status ELSE o.asIs
             /\ j.nodata <=> o.nodata \/ status = "ENODATA"
  BY <1>1, <1>4, HeardIs
<1>5. ASSUME goesOn
      PROVE  /\ j.asIs = heard[AsIs] /\ j.heard = heard
             /\ j.nodata <=> \E c \in Candidate : heard[c] = "ENODATA"
             /\ o.nodata <=> \E c \in Candidate : o.heard[c] = "ENODATA"
             /\ \A c \in Candidate : c > o.nextDomain => heard[c] = "NONE"
  <2>1. /\ o.asIs = o.heard[AsIs] /\ (o.nodata <=> \E c \in Candidate : o.heard[c] = "ENODATA")
        /\ o.heard[o.name] = "NONE" /\ o.name <= o.nextDomain
        /\ \A c \in Candidate : c > o.nextDomain => o.heard[c] = "NONE"
    BY <1>1, <1>3, <1>5 DEF SearchSound
  <2>2. o.heard \in [Candidate -> {"NONE"} \cup Soft]
    BY <1>1 DEF JobRecord
  <2>3. heard[o.name] = status /\ \A c \in Candidate : c # o.name => heard[c] = o.heard[c]
    BY <1>1, <1>5, <2>2
  <2>4. j.asIs = heard[AsIs]
    BY <1>4, <1>5, <2>1, <2>3, DomainsAreNatural
  <2>5. j.nodata <=> \E c \in Candidate : heard[c] = "ENODATA"
    <3>1. o.nodata => \E c \in Candidate : c # o.name /\ o.heard[c] = "ENODATA"
      BY <2>1
    <3>. QED
      BY <1>1, <1>4, <1>5, <2>1, <2>3, <3>1
  <2>6. \A c \in Candidate : c > o.nextDomain => heard[c] = "NONE"
    <3>1. \A c \in Candidate : c > o.nextDomain => c # o.name
      BY <1>1, <2>1, DomainsAreNatural DEF Candidate
    <3>. QED
      BY <2>1, <2>3, <3>1
  <2>. QED
    BY <1>4, <1>5, <2>1, <2>4, <2>5, <2>6
<1>. HIDE DEF heard, rest, j
<1>6. ASSUME NEW r \in JobRecord, goesOn, job' = [job EXCEPT ![l] = r],
             rest # <<>>, Agenda(r) = rest, r.stage = "ask", r.form = o.form,
             r.heard = heard, r.verdict = o.verdict, SearchSound(r)
      PROVE  Search!Answered(l) /\ SearchSound(job'[l]) /\ Falls(l)
  <2>1. Search!Refused(l, status)
    BY <1>2, <1>6, SearchGoesOn DEF heard
  <2>2. job'[l] = r
    BY <1>6
  <2>. QED
    BY <1>6, <2>1, <2>2, OutcomesAre DEF Search!Answered, Falls, Ends
<1>7. ASSUME goesOn, DomainLeft(j),
             job' = [job EXCEPT ![l] = [j EXCEPT !.stage = "ask", !.name = j.nextDomain + 1,
                                                 !.nextDomain = @ + 1]]
      PROVE  Search!Answered(l) /\ SearchSound(job'[l]) /\ Falls(l)
  <2>. DEFINE d == o.nextDomain
              r == [j EXCEPT !.stage = "ask", !.name = j.nextDomain + 1, !.nextDomain = @ + 1]
  <2>1. d < NDomains /\ d \in Nat /\ d + 1 \in Candidate /\ d + 1 # AsIs /\ d + 1 > d
    BY <1>1, <1>3, <1>7, DomainsAreNatural DEF DomainLeft, Candidate, AsIs
  <2>2. /\ r \in JobRecord /\ r.stage = "ask" /\ r.form = o.form /\ r.want = o.want
        /\ r.name = d + 1 /\ r.nextDomain = d + 1
        /\ r.heard = j.heard /\ r.asIs = j.asIs /\ r.nodata = j.nodata /\ r.verdict = o.verdict
    BY <1>3, <2>1 DEF JobRecord
  <2>. HIDE DEF r
  <2>3. Last(j.asIs, d + 1) = Last(o.asIs, o.name)
    BY <1>4, <1>7, <2>1 DEF Last, Soft
  <2>4. Agenda(r) = <<d + 1>> \o (Domains(d + 1) \o Last(o.asIs, o.name))
    BY <1>3, <1>7, <2>2, <2>3, AgendaIs
  <2>5. /\ Domains(d) = <<d + 1>> \o Domains(d + 1) /\ <<d + 1>> \in Seq(Candidate)
        /\ Domains(d + 1) \in Seq(Candidate) /\ Last(o.asIs, o.name) \in Seq(Candidate)
    <3>1. Domains(d) = <<d + 1>> \o Domains(d + 1)
      BY <1>1, <2>1, NextDomainFirst
    <3>2. Domains(d + 1) \in Seq(Candidate)
      BY <2>1, DomainsAre
    <3>3. <<d + 1>> \in Seq(Candidate)
      BY <2>1
    <3>. QED
      BY <3>1, <3>2, <3>3, LastIs
  <2>6. rest = Agenda(r)
    BY <1>3, <1>7, <2>4, <2>5, ConcatAssociative DEF rest
  <2>7. rest # <<>>
    BY <2>1, <2>4, <2>5, <2>6, OneBefore, ConcatProperties
  <2>8. SearchSound(r)
    <3>1. \A c \in Candidate : c = d + 1 \/ c > d + 1 => c > d
      BY <2>1 DEF Candidate
    <3>. QED
      BY <1>3, <1>5, <1>7, <2>1, <2>2, <3>1 DEF SearchSound
  <2>. QED
    BY <1>5, <1>6, <1>7, <2>2, <2>6, <2>7, <2>8 DEF r
<1>8. ASSUME goesOn, ~ DomainLeft(j), j.asIs = "NONE",
             job' = [job EXCEPT ![l] = [j EXCEPT !.stage = "ask", !.name = AsIs]]
      PROVE  Search!Answered(l) /\ SearchSound(job'[l]) /\ Falls(l)
  <2>. DEFINE r == [j EXCEPT !.stage = "ask", !.name = AsIs]
  <2>1. /\ r \in JobRecord /\ r.stage = "ask" /\ r.form = o.form /\ r.want = o.want
        /\ r.name = AsIs /\ r.nextDomain = o.nextDomain
        /\ r.heard = j.heard /\ r.asIs = j.asIs /\ r.nodata = j.nodata /\ r.verdict = o.verdict
    BY <1>3, DomainsAreNatural DEF JobRecord
  <2>. HIDE DEF r
  <2>2. o.name # AsIs /\ o.asIs = "NONE" /\ "NONE" \notin Soft
    BY <1>4, <1>8 DEF Soft
  <2>3. Domains(o.nextDomain) = <<>>
    <3>1. Len(Domains(o.nextDomain)) = 0
      BY <1>1, <1>3, <1>8, DomainsAre, DomainsAreNatural DEF DomainLeft, Candidate
    <3>. QED
      BY <1>1, <3>1, DomainsAre, EmptySeq
  <2>4. Last(o.asIs, o.name) = <<AsIs>> /\ Last(r.asIs, r.name) = <<>>
    BY <2>1, <2>2 DEF Last
  <2>5. <<AsIs>> \in Seq(Candidate) /\ <<AsIs>> # <<>> /\ <<>> \in Seq(Candidate)
    BY DomainsAreNatural
  <2>6. rest = <<AsIs>>
    BY <1>3, <1>8, <2>3, <2>4, <2>5, ConcatEmptySeq DEF rest
  <2>7. Agenda(r) = <<AsIs>>
    <3>1. Agenda(r) = <<AsIs>> \o (<<>> \o <<>>)
      BY <1>3, <1>8, <2>1, <2>3, <2>4, AgendaIs
    <3>. QED
      BY <2>5, <3>1, ConcatEmptySeq
  <2>8. SearchSound(r)
    <3>1. r.name <= r.nextDomain
      BY <1>1, <2>1, DomainsAreNatural DEF AsIs, Candidate
    <3>. QED
      BY <1>3, <1>5, <1>8, <2>1, <3>1 DEF SearchSound
  <2>. QED
    BY <1>5, <1>6, <1>8, <2>1, <2>5, <2>6, <2>7, <2>8 DEF r
<1>9. ASSUME NEW final \in Status, ends(final),
             \/ status \in Search!Hard /\ final = status
             \/ /\ status \in Soft /\ rest = <<>>
                /\ final = IF heard[AsIs] = "ENOTFOUND" /\ \E c \in Candidate : heard[c] = "ENODATA"
                           THEN "ENODATA" ELSE heard[AsIs],
             final = "ENOTFOUND" => \A c \in Candidate : o.heard[c] # "ENODATA"
      PROVE  Search!Answered(l) /\ SearchSound(job'[l]) /\ Falls(l)
  <2>. DEFINE v == [j EXCEPT !.verdict = final]
  <2>1. v \in JobRecord /\ Running(v) /\ v.want = o.want /\ v.sent = o.sent /\ v.verdict = final
    BY <1>3, <1>9 DEF Running, JobRecord
  <2>2. HostCallback(l, v, final)
    BY <1>9
  <2>. HIDE DEF v
  <2>3. CASE Restarts(l)
    <3>1. Search!StartOver(l) /\ SearchSound(job'[l]) /\ job'[l].stage = "ask"
      BY <2>3, SearchStartsOver
    <3>2. Len(Agenda(o)) >= 1
      BY <1>1, <1>2, OneBefore
    <3>. QED
      BY <3>1, <3>2 DEF Search!Answered, agenda, Falls, Ends
  <2>4. ASSUME NEW s \in Status, EndHquery(l, v, s),
               v.sent = "inet6" /\ v.want = "unspec" =>
                 s \notin Untold /\ (s = "ENOTFOUND" => final = "ENOTFOUND")
        PROVE  Search!Answered(l) /\ SearchSound(job'[l]) /\ Falls(l)
    <3>1. SearchSound(job'[l]) /\ job'[l].stage = "done" /\ job'[l].result = s
      BY <2>1, <2>4, HqueryEnds
    <3>2. Search!Answered(l)
      BY <1>2, <1>9, <2>1, <2>4, SearchIsOver DEF heard
    <3>3. Falls(l)
      BY <1>9, <2>1, <2>4, <3>1 DEF Falls
    <3>. QED
      BY <3>1, <3>2, <3>3
  <2>. QED
    BY <1>9, <2>1, <2>2, <2>3, <2>4, HostCallbackSearches
<1>10. ASSUME goesOn, ~ DomainLeft(j), j.asIs # "NONE", ends(FinalStatus(j))
       PROVE  Search!Answered(l) /\ SearchSound(job'[l]) /\ Falls(l)
  <2>1. FinalStatus(j) \in Status
    BY <1>3, <1>10, SoftIsStatus DEF FinalStatus, JobRecord, Soft, Endings
  <2>2. FinalStatus(j) = IF heard[AsIs] = "ENOTFOUND" /\ \E c \in Candidate : heard[c] = "ENODATA"
                         THEN "ENODATA" ELSE heard[AsIs]
    BY <1>5, <1>10 DEF FinalStatus
  <2>3. rest = <<>>
    <3>1. Len(Domains(o.nextDomain)) = 0
      BY <1>1, <1>3, <1>10, DomainsAre, DomainsAreNatural DEF DomainLeft, Candidate
    <3>2. Domains(o.nextDomain) = <<>>
      BY <1>1, <3>1, DomainsAre, EmptySeq
    <3>3. Last(o.asIs, o.name) = <<>>
      BY <1>4, <1>10 DEF Last
    <3>4. <<>> \in Seq(Candidate)
      BY EmptySeq
    <3>. QED
      BY <1>3, <1>10, <3>2, <3>3, <3>4, ConcatEmptySeq DEF rest
  <2>4. FinalStatus(j) = "ENOTFOUND" => \A c \in Candidate : o.heard[c] # "ENODATA"
    BY <1>4, <1>5, <1>10 DEF FinalStatus
  <2>. QED
    BY <1>9, <1>10, <2>1, <2>2, <2>3, <2>4
<1>11. ASSUME ~ goesOn, ends(status)
       PROVE  Search!Answered(l) /\ SearchSound(job'[l]) /\ Falls(l)
  <2>1. status \in Status
    BY OutcomesAre, SoftIsStatus DEF Outcomes, Endings
  <2>2. CASE status \in Search!Hard
    <3>1. status # "ENOTFOUND"
      BY <2>2 DEF Search!Hard
    <3>. QED
      BY <1>9, <1>11, <2>1, <2>2, <3>1
  <2>3. CASE status \in Soft
    <3>1. o.form = "single" /\ rest = <<>> /\ o.name = AsIs /\ o.heard = Fresh.heard
      BY <1>3, <1>11, <2>3 DEF SearchSound, rest
    <3>2. /\ \A c \in Candidate : o.heard[c] = "NONE"
          /\ o.heard \in [Candidate -> {"NONE"} \cup Soft] /\ AsIs \in Candidate
      BY <1>1, <3>1, FreshIs, DomainsAreNatural DEF JobRecord
    <3>3. heard[AsIs] = status /\ \A c \in Candidate : c # AsIs => heard[c] = "NONE"
      BY <3>1, <3>2 DEF heard
    <3>4. status = IF heard[AsIs] = "ENOTFOUND" /\ \E c \in Candidate : heard[c] = "ENODATA"
                   THEN "ENODATA" ELSE heard[AsIs]
      BY <3>3
    <3>. QED
      BY <1>9, <1>11, <2>1, <2>3, <3>1, <3>2, <3>4
  <2>. QED
    BY <2>2, <2>3 DEF Outcomes
<1>. QED
  BY <1>7, <1>8, <1>10, <1>11 DEF SearchCallback, j

\* A lookup of an address, and one that ends before it searches, are no steps
\* of NameSearch.
Searchless(l, j) ==
  /\ Agenda(job[l]) = <<>> /\ job[l].heard = Search!NoReplies
  /\ Running(j) /\ j.verdict = job[l].verdict

LEMMA NotSearching ==
  ASSUME job \in [Lookup -> JobRecord], NEW l \in Lookup, NEW j, Searchless(l, j),
         \/ \E s \in Status : EndHquery(l, j, s)
         \/ \E r \in JobRecord : /\ job' = [job EXCEPT ![l] = r] /\ r.want = "addr"
                                 /\ r.stage = "ask" /\ r.form = "single" /\ r.name = AsIs
                                 /\ r.heard = Fresh.heard /\ r.verdict = j.verdict
  PROVE  UNCHANGED Search!vars /\ SearchSound(job'[l])
<1>1. /\ [agenda EXCEPT ![l] = <<>>] = agenda
      /\ [replies EXCEPT ![l] = Search!NoReplies] = replies
      /\ [verdict EXCEPT ![l] = j.verdict] = verdict
  BY DEF agenda, replies, verdict, Searchless
<1>2. j \in JobRecord
  BY DEF Searchless, Running
<1>3. ASSUME agenda' = agenda, replies' = replies, verdict' = verdict
      PROVE  UNCHANGED Search!vars
  BY <1>3 DEF Search!vars, agenda, replies, verdict
<1>4. ASSUME NEW s \in Status, EndHquery(l, j, s)
      PROVE  UNCHANGED Search!vars /\ SearchSound(job'[l])
  BY <1>1, <1>2, <1>3, <1>4, HqueryEnds
<1>5. ASSUME NEW r \in JobRecord, job' = [job EXCEPT ![l] = r], r.want = "addr",
             r.stage = "ask", r.form = "single", r.name = AsIs,
             r.heard = Fresh.heard, r.verdict = j.verdict
      PROVE  UNCHANGED Search!vars /\ SearchSound(job'[l])
  <2>1. Agenda(r) = <<>> /\ SearchSound(r)
    BY <1>5, NoAgenda DEF SearchSound
  <2>2. /\ agenda' = [agenda EXCEPT ![l] = Agenda(r)]
        /\ replies' = [replies EXCEPT ![l] = r.heard]
        /\ verdict' = [verdict EXCEPT ![l] = r.verdict]
        /\ job'[l] = r
    BY <1>5, OneSearchMoves
  <2>3. agenda' = agenda /\ replies' = replies /\ verdict' = verdict
    BY <1>1, <1>5, <2>1, <2>2, FreshIs
  <2>. QED
    BY <1>3, <2>1, <2>2, <2>3
<1>. QED
  BY <1>4, <1>5

LEMMA AddrLookupSearchesNothing ==
  ASSUME job \in [Lookup -> JobRecord], NEW l \in Lookup, NEW j, Searchless(l, j),
         j.want = "addr", j.form = "single", j.name = AsIs, j.heard = Fresh.heard,
         NEW status \in Status, NextLookup(l, j, status)
  PROVE  UNCHANGED Search!vars /\ SearchSound(job'[l])
<1>. DEFINE dns == DnsLeft(j)
            first == IF dns = {} THEN Len(Lookups) + 1 ELSE CHOOSE i \in dns : \A k \in dns : i <= k
            moved == [j EXCEPT !.at = first + 1]
            r == [moved EXCEPT !.stage = "ask", !.sent = "ptr"]
<1>1. "SUCCESS" \in Status /\ Running(j)
  BY DEF Status, Searchless
<1>2. ASSUME dns # {}, job' = [job EXCEPT ![l] = r]
      PROVE  UNCHANGED Search!vars /\ SearchSound(job'[l])
  <2>1. Running(moved)
    BY <1>1, <1>2, MovedOn
  <2>2. /\ moved.want = j.want /\ moved.form = j.form /\ moved.name = j.name
        /\ moved.heard = j.heard /\ moved.verdict = j.verdict
    <3>. HIDE DEF first
    <3>. QED BY <1>1 DEF Running, JobRecord
  <2>. HIDE DEF moved
  <2>3. /\ r \in JobRecord /\ r.want = "addr" /\ r.stage = "ask" /\ r.form = "single"
        /\ r.name = AsIs /\ r.heard = Fresh.heard /\ r.verdict = j.verdict
    BY <2>1, <2>2 DEF Running, JobRecord
  <2>. HIDE DEF r
  <2>. QED
    BY <1>2, <2>3, NotSearching
<1>3. ASSUME EndHquery(l, j, "SUCCESS") \/ EndHquery(l, j, status)
      PROVE  UNCHANGED Search!vars /\ SearchSound(job'[l])
  BY <1>1, <1>3, NotSearching
<1>. QED
  BY <1>2, <1>3 DEF NextLookup

\* The end of a query is a step of NameSearch or none.
LEMMA QueryEndsSearches ==
  ASSUME job \in [Lookup -> JobRecord], NEW l \in Lookup, Sound(job[l]), SearchSound(job[l]),
         job[l].stage \in {"ask", "wait"}, NEW status \in Outcomes, QueryEnds(l, status)
  PROVE  /\ Search!Next \/ UNCHANGED Search!vars
         /\ SearchSound(job'[l]) /\ Falls(l)
<1>1. CASE job[l].want # "addr"
  <2>1. Search!Answered(l) /\ SearchSound(job'[l]) /\ Falls(l)
    BY <1>1, SearchCallbackSearches DEF QueryEnds
  <2>. QED
    BY <2>1 DEF Search!Next
<1>2. CASE job[l].want = "addr"
  <2>. DEFINE j == job[l]
  <2>1. AddrCallback(l, j, status)
    BY <1>2 DEF QueryEnds
  <2>2. /\ Searchless(l, j) /\ j.form = "single" /\ j.name = AsIs /\ j.heard = Fresh.heard
    BY <1>2, NoAgenda, FreshIs DEF Searchless, Sound, SearchSound, Running
  <2>3. Parsed \subseteq Status /\ {"EDESTRUCTION", "ENOTFOUND"} \subseteq Status
    BY DEF Parsed, Status
  <2>. HIDE DEF j
  <2>4. ASSUME NEW s \in Status, EndHquery(l, j, s)
        PROVE  UNCHANGED Search!vars /\ SearchSound(job'[l])
    BY <2>2, <2>4, NotSearching
  <2>5. ASSUME NextLookup(l, j, "ENOTFOUND")
        PROVE  UNCHANGED Search!vars /\ SearchSound(job'[l])
    BY <1>2, <2>2, <2>3, <2>5, AddrLookupSearchesNothing DEF j
  <2>6. UNCHANGED Search!vars /\ SearchSound(job'[l])
    BY <2>1, <2>3, <2>4, <2>5 DEF AddrCallback
  <2>. QED
    BY <1>2, <2>6 DEF Falls
<1>. QED
  BY <1>1, <1>2

LEMMA StartSearches ==
  ASSUME job \in [Lookup -> JobRecord], NEW l \in Lookup, SearchSound(job[l]), Start(l)
  PROVE  /\ Search!Next \/ UNCHANGED Search!vars
         /\ SearchSound(job'[l]) /\ Falls(l)
<1>1. job[l] = Fresh
  BY DEF Start, SearchSound
<1>2. PICK want \in {"inet", "inet6", "unspec", "addr"}, form \in {"single", "dotted", "bare"} :
        LET j == [Fresh EXCEPT !.want = want, !.form = form] IN
        /\ form # "single" => want # "addr" /\ NDomains > 0
        /\ \/ \E status \in {"ENOTIMP", "ENOMEM"} : EndHquery(l, j, status)
           \/ want \in {"inet", "inet6"} /\ EndHquery(l, j, "SUCCESS")
           \/ NextLookup(l, j, IF want = "addr" THEN "ENOTFOUND" ELSE "ECONNREFUSED")
  BY DEF Start
<1>. DEFINE j == [Fresh EXCEPT !.want = want, !.form = form]
<1>3. /\ j \in JobRecord /\ j.calls = 0 /\ j.form = form /\ j.want = want
      /\ j.name = AsIs /\ j.heard = Fresh.heard /\ j.verdict = "NONE"
  BY FreshIs DEF JobRecord
<1>4. {"ENOTIMP", "ENOMEM", "SUCCESS", "ENOTFOUND", "ECONNREFUSED"} \subseteq Status
  BY DEF Status
<1>5. /\ \/ \E status \in Status : EndHquery(l, j, status)
         \/ \E status \in Status : NextLookup(l, j, status)
      /\ form # "single" => want # "addr" /\ NDomains > 0
  BY <1>2, <1>4
<1>. HIDE DEF j
<1>6. Searchless(l, j)
  BY <1>1, <1>3, <1>5, NoAgenda, FreshIs DEF Searchless, Running
<1>7. Falls(l)
  BY <1>1, FreshIs DEF Falls
<1>8. ASSUME NEW status \in Status, EndHquery(l, j, status)
      PROVE  UNCHANGED Search!vars /\ SearchSound(job'[l])
  BY <1>6, <1>8, NotSearching
<1>9. ASSUME NEW status \in Status, NextLookup(l, j, status)
      PROVE  (Search!Next \/ UNCHANGED Search!vars) /\ SearchSound(job'[l])
  <2>1. CASE want = "addr"
    BY <1>3, <1>5, <1>6, <1>9, <2>1, AddrLookupSearchesNothing
  <2>2. CASE want # "addr"
    <3>1. EndHquery(l, j, "SUCCESS") \/ EndHquery(l, j, status) \/ Restarts(l)
      BY <1>3, <1>6, <1>9, <2>2, NextLookupSearches DEF Searchless
    <3>2. CASE Restarts(l)
      <4>1. Search!StartOver(l) /\ SearchSound(job'[l])
        BY <3>2, SearchStartsOver
      <4>2. Search!Begin(l)
        BY <1>6, <4>1 DEF Search!Begin, Searchless
      <4>. QED
        BY <4>1, <4>2 DEF Search!Next
    <3>. QED
      BY <1>4, <1>8, <3>1, <3>2
  <2>. QED
    BY <2>1, <2>2
<1>. QED
  BY <1>5, <1>7, <1>8, <1>9

\* One lookup moves, the others stay as they are.
LEMMA OneLookupSearches ==
  ASSUME LookupsInv, SearchesSound, NEW l \in Lookup, Moves(l),
         Search!Next \/ UNCHANGED Search!vars, SearchSound(job'[l]), Falls(l)
  PROVE  SearchesSound' /\ [Search!Next]_(Search!vars) /\ \A m \in Lookup : Falls(m)
<1>1. \A m \in Lookup : m # l => job'[m] = job[m]
  BY BecomesSound DEF LookupsInv, Moves
<1>2. \A m \in Lookup : SearchSound(job'[m])
  BY <1>1 DEF SearchesSound
<1>3. SearchesSound'
  BY <1>2 DEF SearchesSound, SearchSound, Fresh
<1>4. \A m \in Lookup : m # l => Falls(m)
  BY <1>1 DEF Falls, Ends
<1>. QED
  BY <1>3, <1>4

LEMMA SearchesInit == Init => SearchesSound /\ Search!Init
<1>. SUFFICES ASSUME Init PROVE SearchesSound /\ Search!Init
  OBVIOUS
<1>1. \A l \in Lookup : job[l] = Fresh
  BY DEF Init
<1>2. SearchSound(Fresh) /\ Agenda(Fresh) = <<>>
  BY FreshIs, NoAgenda DEF SearchSound
<1>. QED
  BY <1>1, <1>2, FreshIs DEF SearchesSound, Search!Init

LEMMA SearchesStep ==
  ASSUME OneDns, LookupsInv, SearchesSound, [Next]_vars
  PROVE  SearchesSound' /\ [Search!Next]_(Search!vars) /\ \A l \in Lookup : Falls(l)
<1>1. /\ job \in [Lookup -> JobRecord] /\ \A l \in Lookup : Sound(job[l]) /\ SearchSound(job[l])
  BY DEF LookupsInv, AllSound, SearchesSound
<1>2. ASSUME UNCHANGED job
      PROVE  SearchesSound' /\ [Search!Next]_(Search!vars) /\ \A l \in Lookup : Falls(l)
  <2>1. UNCHANGED Search!vars
    BY <1>2 DEF Search!vars, Agenda
  <2>2. \A l \in Lookup : job'[l] = job[l]
    BY <1>2
  <2>3. \A l \in Lookup : SearchSound(job'[l])
    BY <1>1, <2>2
  <2>4. SearchesSound'
    BY <2>3 DEF SearchesSound, SearchSound, Fresh
  <2>. QED
    BY <2>1, <2>2, <2>4 DEF Falls, Ends
<1>3. ASSUME NEW l \in Lookup, job[l].stage \in {"ask", "wait"}, NEW status \in Outcomes,
             QueryEnds(l, status)
      PROVE  SearchesSound' /\ [Search!Next]_(Search!vars) /\ \A m \in Lookup : Falls(m)
  <2>1. status \in Endings
    BY OutcomesAre, SoftIsStatus DEF Outcomes
  <2>2. Moves(l)
    BY <1>1, <1>3, <2>1, QueryEndsMoves
  <2>. QED
    BY <1>1, <1>3, <2>2, QueryEndsSearches, OneLookupSearches
<1>4. ASSUME NEW l \in Lookup, Start(l)
      PROVE  SearchesSound' /\ [Search!Next]_(Search!vars) /\ \A m \in Lookup : Falls(m)
  BY <1>1, <1>4, StartMoves, StartSearches, OneLookupSearches DEF LookupsInv
<1>5. ASSUME NEW l \in Lookup, AskSent(l)
      PROVE  SearchesSound' /\ [Search!Next]_(Search!vars) /\ \A m \in Lookup : Falls(m)
  <2>. DEFINE r == [job[l] EXCEPT !.stage = "wait"]
  <2>1. job[l].stage = "ask" /\ job' = [job EXCEPT ![l] = r]
    BY <1>5 DEF AskSent, LookupsInv, Carried
  <2>2. /\ r \in JobRecord /\ r.stage = "wait" /\ r.want = job[l].want /\ r.form = job[l].form
        /\ r.name = job[l].name /\ r.nextDomain = job[l].nextDomain /\ r.asIs = job[l].asIs
        /\ r.nodata = job[l].nodata /\ r.heard = job[l].heard /\ r.verdict = job[l].verdict
    BY <1>1 DEF JobRecord
  <2>. HIDE DEF r
  <2>3. Agenda(r) = Agenda(job[l]) /\ SearchSound(r)
    BY <1>1, <2>1, <2>2 DEF Agenda, SearchSound
  <2>4. \A m \in Lookup : job'[m] = IF m = l THEN r ELSE job[m]
    BY <1>1, <2>1
  <2>5. UNCHANGED Search!vars
    <3>1. \A m \in Lookup : /\ Agenda(job'[m]) = Agenda(job[m])
                            /\ job'[m].heard = job[m].heard /\ job'[m].verdict = job[m].verdict
      BY <2>2, <2>3, <2>4
    <3>2. agenda' = [m \in Lookup |-> Agenda(job'[m])]
      BY DEF agenda, Agenda
    <3>. QED
      BY <3>1, <3>2 DEF Search!vars, agenda
  <2>6. \A m \in Lookup : SearchSound(job'[m])
    BY <1>1, <2>3, <2>4
  <2>7. SearchesSound'
    BY <2>6 DEF SearchesSound, SearchSound, Fresh
  <2>8. \A m \in Lookup : Falls(m)
    BY <2>2, <2>4 DEF Falls, Ends
  <2>. QED
    BY <2>5, <2>7, <2>8
<1>6. ASSUME NEW l \in Lookup, AskFails(l)
      PROVE  SearchesSound' /\ [Search!Next]_(Search!vars) /\ \A m \in Lookup : Falls(m)
  <2>1. PICK status \in {"EBADNAME", "ENOMEM", "ECONNREFUSED"} : QueryEnds(l, status)
    BY <1>6 DEF AskFails
  <2>2. job[l].stage = "ask" /\ status \in Outcomes
    BY <1>6 DEF AskFails, LookupsInv, Carried, Outcomes, Search!Hard
  <2>. QED
    BY <1>3, <2>1, <2>2
<1>7. ASSUME NEW l \in Lookup, Answer(l)
      PROVE  SearchesSound' /\ [Search!Next]_(Search!vars) /\ \A m \in Lookup : Falls(m)
  <2>1. PICK status \in {StatusOf(rcode, answers) : rcode \in Rcodes, answers \in BOOLEAN}
                        \cup {"ETIMEOUT", "ECONNREFUSED", "ENOMEM"} : QueryEnds(l, status)
    BY <1>7 DEF Answer
  <2>2. status \in Outcomes
    BY DEF StatusOf, Outcomes, Search!Hard, Soft
  <2>3. job[l].stage = "wait"
    BY <1>7 DEF Answer
  <2>. QED
    BY <1>3, <2>1, <2>2, <2>3
<1>8. ASSUME SweepQuery
      PROVE  SearchesSound' /\ [Search!Next]_(Search!vars) /\ \A m \in Lookup : Falls(m)
  <2>1. PICK status \in {"ECANCELLED", "EDESTRUCTION"} : QueryEnds(node, status)
    BY <1>8 DEF SweepQuery
  <2>2. waiting # <<>> /\ node = waiting[1] /\ node \in Lookup
    BY <1>8 DEF LookupsInv, SweepQuery, Walking, First
  <2>3. 1 \in DOMAIN waiting
    BY <2>2, EmptySeq DEF LookupsInv, Queue
  <2>4. job[node].stage = "wait" /\ status \in Outcomes
    BY <2>2, <2>3 DEF LookupsInv, Listed, Carried, Outcomes, Search!Hard
  <2>. QED
    BY <1>3, <2>1, <2>2, <2>4
<1>9. ASSUME NEW kind \in {"cancel", "destroy"}, BeginSweep(kind)
      PROVE  UNCHANGED job
  BY <1>9 DEF BeginSweep
<1>10. EndSweep => UNCHANGED job
  BY DEF EndSweep
<1>. QED
  BY <1>2, <1>4, <1>5, <1>6, <1>7, <1>8, <1>9, <1>10 DEF Next, vars

-----------------------------------------------------------------------------
(* The theorems *)

\* With one place for the name servers in channel->lookups, every variable of
\* the lookups has its type (ares_gethostbyname.c, ares_gethostbyaddr.c,
\* ares_search.c).
THEOREM LookupsTyped == ASSUME OneDns PROVE Spec => []TypeOK
<1>1. Spec => []LookupsInv
  BY LookupsInvInit, LookupsInvStep, PTL DEF Spec
<1>. QED
  BY <1>1, LookupsInvImplies, PTL

\* With one place for the name servers in channel->lookups, a lookup is
\* answered once, by its only query or without one, and the assertions after
\* the walks of ares_cancel and ares_destroy hold (ares_cancel.c:52,
\* ares_destroy.c:75).
THEOREM LookupsAnsweredOnce == ASSUME OneDns PROVE Spec => []AnsweredOnce
<1>1. Spec => []LookupsInv
  BY LookupsInvInit, LookupsInvStep, PTL DEF Spec
<1>. QED
  BY <1>1, LookupsInvImplies, PTL

LEMMA SearchesAlways ==
  ASSUME OneDns
  PROVE  Spec => [](LookupsInv /\ SearchesSound)
<1>1. Init => LookupsInv /\ SearchesSound
  BY LookupsInvInit, SearchesInit
<1>2. LookupsInv /\ SearchesSound /\ [Next]_vars => (LookupsInv /\ SearchesSound)'
  BY LookupsInvStep, SearchesStep
<1>. QED
  BY <1>1, <1>2, PTL DEF Spec

\* The safety part of ImplementsSearch: for any number of search domains,
\* search_callback asks the candidates of a name each once, in the order
\* ares_search promises, until one answer settles the search, and ends it with
\* the verdict the documentation asks for (ares_search.c:153-221).
THEOREM SearchSafety ==
  ASSUME OneDns
  PROVE  Spec => Search!Init /\ [][Search!Next]_(Search!vars)
<1>1. Init => Search!Init
  BY SearchesInit
<1>2. LookupsInv /\ SearchesSound /\ [Next]_vars => [Search!Next]_(Search!vars)
  BY SearchesStep
<1>. QED
  BY <1>1, <1>2, SearchesAlways, PTL DEF Spec

\* For any number of search domains, a caller that takes either family is not
\* told of a missing or useless IPv6 answer before IPv4 was tried
\* (ares_gethostbyname.c:195-242, ares_search.c:206).
THEOREM IPv4IsTried ==
  ASSUME OneDns
  PROVE  Spec => FallsBackToA
<1>. DEFINE Step == \A l \in Lookup : Ends(l) /\ job[l].want = "unspec" /\ job[l].sent = "inet6" =>
       /\ job'[l].result \notin {"ENODATA", "EBADRESP", "ETIMEOUT"}
       /\ job'[l].result = "ENOTFOUND" => \A c \in Candidate : job[l].heard[c] # "ENODATA"
<1>1. LookupsInv /\ SearchesSound /\ [Next]_vars => [Step]_vars
  BY SearchesStep DEF Falls, Untold
<1>2. Spec => [][Step]_vars
  BY <1>1, SearchesAlways, PTL DEF Spec
<1>. QED
  BY <1>2 DEF FallsBackToA
=============================================================================
