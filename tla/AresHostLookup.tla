--------------------------- MODULE AresHostLookup ---------------------------
(***************************************************************************)
(* Host lookups: ares_gethostbyname and ares_gethostbyaddr with the search *)
(* of domains (ares_search) and the queries (ares_query) under them.  The  *)
(* query engine below is its promise, ResolverService: a query that was    *)
(* accepted ends once, with a reply or a failure.                          *)
(*                                                                         *)
(* A lookup has at most one query, so channel->all_queries is a sequence   *)
(* of lookups.  ares_query may call its callback before it returns; the    *)
(* lookup whose query is being handed over is cur.                         *)
(***************************************************************************)
EXTENDS Integers, Sequences

CONSTANTS
  Lookup,       \* the calls of ares_gethostbyname and ares_gethostbyaddr
  NoLookup,     \* none of them
  Lookups,      \* channel->lookups: "b" the name servers, "f" the hosts file
  NDomains,     \* channel->ndomains
  NoCheckResp   \* ARES_FLAG_NOCHECKRESP

ASSUME NoLookupAssumption == NoLookup \notin Lookup
ASSUME ChannelAssumption == Lookups \in Seq({"b", "f"}) /\ NDomains \in Nat
ASSUME FlagAssumption == NoCheckResp \in BOOLEAN

AsIs == 0                     \* the name as it is; n stands for search domain n - 1
Candidate == 0 .. NDomains

VARIABLES
  job,      \* struct host_query or addr_query with its search_query
  waiting,  \* channel->all_queries: the lookups whose query is in flight
  phase,    \* "app", "cancel", "destroy", "destroyed", "aborted"
  node,     \* the list node ares_cancel or ares_destroy has saved
  cur       \* the lookup that is inside ares_query

vars == <<job, waiting, phase, node, cur>>
sweepVars == <<phase, node>>

\* heard, verdict and calls are history: the refusals of the running search,
\* how the last search ended, and how often the callback was invoked.
Fresh ==
  [stage |-> "new", want |-> "none", form |-> "single", at |-> 1, sent |-> "none",
   name |-> AsIs, nextDomain |-> 0, asIs |-> "NONE", nodata |-> FALSE, result |-> "NONE",
   heard |-> [c \in Candidate |-> "NONE"], verdict |-> "NONE", calls |-> 0]

Init ==
  /\ job = [l \in Lookup |-> Fresh]
  /\ waiting = <<>>
  /\ phase = "app"
  /\ node = NoLookup
  /\ cur = NoLookup

-----------------------------------------------------------------------------
(* The host query *)

\* The callback of the caller runs and the host query is freed.
EndHquery(l, j, status) ==
  job' = [job EXCEPT ![l] =
    [Fresh EXCEPT !.stage = "done", !.result = status,
                  !.verdict = j.verdict, !.calls = j.calls + 1]]

\* Mutant: the search that starts with a domain tries that domain twice.
DomainTwice(form) == 0

\* ares_search: where the walk over the domains goes on after the first query.
FirstDomain(form) == IF form = "bare" THEN 1 ELSE 0

\* A name with enough dots is tried as it is before the search domains, any
\* other after them, and some names (form "single") are not searched for.
AresSearch(l, j, family) ==
  job' = [job EXCEPT ![l] =
    [j EXCEPT !.stage = "ask", !.sent = family,
              !.name = IF j.form = "bare" THEN 1 ELSE AsIs,
              !.nextDomain = FirstDomain(j.form), !.asIs = "NONE", !.nodata = FALSE,
              !.heard = Fresh.heard, !.verdict = "NONE"]]

\* Mutant: the place in channel->lookups is not moved on.
DnsAgain(j) == {i \in 1 .. Len(Lookups) : Lookups[i] = "b"}

\* The DNS lookups that are left in channel->lookups.
DnsLeft(j) == {i \in j.at .. Len(Lookups) : Lookups[i] = "b"}

\* next_lookup: the hosts file as long as it comes next, then the name servers.
NextLookup(l, j, status) ==
  LET dns == DnsLeft(j)
      first == IF dns = {} THEN Len(Lookups) + 1 ELSE CHOOSE i \in dns : \A k \in dns : i <= k
      moved == [j EXCEPT !.at = first + 1]
  IN
  \/ \* file_lookup finds the host
     /\ \E i \in j.at .. first - 1 : Lookups[i] = "f"
     /\ EndHquery(l, j, "SUCCESS")
  \/ dns = {} /\ EndHquery(l, j, status)
  \/ /\ dns # {} /\ j.want = "addr"
     /\ job' = [job EXCEPT ![l] = [moved EXCEPT !.stage = "ask", !.sent = "ptr"]]
  \/ /\ dns # {} /\ j.want # "addr"
     /\ AresSearch(l, moved, IF j.want = "inet" THEN "inet" ELSE "inet6")

\* What ares_parse_a_reply, ares_parse_aaaa_reply and ares_parse_ptr_reply say.
Parsed == {"SUCCESS", "ENODATA", "EBADRESP", "ENOMEM"}

\* The statuses after which an AAAA query is followed by one for A.
Useless == {"ENODATA", "EBADRESP"}

HostCallback(l, j, status) ==
  LET second == j.sent = "inet6" /\ j.want = "unspec" IN
  \/ /\ status = "SUCCESS"
     /\ \E parsed \in Parsed :
          IF second /\ parsed \in Useless THEN AresSearch(l, j, "inet")
                                          ELSE EndHquery(l, j, parsed)
  \/ status \in Useless \cup {"ETIMEOUT"} /\ second /\ AresSearch(l, j, "inet")
  \/ status = "EDESTRUCTION" /\ EndHquery(l, j, status)
  \/ /\ status \notin {"SUCCESS", "EDESTRUCTION"}
     /\ ~(second /\ status \in Useless \cup {"ETIMEOUT"})
     /\ NextLookup(l, j, status)

AddrCallback(l, j, status) ==
  \/ status = "SUCCESS" /\ \E parsed \in Parsed : EndHquery(l, j, parsed)
  \/ status = "EDESTRUCTION" /\ EndHquery(l, j, status)
  \/ status \notin {"SUCCESS", "EDESTRUCTION"} /\ NextLookup(l, j, "ENOTFOUND")

-----------------------------------------------------------------------------
(* The search *)

\* Mutant: a cancelled query counts as one that found nothing.
SoftOrCancelled == {"ENODATA", "ESERVFAIL", "ENOTFOUND", "ECANCELLED"}

\* The statuses that let the search go on.
Soft == {"ENODATA", "ESERVFAIL", "ENOTFOUND"}

Heard(j, status) ==
  IF status \notin Soft THEN j
  ELSE [j EXCEPT !.heard[j.name] = status,
                 !.asIs = IF j.name = AsIs THEN status ELSE @,
                 !.nodata = @ \/ status = "ENODATA"]

\* Mutant: the name as it is decides alone.
AsIsStatus(j) == j.asIs

FinalStatus(j) == IF j.asIs = "ENOTFOUND" /\ j.nodata THEN "ENODATA" ELSE j.asIs

DomainLeft(j) == j.nextDomain < NDomains

\* search_callback, or the callback itself for a name that is not searched for.
SearchCallback(l, status) ==
  LET j == Heard(job[l], status)
      goesOn == j.form # "single" /\ status \in Soft
      ends(final) == HostCallback(l, [j EXCEPT !.verdict = final], final)
  IN
  \/ /\ goesOn /\ DomainLeft(j)
     /\ job' = [job EXCEPT ![l] = [j EXCEPT !.stage = "ask", !.name = j.nextDomain + 1,
                                            !.nextDomain = @ + 1]]
  \/ /\ goesOn /\ ~DomainLeft(j) /\ j.asIs = "NONE"
     /\ job' = [job EXCEPT ![l] = [j EXCEPT !.stage = "ask", !.name = AsIs]]
  \/ goesOn /\ ~DomainLeft(j) /\ j.asIs # "NONE" /\ ends(FinalStatus(j))
  \/ ~goesOn /\ ends(status)

\* The query of lookup l ends; its callback may ask the next one.
QueryEnds(l, status) ==
  /\ IF job[l].want = "addr" THEN AddrCallback(l, job[l], status) ELSE SearchCallback(l, status)
  /\ cur' = IF job'[l].stage = "ask" THEN l ELSE NoLookup

-----------------------------------------------------------------------------
(* ares_query *)

\* qcallback: what a reply with this response code means.
StatusOf(rcode, answers) ==
  CASE rcode = "NOERROR" -> IF answers THEN "SUCCESS" ELSE "ENODATA"
    [] rcode = "FORMERR" -> "EFORMERR"
    [] rcode = "SERVFAIL" -> "ESERVFAIL"
    [] rcode = "NXDOMAIN" -> "ENOTFOUND"
    [] rcode = "NOTIMP" -> "ENOTIMP"
    [] rcode = "REFUSED" -> "EREFUSED"
    [] OTHER -> "SUCCESS"

\* The response codes process_answer passes on.
Rcodes == {"NOERROR", "FORMERR", "NXDOMAIN", "other"}
          \cup IF NoCheckResp THEN {"SERVFAIL", "NOTIMP", "REFUSED"} ELSE {}

\* The query is in flight.
AskSent(l) ==
  /\ cur = l
  /\ job' = [job EXCEPT ![l].stage = "wait"]
  /\ waiting' = Append(waiting, l)
  /\ cur' = NoLookup
  /\ UNCHANGED sweepVars

\* The query fails before ares_query returns: the name cannot be encoded,
\* memory is short, or no server can be reached.
AskFails(l) ==
  /\ cur = l
  /\ \E status \in {"EBADNAME", "ENOMEM", "ECONNREFUSED"} : QueryEnds(l, status)
  /\ UNCHANGED <<waiting, sweepVars>>

\* Where the query of l stands in the list.
Position(l) == CHOOSE i \in DOMAIN waiting : waiting[i] = l

Unlisted(l) ==
  [i \in 1 .. Len(waiting) - 1 |-> waiting[IF i < Position(l) THEN i ELSE i + 1]]

\* ares_process ends the query with a reply or gives it up.
Answer(l) ==
  /\ phase = "app" /\ cur = NoLookup
  /\ job[l].stage = "wait"
  /\ \E status \in {StatusOf(rcode, answers) : rcode \in Rcodes, answers \in BOOLEAN}
                   \cup {"ETIMEOUT", "ECONNREFUSED", "ENOMEM"} : QueryEnds(l, status)
  /\ waiting' = Unlisted(l)
  /\ UNCHANGED sweepVars

-----------------------------------------------------------------------------
(* The application *)

\* ares_gethostbyname and ares_gethostbyaddr.  fake_hostent answers for a name
\* that is an address, but not if the family is AF_UNSPEC.
Start(l) ==
  /\ phase = "app" /\ cur = NoLookup
  /\ job[l].stage = "new"
  /\ \E want \in {"inet", "inet6", "unspec", "addr"}, form \in {"single", "dotted", "bare"} :
       LET j == [Fresh EXCEPT !.want = want, !.form = form] IN
       /\ form # "single" => want # "addr" /\ NDomains > 0
       /\ \/ \E status \in {"ENOTIMP", "ENOMEM"} : EndHquery(l, j, status)
          \/ want \in {"inet", "inet6"} /\ EndHquery(l, j, "SUCCESS")
          \/ NextLookup(l, j, IF want = "addr" THEN "ENOTFOUND" ELSE "ECONNREFUSED")
  /\ cur' = IF job'[l].stage = "ask" THEN l ELSE NoLookup
  /\ UNCHANGED <<waiting, sweepVars>>

\* list_node->next
After(l) ==
  IF Position(l) < Len(waiting) THEN waiting[Position(l) + 1] ELSE NoLookup

\* ares_cancel and ares_destroy begin their walk over all_queries.
BeginSweep(kind) ==
  /\ phase = "app" /\ cur = NoLookup
  /\ phase' = kind
  /\ node' = IF waiting = <<>> THEN NoLookup ELSE Head(waiting)
  /\ UNCHANGED <<job, waiting, cur>>

SweepQuery ==
  /\ phase \in {"cancel", "destroy"} /\ cur = NoLookup
  /\ node # NoLookup
  /\ QueryEnds(node, IF phase = "cancel" THEN "ECANCELLED" ELSE "EDESTRUCTION")
  /\ node' = After(node)
  /\ waiting' = Unlisted(node)
  /\ UNCHANGED phase

\* After the walk the lists must be empty, or an assertion stops the program.
EndSweep ==
  /\ phase \in {"cancel", "destroy"} /\ cur = NoLookup
  /\ node = NoLookup
  /\ phase' = IF waiting # <<>> THEN "aborted"
              ELSE IF phase = "cancel" THEN "app" ELSE "destroyed"
  /\ UNCHANGED <<job, waiting, node, cur>>

Next ==
  \/ \E l \in Lookup : Start(l) \/ AskSent(l) \/ AskFails(l) \/ Answer(l)
  \/ \E kind \in {"cancel", "destroy"} : BeginSweep(kind)
  \/ SweepQuery \/ EndSweep

\* The library runs on by itself, and the query engine ends every query
\* (EveryQueryEnds of AresChannelLive).
Fairness ==
  /\ WF_vars(\E l \in Lookup : AskSent(l) \/ AskFails(l))
  /\ WF_vars(SweepQuery \/ EndSweep)
  /\ \A l \in Lookup : WF_vars(Answer(l))

Spec == Init /\ [][Next]_vars /\ Fairness

-----------------------------------------------------------------------------
(* Properties *)

Status == {"NONE", "SUCCESS", "ENODATA", "EFORMERR", "ESERVFAIL", "ENOTFOUND", "ENOTIMP",
           "EREFUSED", "EBADNAME", "EBADRESP", "ETIMEOUT", "ECONNREFUSED", "ENOMEM",
           "ECANCELLED", "EDESTRUCTION"}

\* Every variable of the lookups has its type.
TypeOK ==
  /\ job \in [Lookup ->
       [stage : {"new", "ask", "wait", "done"}, want : {"none", "inet", "inet6", "unspec", "addr"},
        form : {"single", "dotted", "bare"}, at : 1 .. Len(Lookups) + 1,
        sent : {"none", "inet", "inet6", "ptr"}, name : Candidate, nextDomain : Candidate,
        asIs : {"NONE"} \cup Soft, nodata : BOOLEAN, result : Status,
        heard : [Candidate -> {"NONE"} \cup Soft], verdict : Status, calls : Nat]]
  /\ waiting \in Seq(Lookup)
  /\ phase \in {"app", "cancel", "destroy", "destroyed", "aborted"}
  /\ {node, cur} \subseteq Lookup \cup {NoLookup}

\* A lookup is answered once, by its only query or without one: while it runs
\* exactly one query carries it, nothing carries it when its memory has been
\* freed, and none is asked while its channel is cancelled or destroyed (the
\* assertions after the walks of ares_cancel and ares_destroy).
AnsweredOnce ==
  /\ phase # "aborted"
  /\ \A l \in Lookup :
       LET queries == {i \in DOMAIN waiting : waiting[i] = l} IN
       /\ job[l].calls = IF job[l].stage = "done" THEN 1 ELSE 0
       /\ job[l].stage = "wait" <=> \E i \in DOMAIN waiting : queries = {i}
       /\ job[l].stage # "wait" => queries = {}
       /\ job[l].stage = "ask" <=> cur = l

Ends(l) == job[l].stage # "done" /\ job'[l].stage = "done"

\* A caller that takes either family is not told of a missing or useless IPv6
\* answer before IPv4 was tried: not when some candidate of the AAAA search
\* exists, even if the last one asked does not (the comment on ever_got_nodata
\* in search_callback).
FallsBackToA ==
  [][\A l \in Lookup : Ends(l) /\ job[l].want = "unspec" /\ job[l].sent = "inet6" =>
       /\ job'[l].result \notin {"ENODATA", "EBADRESP", "ETIMEOUT"}
       /\ job'[l].result = "ENOTFOUND" => \A c \in Candidate : job[l].heard[c] # "ENODATA"]_vars

\* Every lookup that was started is answered.
EveryLookupEnds == \A l \in Lookup : job[l].stage \in {"ask", "wait"} ~> job[l].stage = "done"

\* The candidates the running search has still to settle, the one being asked
\* first.
Agenda(j) ==
  IF j.stage \notin {"ask", "wait"} \/ j.want = "addr" THEN <<>>
  ELSE <<j.name>> \o (IF j.form = "single" THEN <<>>
                      ELSE [i \in 1 .. NDomains - j.nextDomain |-> j.nextDomain + i]
                           \o (IF j.asIs = "NONE" /\ j.name # AsIs THEN <<AsIs>> ELSE <<>>))

Search == INSTANCE NameSearch WITH
  agenda <- [l \in Lookup |-> Agenda(job[l])],
  replies <- [l \in Lookup |-> job[l].heard],
  verdict <- [l \in Lookup |-> job[l].verdict]

\* search_callback walks through the candidates as ares_search promises: each
\* once, in order, to the end unless an answer settles it.  The verdict of a
\* search in vain is that on the name as it is or, for a missing name, that a
\* candidate has no data.
ImplementsSearch == Search!Spec

\* "No query completed successfully; when the query was tried without a search
\* domain appended" gives ENODATA and ENOTFOUND (ares_search.3:72-93): a name
\* that was asked as it is before the domains has that answer as its verdict.
VerdictOfName ==
  [][\A l \in Lookup :
       LET first == job[l].heard[AsIs] IN
       Ends(l) /\ first # "NONE" /\ job'[l].verdict \in Soft => job'[l].verdict = first]_vars
=============================================================================
