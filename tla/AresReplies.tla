----------------------------- MODULE AresReplies -----------------------------
(***************************************************************************)
(* From answers to results: ares_parse_{a,aaaa,ptr,ns,srv,mx,txt}_reply,   *)
(* ares_malloc_data and ares_free_data, ares__get_hostent and file_lookup, *)
(* ares_free_hostent.                                                      *)
(*                                                                         *)
(* A message is what its header and question say and a sequence of         *)
(* resource records: owner and data are names (a spelling: two names are   *)
(* the same up to case), cut says what the message is too short for.  A    *)
(* parser is a step for each record; its state is a record r that counts   *)
(* allocations, the one numbered failAt fails, and keeps the live blocks.  *)
(***************************************************************************)
EXTENDS Integers, Sequences, SequencesExt, FiniteSetsExt, TLC

CONSTANT AliasAlloc     \* room for aliases that ares_parse_ptr_reply starts with

\* A name is an identity and a case; what cannot be decoded is Garbled.
Garbled == [id |-> "none", case |-> "none"]
Same(a, b) == a.id = b.id

-----------------------------------------------------------------------------
(* Memory *)

\* The state every parser starts from.
Fresh(failAt) == [status |-> "SUCCESS", n |-> 0, failAt |-> failAt, live |-> {}, twice |-> FALSE]

\* malloc: the new block is r.n, or 0 stands for NULL.
Get(r) ==
  IF r.n + 1 = r.failAt THEN [r EXCEPT !.n = @ + 1, !.status = "ENOMEM"]
  ELSE [r EXCEPT !.n = @ + 1, !.live = @ \cup {r.n + 1}]

\* free; NULL is left alone.
Put(r, blocks) ==
  LET b == blocks \ {0}
  IN  [r EXCEPT !.live = @ \ b, !.twice = @ \/ ~ (b \subseteq r.live)]

Fail(r, status) == [r EXCEPT !.status = status]

\* Allocations in a row, until one fails.
RECURSIVE GetMany(_, _)
GetMany(r, count) == IF count = 0 \/ r.status # "SUCCESS" THEN r ELSE GetMany(Get(r), count - 1)

\* ares_expand_name or ares__expand_name_for_response: the name is block r.n.
Expand(r, name, bad) == IF name = Garbled THEN Fail(r, bad) ELSE Get(r)

\* The result is released: ares_free_hostent or ares_free_data.
Released(r) == Put(r, r.result)

-----------------------------------------------------------------------------
(* Header and question *)

\* Up to the first record.  The parsers of lists want an answer, and pass on
\* the status of ares_expand_name as it is.
Question(m, failAt, lists) ==
  LET r == Fresh(failAt)
      e == Expand(r, m.question, IF lists THEN "EBADNAME" ELSE "EBADRESP")
  IN  IF m.header = "short" \/ m.qdcount # 1 THEN Fail(r, "EBADRESP")
      ELSE IF lists /\ m.answers = <<>> THEN Fail(r, "ENODATA")
      ELSE IF e.status # "SUCCESS" THEN e
      ELSE IF m.header = "no question" THEN Fail(Put(e, {e.n}), "EBADRESP")
      ELSE e

\* The owner and the fixed part of a record; the owner is block e.n.  The
\* parsers of lists free it at their end.
Owner(r, rr, bad) ==
  LET e == Expand(r, rr.owner, bad)
  IN  IF e.status = "SUCCESS" /\ rr.cut = "fixed" THEN Fail(Put(e, {e.n}), "EBADRESP") ELSE e

\* The step to the next record.
Beyond(r, rr) == IF r.status = "SUCCESS" /\ rr.cut = "data" THEN Fail(r, "EBADRESP") ELSE r

-----------------------------------------------------------------------------
(* ares_parse_a_reply, ares_parse_aaaa_reply *)

\* ask: the type, whether a host is wanted, and room for how many TTLs.
AddressMatches(r, rr, ask) == rr.type = ask.type /\ rr.size = "right" /\ Same(rr.owner, r.current)

Address(r, rr, ask) ==
  IF ~ AddressMatches(r, rr, ask) THEN r
  ELSE [r EXCEPT !.data = IF ask.host THEN Append(@, rr.data) ELSE @,
                 !.ttls = IF r.count < ask.max THEN Append(@, [data |-> rr.data, ttl |-> rr.ttl])
                          ELSE @,
                 !.count = @ + 1]

\* Mutant: the name an alias stands for is not replaced.
KeepName(r, rr, ask, name) ==
  LET kept == IF ask.host THEN [r EXCEPT !.aliases = Append(@, name), !.labels = Append(@, rr.owner)]
              ELSE Put(r, {name})
      e == Expand([kept EXCEPT !.naliases = @ + 1], rr.data, "EBADRESP")
  IN  IF e.status # "SUCCESS" THEN e
      ELSE [Put(e, {e.n}) EXCEPT !.cnameTtl = IF rr.ttl < @ THEN rr.ttl ELSE @]

\* A CNAME makes its owner an alias and its data the name looked for.
Alias(r, rr, ask, name) ==
  LET kept == IF ask.host THEN [r EXCEPT !.aliases = Append(@, name), !.labels = Append(@, rr.owner)]
              ELSE Put(r, {name})
      e == Expand([kept EXCEPT !.naliases = @ + 1], rr.data, "EBADRESP")
  IN  IF e.status # "SUCCESS" THEN e
      ELSE [Put(e, {e.hostname}) EXCEPT !.hostname = e.n, !.current = rr.data,
                                        !.cnameTtl = IF rr.ttl < @ THEN rr.ttl ELSE @]

AddressRecord(r, rr, ask) ==
  LET e == Owner(r, rr, "EBADRESP")
  IN  IF r.status # "SUCCESS" THEN r
      ELSE IF e.status # "SUCCESS" THEN e
      ELSE IF /\ AddressMatches(e, rr, ask) /\ rr.cut = "data"
              /\ ask.host \/ e.count < ask.max
      THEN Fail(Put(e, {e.n}), "EBADRESP")
      ELSE IF rr.type = "CNAME" THEN Beyond(Alias(e, rr, ask, e.n), rr)
      ELSE Beyond(Put(Address(e, rr, ask), {e.n}), rr)

\* INT_MAX
NoTtl == 2147483647

AddressStart(r, m, ask) ==
  LET s == [status |-> r.status, n |-> r.n, failAt |-> r.failAt, live |-> r.live, twice |-> r.twice,
            hostname |-> r.n, current |-> m.question, cnameTtl |-> NoTtl, count |-> 0,
            naliases |-> 0, data |-> <<>>, ttls |-> <<>>, aliases |-> <<>>, labels |-> <<>>,
            addrs |-> 0, array |-> 0, result |-> {}]
      a == Get(s)
      b == Get(a)
  IN  IF r.status # "SUCCESS" \/ ~ ask.host THEN s
      ELSE IF a.status # "SUCCESS" THEN Put(a, {s.hostname})
      ELSE IF b.status # "SUCCESS" THEN Put(b, {s.hostname, a.n})
      ELSE [b EXCEPT !.addrs = a.n, !.array = b.n]

\* The end of every path that returns no host.
AddressCleanUp(r) == Put(r, {r.hostname, r.addrs, r.array} \cup ToSet(r.aliases))

AddressEnd(r, ask) ==
  LET ended == IF r.status = "SUCCESS" /\ r.count = 0 /\ (r.naliases = 0 \/ ask.type = "AAAA")
               THEN Fail(r, "ENODATA") ELSE r
      limited == [ended EXCEPT !.ttls = [i \in DOMAIN @ |->
                    [@[i] EXCEPT !.ttl = IF @ > r.cnameTtl THEN r.cnameTtl ELSE @]]]
      h == GetMany(limited, 2)
      made == h.n - limited.n
      emptied == IF r.count = 0 THEN Put(h, {h.addrs}) ELSE h
  IN  IF ended.status # "SUCCESS" THEN [AddressCleanUp(ended) EXCEPT !.ttls = <<>>]
      ELSE IF ~ ask.host THEN AddressCleanUp(limited)
      ELSE IF h.status # "SUCCESS"
      THEN AddressCleanUp(Put(h, IF made = 2 THEN {limited.n + 1} ELSE {}))
      ELSE [emptied EXCEPT !.result = {h.n - 1, h.n, h.hostname, h.array} \cup ToSet(h.aliases)
                                      \cup (IF r.count = 0 THEN {} ELSE {h.addrs})]

ParseAddresses(m, ask, failAt) ==
  LET q == Question(m, failAt, FALSE)
      s == AddressStart(q, m, ask)
  IN  IF s.status # "SUCCESS" THEN s
      ELSE AddressEnd(FoldLeft(LAMBDA r, rr : AddressRecord(r, rr, ask), s, m.answers), ask)

ParseA(m, host, max, failAt) == ParseAddresses(m, [type |-> "A", host |-> host, max |-> max], failAt)
ParseAaaa(m, host, max, failAt) == ParseAddresses(m, [type |-> "AAAA", host |-> host, max |-> max], failAt)

-----------------------------------------------------------------------------
(* ares_parse_ptr_reply *)

\* The owner is freed with e.n on every path.
PtrAnswer(r, rr) ==
  LET e == Expand(r, rr.data, "EBADRESP")
      named == [Put(e, {e.hostname}) EXCEPT !.hostname = e.n, !.name = rr.data]
      a == Get(named)
      added == [a EXCEPT !.aliases = Append(@, a.n), !.labels = Append(@, rr.data)]
      more == Get(added)
  IN  IF ~ (rr.type = "PTR" /\ Same(rr.owner, r.current)) THEN r
      ELSE IF e.status # "SUCCESS" THEN e
      ELSE IF a.status # "SUCCESS" THEN a
      ELSE IF Len(added.aliases) < r.room THEN added
      ELSE IF more.status # "SUCCESS" THEN more
      ELSE [Put(more, {more.array}) EXCEPT !.array = more.n, !.room = 2 * @]

PtrAlias(r, rr) ==
  LET e == Expand(r, rr.data, "EBADRESP")
  IN  IF r.status # "SUCCESS" \/ rr.type # "CNAME" \/ e.status # "SUCCESS"
      THEN IF r.status = "SUCCESS" /\ rr.type = "CNAME" THEN e ELSE r
      ELSE [Put(e, {e.ptrname}) EXCEPT !.ptrname = e.n, !.current = rr.data]

PtrRecord(r, rr) ==
  LET e == Owner(r, rr, "EBADRESP")
  IN  IF r.status # "SUCCESS" THEN r
      ELSE IF e.status # "SUCCESS" THEN e
      ELSE Beyond(Put(PtrAlias(PtrAnswer(e, rr), rr), {e.n}), rr)

\* hostent, its list, the address and the array of aliases.
PtrEnd(r) ==
  LET ended == IF r.status = "SUCCESS" /\ r.hostname = 0 THEN Fail(r, "ENODATA") ELSE r
      h == GetMany(ended, 4)
      clean == Put(Put(h, (ended.n + 1) .. (h.n - 1)), {h.hostname, h.ptrname, h.array} \cup ToSet(h.aliases))
  IN  IF ended.status # "SUCCESS"
      THEN Put(ended, {r.hostname, r.ptrname, r.array} \cup ToSet(r.aliases))
      ELSE IF h.status # "SUCCESS" THEN clean
      ELSE [Put(h, {h.array, h.ptrname}) EXCEPT
              !.result = ((ended.n + 1) .. h.n) \cup {h.hostname} \cup ToSet(h.aliases)]

ParsePtr(m, failAt) ==
  LET q == Question(m, failAt, FALSE)
      s == [status |-> q.status, n |-> q.n, failAt |-> q.failAt, live |-> q.live, twice |-> q.twice,
            ptrname |-> q.n, current |-> m.question, hostname |-> 0, name |-> Garbled,
            aliases |-> <<>>, labels |-> <<>>, array |-> 0, room |-> AliasAlloc, result |-> {}]
      a == Get(s)
  IN  IF q.status # "SUCCESS" THEN s
      ELSE IF a.status # "SUCCESS" THEN Put(a, {s.ptrname})
      ELSE PtrEnd(FoldLeft(PtrRecord, [a EXCEPT !.array = a.n], m.answers))

-----------------------------------------------------------------------------
(* ares_parse_ns_reply *)

NsRecord(r, rr) ==
  LET e == Owner(r, rr, "EBADRESP")
      d == Expand(e, rr.data, "EBADRESP")
      c == Get(d)
  IN  IF r.status # "SUCCESS" THEN r
      ELSE IF e.status # "SUCCESS" THEN e
      ELSE IF rr.type # "NS" THEN Beyond(Put(e, {e.n}), rr)
      ELSE IF d.status # "SUCCESS" THEN Put(d, {e.n})
      ELSE IF c.status # "SUCCESS" THEN Put(c, {e.n, d.n})
      ELSE Beyond([Put(c, {e.n, d.n}) EXCEPT !.aliases = Append(@, c.n),
                                             !.labels = Append(@, rr.data)], rr)

NsEnd(r) ==
  LET ended == IF r.status = "SUCCESS" /\ r.aliases = <<>> THEN Fail(r, "ENODATA") ELSE r
      h == GetMany(ended, 2)
      blocks == {r.hostname, r.array} \cup ToSet(r.aliases)
  IN  IF ended.status # "SUCCESS" THEN Put(ended, blocks)
      ELSE IF h.status # "SUCCESS"
      THEN Put(h, blocks \cup ((ended.n + 1) .. (h.n - 1)))
      ELSE [h EXCEPT !.result = blocks \cup {h.n - 1, h.n}]

ParseNs(m, failAt) ==
  LET q == Question(m, failAt, FALSE)
      s == [status |-> q.status, n |-> q.n, failAt |-> q.failAt, live |-> q.live, twice |-> q.twice,
            hostname |-> q.n, aliases |-> <<>>, labels |-> <<>>, array |-> 0, result |-> {}]
      a == Get(s)
  IN  IF q.status # "SUCCESS" THEN s
      ELSE IF a.status # "SUCCESS" THEN Put(a, {s.hostname})
      ELSE NsEnd(FoldLeft(NsRecord, [a EXCEPT !.array = a.n], m.answers))

-----------------------------------------------------------------------------
(* ares_parse_srv_reply, ares_parse_mx_reply, ares_parse_txt_reply *)

\* A node of ares_malloc_data joins the list before its data is read: the
\* name of a host, or the strings of a TXT record put together.
ListNode(r, rr) ==
  LET node == Get(r)
      joined == [node EXCEPT !.nodes = Append(@, node.n)]
      d == IF rr.type = "TXT" THEN Get(joined) ELSE Expand(joined, rr.data, "EBADNAME")
  IN  IF rr.type \in {"SRV", "MX"} /\ rr.size = "wrong" THEN Fail(r, "EBADRESP")
      ELSE IF node.status # "SUCCESS" THEN node
      ELSE IF d.status # "SUCCESS" THEN d
      ELSE [d EXCEPT !.nodes = Append(@, d.n),
                     !.labels = Append(@, IF rr.type = "TXT" THEN FlattenSeq(rr.data) ELSE rr.data)]

\* An error keeps the owner in rr_name, to be freed at the end.  Nothing
\* checks that the data of a record is inside the message.
ListRecord(r, rr, type) ==
  LET e == Owner(r, rr, "EBADNAME")
      d == ListNode(e, rr)
  IN  IF r.status # "SUCCESS" THEN r
      ELSE IF e.status # "SUCCESS" THEN e
      ELSE IF rr.type # type THEN Put(e, {e.n})
      ELSE Put(d, {e.n})

ParseList(m, type, failAt) ==
  LET q == Question(m, failAt, TRUE)
      s == [status |-> q.status, n |-> q.n, failAt |-> q.failAt, live |-> q.live, twice |-> q.twice,
            nodes |-> <<>>, labels |-> <<>>, result |-> {}]
      r == FoldLeft(LAMBDA t, rr : ListRecord(t, rr, type), s, m.answers)
      done == Put(r, {q.n})
  IN  IF q.status # "SUCCESS" THEN s
      ELSE IF r.status # "SUCCESS" THEN Put(done, ToSet(r.nodes))
      ELSE [done EXCEPT !.result = ToSet(r.nodes)]

ParseSrv(m, failAt) == ParseList(m, "SRV", failAt)
ParseMx(m, failAt) == ParseList(m, "MX", failAt)
ParseTxt(m, failAt) == ParseList(m, "TXT", failAt)

-----------------------------------------------------------------------------
(* ares__get_hostent and the two file_lookup *)

\* A line of the hosts file gives an address of a family ("none" if it is no
\* address) and names, the first of which is the host's.
Usable(line, family) ==
  /\ line.names # <<>>
  /\ line.family \in (IF family = "any" THEN {"v4", "v6"} ELSE {family})

\* The next usable line, read through a buffer that is block b.n: hostent, its
\* list, the address, the array of aliases and a block for every name.
GetHostent(r, lines, family) ==
  LET b == Get(r)
      usable == {k \in r.pos .. Len(lines) : Usable(lines[k], family)}
      line == lines[Min(usable)]
      h == GetMany(b, 4 + Len(line.names))
  IN  IF b.status # "SUCCESS" THEN b
      ELSE IF usable = {} THEN Fail(Put(b, {b.n}), "EOF")
      ELSE IF h.status # "SUCCESS" THEN Put(h, b.n .. h.n - 1)
      ELSE [Put(h, {b.n}) EXCEPT !.host = line, !.result = b.n + 1 .. h.n, !.pos = Min(usable) + 1]

\* ask: by name, of a family or of any, or by address.
Wanted(line, ask) ==
  IF ask.by = "name" THEN \E i \in DOMAIN line.names : Same(line.names[i], ask.name)
  ELSE line.family = ask.family /\ line.address = ask.address

RECURSIVE HostFrom(_, _, _)
HostFrom(r, lines, ask) ==
  LET h == GetHostent(r, lines, ask.family)
  IN  IF h.status # "SUCCESS" \/ Wanted(h.host, ask) THEN h
      ELSE HostFrom([Put(h, h.result) EXCEPT !.result = {}], lines, ask)

\* file_lookup: hosts.open is "yes", "missing" or "unreadable".
FileLookup(hosts, ask, failAt) ==
  LET s == Fresh(failAt) @@ [pos |-> 1, host |-> [names |-> <<>>], result |-> {}]
      h == HostFrom(s, hosts.lines, ask)
  IN  CASE hosts.open = "missing" -> Fail(s, "ENOTFOUND")
        [] hosts.open = "unreadable" -> Fail(s, "EFILE")
        [] OTHER -> IF h.status = "EOF" THEN Fail(h, "ENOTFOUND") ELSE h

\* ares_gethostbyname_file gives no host on failure.
GetHostByNameFile(channel, hosts, name, family, failAt) ==
  LET r == FileLookup(hosts, [by |-> "name", family |-> family, name |-> name], failAt)
  IN  IF ~ channel THEN [status |-> "ENOTFOUND", host |-> {}]
      ELSE [status |-> r.status, host |-> IF r.status = "SUCCESS" THEN {r.host} ELSE {}]

\* The file_lookup of ares_gethostbyaddr.c.
FileLookupByAddress(hosts, family, address, failAt) ==
  FileLookup(hosts, [by |-> "address", family |-> family, address |-> address], failAt)

-----------------------------------------------------------------------------
(* What the functions promise, without their loops *)

Indices(m, P(_)) == {i \in DOMAIN m.answers : P(i)}
InOrder(S) == SetToSortSeq(S, <)
OfType(m, type) == Indices(m, LAMBDA i : m.answers[i].type = type)

\* The name that record i has to be about: where the aliases before it lead.
NameAt(m, i) ==
  LET before == {j \in OfType(m, "CNAME") : j < i}
  IN  IF before = {} THEN m.question ELSE m.answers[Max(before)].data

\* Nothing a parser reads is missing or garbled.
Readable(m, read) ==
  /\ m.header = "ok" /\ m.qdcount = 1 /\ m.question # Garbled
  /\ \A i \in DOMAIN m.answers : m.answers[i].owner # Garbled /\ m.answers[i].cut = "none"
  /\ \A i \in read : m.answers[i].data # Garbled

About(m, type) == {i \in OfType(m, type) : Same(m.answers[i].owner, NameAt(m, i))}

\* A result is exactly what the parser still owns; without one it owns nothing.
KeepsNothing(r) ==
  /\ r.status # "SUCCESS" => r.result = {}
  /\ r.live = r.result /\ ~ r.twice
  /\ Released(r).live = {} /\ ~ Released(r).twice

\* Parse(f): the parser when allocation f fails.  It does fail if there is one
\* with that number; otherwise nothing changes.
WithoutMemory(Parse(_)) ==
  LET free == Parse(0)
      spare == free.n + 1
  IN  /\ KeepsNothing(free)
      /\ [Parse(spare) EXCEPT !.failAt = 0] = free
      /\ \A f \in 1 .. free.n : Parse(f).status = "ENOMEM" /\ KeepsNothing(Parse(f))

\* The addresses of the name the aliases lead to, no longer valid than those.
AddressReply(m, ask, r) ==
  LET cnames == OfType(m, "CNAME")
      found == InOrder({i \in About(m, ask.type) : m.answers[i].size = "right"})
      limit(t) == Min({t} \cup {m.answers[j].ttl : j \in cnames})
  IN  IF ~ Readable(m, cnames) THEN r.status = "EBADRESP" /\ r.ttls = <<>>
      ELSE IF found = <<>> /\ (cnames = {} \/ ask.type = "AAAA") THEN r.status = "ENODATA"
      ELSE /\ r.status = "SUCCESS"
           /\ r.ttls = [k \in 1 .. Min({ask.max, Len(found)}) |->
                          [data |-> m.answers[found[k]].data, ttl |-> limit(m.answers[found[k]].ttl)]]
           /\ ask.host =>
                /\ r.current = NameAt(m, Len(m.answers) + 1)
                /\ r.data = [k \in DOMAIN found |-> m.answers[found[k]].data]
                /\ r.labels = [k \in 1 .. Cardinality(cnames) |-> m.answers[InOrder(cnames)[k]].owner]

\* The last name given is the host's, every name given one of its aliases.
PtrReply(m, r) ==
  LET found == InOrder(About(m, "PTR"))
  IN  IF ~ Readable(m, OfType(m, "CNAME") \cup About(m, "PTR")) THEN r.status = "EBADRESP"
      ELSE IF found = <<>> THEN r.status = "ENODATA"
      ELSE /\ r.status = "SUCCESS" /\ r.name = m.answers[Last(found)].data
           /\ r.labels = [k \in DOMAIN found |-> m.answers[found[k]].data]

NsReply(m, r) ==
  LET found == InOrder(OfType(m, "NS"))
  IN  IF ~ Readable(m, OfType(m, "NS")) THEN r.status = "EBADRESP"
      ELSE IF found = <<>> THEN r.status = "ENODATA"
      ELSE r.status = "SUCCESS" /\ r.labels = [k \in DOMAIN found |-> m.answers[found[k]].data]

\* What is wrong with record i for a parser of lists: the first such record
\* decides.
WrongIn(m, type, i) ==
  LET rr == m.answers[i]
  IN  IF rr.owner = Garbled THEN "name"
      ELSE IF rr.cut = "fixed" THEN "format"
      ELSE IF rr.type # type \/ type = "TXT" THEN "nothing"
      ELSE IF rr.size = "wrong" THEN "format"
      ELSE IF rr.data = Garbled THEN "name"
      ELSE "nothing"

Faulty(m, type) == Indices(m, LAMBDA i : WrongIn(m, type, i) # "nothing")

\* "ARES_ENODATA  The response did not contain an answer to the query",
\* "ARES_EBADRESP  The response was malformatted" (ares_parse_mx_reply.3:65,
\* ares_parse_txt_reply.3:65).  It does not hold: answers of other types alone
\* are a success, and names that cannot be read have a status of their own.
StatusIsTold(m, type, r) ==
  /\ m.answers # <<>> /\ (m.question = Garbled \/ Faulty(m, type) # {}) => r.status = "EBADRESP"
  /\ r.status = "SUCCESS" => OfType(m, type) # {}

\* The records of the type in their order, whatever their owner.  A message
\* that cannot be read is refused, with either status if it is a name that
\* cannot.  Nothing is said of the status if there are answers, but of other
\* types only.
ListReply(m, type, r) ==
  LET found == InOrder(OfType(m, type))
      badName == {"EBADNAME", "EBADRESP"}
      faulty == Faulty(m, type)
  IN  IF m.header = "short" \/ m.qdcount # 1 THEN r.status = "EBADRESP"
      ELSE IF m.answers = <<>> THEN r.status = "ENODATA"
      ELSE IF m.question = Garbled THEN r.status \in badName
      ELSE IF m.header # "ok" THEN r.status = "EBADRESP"
      ELSE IF faulty # {}
      THEN IF WrongIn(m, type, Min(faulty)) = "name" THEN r.status \in badName
           ELSE r.status = "EBADRESP"
      ELSE /\ found # <<>> => r.status = "SUCCESS"
           /\ r.status = "SUCCESS" =>
                r.labels = [k \in DOMAIN found |-> LET d == m.answers[found[k]].data
                                                   IN  IF type = "TXT" THEN FlattenSeq(d) ELSE d]

\* The first line that gives the name or the address in the family asked for.
HostsReply(hosts, ask, r) ==
  LET fit == {k \in DOMAIN hosts.lines :
                Usable(hosts.lines[k], ask.family) /\ Wanted(hosts.lines[k], ask)}
  IN  IF hosts.open # "yes" \/ fit = {}
      THEN r.status = IF hosts.open = "unreadable" THEN "EFILE" ELSE "ENOTFOUND"
      ELSE r.status = "SUCCESS" /\ r.host = hosts.lines[Min(fit)]
=============================================================================
