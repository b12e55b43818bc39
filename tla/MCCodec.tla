------------------------------ MODULE MCCodec ------------------------------
(***************************************************************************)
(* What is decoded, encoded, sorted and looked up without a channel's      *)
(* state: each step takes an input of one kind, and the invariants say     *)
(* what becomes of it.  Beside them the lists change, while no input is    *)
(* taken; no input depends on them.                                        *)
(***************************************************************************)
EXTENDS AresNames, AresNameInfo, AresAddresses, AresTexts, AresLists, AresTools

VARIABLE input

SeqsTo(S, n) == UNION {[1 .. k -> S] : k \in 0 .. n}

-----------------------------------------------------------------------------
(* Inputs *)

\* A dot, a small length, a zero and a pointer; a dot, a backslash, a letter.
Bytes == {0, 1, 2, 46, 192}
Chars == {46, 92, 97}

q == [id |-> "q", case |-> "lower"]
Q == [id |-> "q", case |-> "upper"]
w == [id |-> "w", case |-> "lower"]

Record(type, owner, data, ttl, size, cut) ==
  [type |-> type, owner |-> owner, data |-> data, ttl |-> ttl, size |-> size, cut |-> cut]

\* Records that every parser may meet.
Others == {Record("CNAME", q, w, 3, "right", "none"), Record("CNAME", q, Garbled, 3, "right", "none"),
           Record("SOA", q, w, 3, "right", "none")}

AddressRecords(type) ==
  {Record(type, q, "a1", 2, "right", "none"), Record(type, Q, "a2", 5, "right", "none"),
   Record(type, w, "a3", 1, "right", "none"), Record(type, q, "a1", 2, "wrong", "none"),
   Record(type, q, "a1", 2, "right", "data"), Record(type, q, "a1", 2, "right", "fixed"),
   Record(type, Garbled, "a1", 3, "right", "none"), Record("CNAME", w, q, 1, "right", "none"),
   Record("CNAME", q, w, 3, "right", "data")} \cup Others

NameRecords(type) ==
  {Record(type, q, q, 2, "right", "none"), Record(type, Q, w, 5, "right", "none"),
   Record(type, w, Q, 1, "right", "none"), Record(type, q, Garbled, 2, "right", "none"),
   Record(type, w, Garbled, 2, "right", "none"), Record(type, q, q, 2, "right", "data"),
   Record(type, Garbled, q, 3, "right", "none"), Record(type, q, q, 3, "right", "fixed")} \cup Others

\* Those whose data is cut off come last in a message: the parsers of lists do
\* not look.
ListRecords(type) ==
  {Record(type, q, q, 2, "right", "none"), Record(type, w, w, 5, "right", "none"),
   Record(type, w, Q, 1, "wrong", "none"), Record(type, q, Garbled, 2, "right", "none"),
   Record(type, Garbled, q, 3, "right", "none"), Record(type, q, q, 3, "right", "fixed")} \cup Others

TextRecords ==
  {Record("TXT", q, <<>>, 2, "right", "none"), Record("TXT", w, <<<<1, 2>>, <<>>, <<3>>>>, 5, "right", "none"),
   Record("TXT", Garbled, <<>>, 3, "right", "none"), Record("TXT", q, <<>>, 3, "right", "fixed")} \cup Others

Records(type) ==
  CASE type \in {"A", "AAAA"} -> AddressRecords(type)
    [] type \in {"PTR", "NS"} -> NameRecords(type)
    [] type \in {"SRV", "MX"} -> ListRecords(type)
    [] type = "TXT" -> TextRecords

Types == {"A", "AAAA", "PTR", "NS", "SRV", "MX", "TXT"}

Message(header, qdcount, question, answers) ==
  [header |-> header, qdcount |-> qdcount, question |-> question, answers |-> answers]

Messages(type) ==
  {Message("ok", 1, q, a) : a \in SeqsTo(Records(type), 3)} \cup
  {Message(h[1], h[2], h[3], a) : h \in {<<"short", 1, q>>, <<"no question", 1, q>>,
                                         <<"ok", 1, Garbled>>, <<"ok", 2, q>>},
                                  a \in SeqsTo(Records(type), 1)}

Asks(type) == [type : {type}, host : BOOLEAN, max : {0, 1, 3}]

HostLines == [address : {<<1>>}, family : {"v4", "v6", "none"}, names : {<<>>, <<q>>, <<w>>, <<w, Q>>}]
Hosts == [open : {"yes", "missing", "unreadable"}, lines : SeqsTo(HostLines, 2)]
HostAsks == [by : {"name"}, name : {q}, family : {"any", "v4", "v6"}] \cup
            [by : {"address"}, address : {<<1>>}, family : {"v4", "v6"}]

Texts4 ==
  [octets : {<<a>> \o r : a \in {0, 10, 130, 200, 224, 225, 241, 256}, r \in SeqsTo({1, 300}, 4)},
   bits : {-1, 0, 7, 8, 20, 24, 32, 33}, junk : BOOLEAN] \cup
  [octets : {<<>>}, bits : {-1}, junk : {TRUE}]

Texts6 ==
  {t \in [before : SeqsTo({1}, 10), gap : BOOLEAN, after : SeqsTo({2}, 5), quad : {<<>>, <<1, 2, 3, 4>>},
          bits : {-1, 0, 1, 16, 33, 64, 127, 128}] :
     (t.gap \/ (t.after = <<>> /\ t.before # <<>>)) /\ Fits(t)}

Words == [1 .. 8 -> {0, 1, 65535}]

Entries == {<<10, 0, 0, 0>>, <<10, 1, 0, 0>>, <<10, 1, 0, 5>>, <<172, 16, 0, 0>>, <<192, 168, 1, 0>>}
AfterSlash == {<<>>, <<-1>>, <<0>>, <<8>>, <<12>>, <<15>>, <<32>>, <<33>>, <<255, 255, 0, 0>>, <<255, 240, 0, 0>>}
Addresses4 == {<<10, 1, 0, 5>>, <<10, 8, 0, 1>>, <<172, 16, 9, 9>>, <<192, 168, 1, 7>>, <<192, 168, 1, 0>>}
Local6 == <<254, 128, 0, 0, 0, 0, 0, 0, 0, 0, 0, 0, 0, 0, 0, 1>>
Addresses6 == {Local6, [Local6 EXCEPT ![2] = 1], [Local6 EXCEPT ![16] = 2]}
Patterns == {Pattern(<<10, 1, 0, 0>>, <<16>>), Pattern(<<172, 16, 0, 0>>, <<>>),
             Pattern(<<10, 0, 0, 0>>, <<255, 0, 0, 0>>), Pattern6(Local6, 10)}

\* A table with two names for a port and one for another protocol only.
MCPorts == <<[name |-> "web", port |-> 80, proto |-> "tcp"], [name |-> "www", port |-> 80, proto |-> "tcp"],
             [name |-> "sync", port |-> 80, proto |-> "udp"], [name |-> "call", port |-> 7, proto |-> "sctp"]>>

Flags == {"LOOKUPHOST", "LOOKUPSERVICE", "NUMERICHOST", "NAMEREQD", "NUMERICSERV", "UDP", "SCTP"}
Requests ==
  [family : {"v4"}, length : BOOLEAN, address : {<<1>>}, port : {0, 7, 80, 81}, flags : SUBSET Flags] \cup
  [family : {"v6"}, length : {TRUE}, address : {<<1, 2>>}, port : {80}, flags : SUBSET Flags] \cup
  [family : {"other"}, length : {TRUE}, address : {<<1>>}, port : {80}, flags : {{}}]

Line(family, address, names) == [family |-> family, address |-> address, names |-> names]
Worlds(family) ==
  LET known == IF family = "v6" THEN <<1, 2>> ELSE <<1>>
      reply(a) == Message("ok", 1, q, a)
  IN  [lookups : SeqsTo({"b", "f"}, 2), failAt : {0, 1, 2},
       hosts : [open : {"yes", "missing"},
                lines : {<<>>, <<Line(family, <<9, 9>>, <<w>>), Line(family, known, <<w, q>>)>>}],
       dns : {"SUCCESS", "ETIMEOUT", "EDESTRUCTION"},
       reply : {reply(<<>>), reply(<<Record("PTR", Q, w, 5, "right", "none"),
                                     Record("PTR", q, q, 2, "right", "none")>>)},
       memory : {IF family = "v6" THEN <<0, 0>> ELSE <<0>>}]

\* Numbers at their edges.
Numbers16 == {0, 1, 255, 256, 32768, 65535}
Halves == {0, 127, 128, 255}
FixedParts == {<<0, 1, 0, 1, a, b, c, d, e, f>> : a, b, c, d \in Halves, e, f \in {0, 255}}

\* Letters of both cases, a dot; a space, a comment sign and two kinds of options.
SearchNames == UNION {[1 .. n -> {46, 97, 65}] : n \in 1 .. 3}
AliasLines == [indented : BOOLEAN, words : {<<>>, <<<<97>>>>, <<<<97>>, <<98>>>>, <<<<65>>, <<99, 46>>, <<98>>>>,
                                            <<<<97, 97>>, <<99>>>>}]
Aliases == [set : {TRUE}, open : {"yes"}, lines : SeqsTo(AliasLines, 2)] \cup
           [set : BOOLEAN, open : {"missing", "unreadable"}, lines : {<<>>}]
Channels == [noAliases : BOOLEAN, noSearch : BOOLEAN, ndots : 0 .. 2, domains : {<<>>, <<<<100>>>>, <<<<100>>, <<101, 46>>>>}]
Quads == {n \in [parts : SeqsTo({-1, 0, 255, 256}, 5), digits : BOOLEAN, v6 : BOOLEAN] : n.v6 => ~ n.digits}
Lines == SeqsTo({32, 35, 59, 97, 58}, 6)
Options == {<<>>, <<97>>, <<97, 58>>, <<97, 97>>}

\* Options together and apart, with arguments and without, known and unknown.
Arguments == {<<"-", "d">>, <<"-", "d", "t">>, <<"-", "t", "M", "X">>, <<"-", "t">>, <<"-", "f", "u">>,
              <<"-", "s">>, <<"A">>, <<"-", "c", "C">>, <<"-", "U", "5">>, <<"-", "h">>, <<"-">>, <<>>,
              <<"-", "d", "-">>, <<"-", "-">>, <<"-", "t", "a">>, <<"h">>}
MCFlagNames == {<<"u">>}
MCClassNames == {<<"C">>, <<"I", "N">>}
MCTypeNames == {<<"A">>, <<"M", "X">>, <<"-", "-">>}
ToolWorlds == [init : {"SUCCESS", "ENOMEM"}, set : {"SUCCESS", "ENOMEM"}, servers : {{<<"A">>}},
               kind : {[a \in Arguments |-> IF a = <<"A">> THEN "v6" ELSE "name"]}]

\* Records adig shows, with values written as names.
Shapes == {<<"A", w>>, <<"MX", w>>, <<"SRV", Garbled>>, <<"SOA", <<q, w>>>>, <<"TXT", <<q, Garbled>>>>, <<"LOC", w>>}
ShownRecords ==
  {Record(s[1], q, s[2], 2, "right", "none") : s \in Shapes} \cup
  {Record("MX", q, w, 2, "wrong", "none"), Record("SOA", q, <<q, w>>, 2, "wrong", "none"),
   Record("SRV", w, w, 2, "wrong", "none"), Record("A", q, w, 2, "right", "data"),
   Record("A", Garbled, w, 2, "right", "none")}
ShownMessages ==
  {Message("ok", 1, q, a) : a \in SeqsTo(ShownRecords, 3)} \cup
  {Message(h, 1, name, <<Record("A", q, w, 2, "right", "none")>>) :
     h \in {"none", "short", "no question", "ok"}, name \in {q, Garbled}}
Counts == [an : 0 .. 2, ns : 0 .. 1, ar : 0 .. 2]

MCCountries == <<[number |-> 578, code |-> "no"], [number |-> 752, code |-> "se"], [number |-> 578, code |-> "xx"]>>
CountryNames == {[form |-> "code", domain |-> TRUE, code |-> "no"], [form |-> "code", domain |-> FALSE, code |-> "no"],
                 [form |-> "quad", domain |-> TRUE, octets |-> <<1, 2, 3, 4>>],
                 [form |-> "quad", domain |-> TRUE, octets |-> <<1, 2, 3, 300>>]}
Operands == [kind : {"address"}, address : {<<1>>, <<2>>}, atOnce : BOOLEAN,
             answer : [status : {"SUCCESS"}, cname : CountryNames, number : {578, 4}] \cup
                      [status : {"ENOTFOUND"}]] \cup
            [kind : {"name"}, lookup : {"SUCCESS", "ENOTFOUND"}, address : {<<3>>, NoAddress}, atOnce : BOOLEAN,
             answer : [status : {"SUCCESS"}, cname : CountryNames, number : {752}] \cup [status : {"ENOTFOUND"}]]
LibraryCalls == SeqsTo({"cleanup", "ALL", "NONE"}, 5)

\* One input of each kind that a documented promise is about.
DocumentedNames == SeqsTo(Chars, 3)
DocumentedReplies ==
  {Message("ok", 1, q, a) : a \in SeqsTo({Record("MX", q, w, 2, "right", "none"),
                                         Record("CNAME", q, w, 3, "right", "none"),
                                         Record("MX", q, Garbled, 2, "right", "none")}, 1)}
DocumentedTexts ==
  {[before |-> [i \in 1 .. n |-> 1], gap |-> FALSE, after |-> <<>>, quad |-> <<>>, bits |-> -1] : n \in 7 .. 10}
DocumentedRequests ==
  [family : {"v4"}, length : {TRUE}, address : {<<1>>}, port : {0}, flags : SUBSET {"LOOKUPHOST", "NUMERICHOST"}]
DocumentedWorlds == {world \in Worlds("v4") : world.failAt = 0 /\ world.hosts.lines = <<>>}

-----------------------------------------------------------------------------
(* Steps *)

Init == input = [kind |-> "start"] /\ ListsInit

TakeMessage == \E n \in 1 .. 5 : \E buf \in [1 .. n -> Bytes] : input' = [kind |-> "bytes", buf |-> buf]
TakeName == \E name \in SeqsTo(Chars, 7) : input' = [kind |-> "name", name |-> name]
TakeFixed == \E buf \in FixedParts : input' = [kind |-> "fixed", buf |-> buf]
TakeSearch ==
  \E name \in SearchNames, aliases \in Aliases : input' = [kind |-> "search", name |-> name, aliases |-> aliases]
TakeQuad == \E n \in Quads : input' = [kind |-> "quad", name |-> n]
TakeLine == \E l \in Lines : input' = [kind |-> "line", line |-> l]
TakeArguments == \E argv \in SeqsTo(Arguments, 3) : input' = [kind |-> "arguments", argv |-> argv]
TakeShown == \E m \in ShownMessages : input' = [kind |-> "shown", m |-> m]
TakeOperands ==
  \E first, second \in Operands, more \in SeqsTo({CHOOSE o \in Operands : o.kind = "address"}, 1) :
    input' = [kind |-> "operands", operands |-> <<first, second>> \o more]
TakeCalls == \E calls \in LibraryCalls : input' = [kind |-> "library", calls |-> calls]

TakeReply == \E t \in Types : \E m \in Messages(t) : input' = [kind |-> "reply", type |-> t, m |-> m]
TakeHosts == \E h \in Hosts : input' = [kind |-> "hosts", hosts |-> h]
TakeText4 == \E t \in Texts4 : input' = [kind |-> "text4", t |-> t]
TakeText6 == \E t \in Texts6 : input' = [kind |-> "text6", t |-> t]
TakeWords == \E a \in Words : input' = [kind |-> "words", a |-> a]
TakeBits == \E l, r \in [1 .. 2 -> {0, 1, 128, 254}] : input' = [kind |-> "bits", l |-> l, r |-> r]
TakeEntry == \E ip \in Entries, after \in AfterSlash : input' = [kind |-> "entry", ip |-> ip, after |-> after]
TakeList ==
  \E list \in SeqsTo(Addresses4, 4) \cup SeqsTo(Addresses6, 3), sortlist \in SeqsTo(Patterns, 2) :
    input' = [kind |-> "list", list |-> list, sortlist |-> sortlist]
TakeRequest == \E req \in Requests : input' = [kind |-> "request", req |-> req]
TakeOneOfEach ==
  \E name \in DocumentedNames, m \in DocumentedReplies, t \in DocumentedTexts, req \in DocumentedRequests :
    input' = [kind |-> "one of each", name |-> name, m |-> m, t |-> t, req |-> req]

Take ==
  /\ input.kind = "start" /\ heap = EmptyHeap
  /\ \/ TakeMessage \/ TakeName \/ TakeReply \/ TakeHosts \/ TakeText4 \/ TakeText6
     \/ TakeWords \/ TakeBits \/ TakeEntry \/ TakeList \/ TakeRequest
     \/ TakeFixed \/ TakeSearch \/ TakeQuad \/ TakeLine
     \/ TakeArguments \/ TakeShown \/ TakeOperands \/ TakeCalls \/ TakeOneOfEach

Done == input.kind # "start" /\ input' = [kind |-> "start"]

ChangeLists == input.kind = "start" /\ ListsNext /\ UNCHANGED input

Next == ((Take \/ Done) /\ UNCHANGED listsVars) \/ ChangeLists
Spec == Init /\ [][Next]_<<input, listsVars>>

-----------------------------------------------------------------------------
(* Properties *)


ReplyAgrees(type, m) ==
  CASE type \in {"A", "AAAA"} ->
         \A ask \in Asks(type) :
           LET Parse(f) == IF type = "A" THEN ParseA(m, ask.host, ask.max, f)
                           ELSE ParseAaaa(m, ask.host, ask.max, f)
           IN  WithoutMemory(Parse) /\ AddressReply(m, ask, Parse(0))
    [] type = "PTR" -> LET Parse(f) == ParsePtr(m, f) IN WithoutMemory(Parse) /\ PtrReply(m, Parse(0))
    [] type = "NS" -> LET Parse(f) == ParseNs(m, f) IN WithoutMemory(Parse) /\ NsReply(m, Parse(0))
    [] OTHER ->
         LET Parse(f) == CASE type = "SRV" -> ParseSrv(m, f)
                           [] type = "MX" -> ParseMx(m, f)
                           [] type = "TXT" -> ParseTxt(m, f)
         IN  WithoutMemory(Parse) /\ ListReply(m, type, Parse(0))

\* Each parser gives what the records of its message say of the name the
\* aliases lead to, or an error and nothing; whichever allocation fails, it
\* frees everything once, and so does the caller with the result.  The hosts
\* file gives the first line that fits (ares_parse_*_reply.c, ares_data.c,
\* ares__get_hostent.c, ares_free_hostent.c).
RepliesAgree ==
  /\ input.kind = "reply" => ReplyAgrees(input.type, input.m)
  /\ input.kind = "hosts" => \A ask \in HostAsks :
       LET Parse(f) == FileLookup(input.hosts, ask, f)
       IN  /\ WithoutMemory(Parse) /\ HostsReply(input.hosts, ask, Parse(0))
           /\ ask.by = "name" =>
                LET r == GetHostByNameFile(TRUE, input.hosts, ask.name, ask.family, 0)
                IN  r.status = Parse(0).status /\ (r.host = {} <=> r.status # "SUCCESS")



\* Addresses survive being written and read; networks keep their octets and
\* their width; the addresses of a host are sorted stably by the first entry of
\* the sort list that matches (inet_net_pton.c, inet_ntop.c, bitncmp.c,
\* sort_addresses, config_sortlist, ptr_rr_name).
AddressesAgree ==
  CASE input.kind = "text4" -> ReadsNetwork4(input.t)
    [] input.kind = "text6" -> ReadsNetwork6(input.t)
    [] input.kind = "words" -> SurvivesText(input.a) /\ NamesAddress(<<input.a[8] % 256, 2, 3, 4>>, input.a)
    [] input.kind = "bits" -> \A n \in 0 .. 16 : ComparesBits(input.l, input.r, n)
    [] input.kind = "entry" -> \A a \in Addresses4 \cup Entries : MatchesPrefix(input.ip, input.after, a)
    [] input.kind = "list" -> SortsStably(input.list, input.sortlist)
    [] OTHER -> TRUE

\* A name shown is one the first lookup that knows the address gives, and
\* statuses, services and flags fit the request (ares_getnameinfo.c,
\* ares_gethostbyaddr.c, ares_platform.c, fakedns.c).
NameInfoAnswers ==
  input.kind = "request" => \A world \in Worlds(input.req.family) : AnswersRequest(input.req, world)

\* Of a name, a reply, the text of a network and the address of a host, one at
\* least is treated as the documents say: the length of a query is told
\* (ares_mkquery.3:45), a reply without an answer, and a malformed one, have the
\* status that is for them (ares_parse_mx_reply.3:65), what is no network is
\* refused (inet_net_pton.c:403), and the address shown for want of a name is
\* the one asked about (ares_getnameinfo.c:253).  Where it fails, each of the
\* four promises is broken.
CodecAsDocumented ==
  input.kind = "one of each" =>
    \/ LengthIsTold(input.name, 1, 28, 0, 1)
    \/ StatusIsTold(input.m, "MX", ParseMx(input.m, 0))
    \/ RefusesNetwork6(input.t)
    \/ \A world \in DocumentedWorlds : ShowsAddress(input.req, world)
=============================================================================
