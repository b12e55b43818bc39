------------------------------ MODULE AresTools ------------------------------
(***************************************************************************)
(* The command line tools: adig shows a whole message, ahost the addresses *)
(* of hosts, acountry the countries of addresses.  They read their options *)
(* with ares_getopt, start the library, ask one query for each operand and *)
(* wait until no socket is left to wait for.                               *)
(*                                                                         *)
(* An argument is a sequence of characters.  What a tool meets is a world: *)
(* how the calls of the library end and what the queries are answered.     *)
(***************************************************************************)
EXTENDS AresReplies

CONSTANTS
  FlagNames, ClassNames, TypeNames,   \* what -f, -c and -t of adig know
  Countries                           \* country_list: [number, code]

-----------------------------------------------------------------------------
(* ares_library_init, ares_library_cleanup *)

NoLibrary == [initialized |-> 0, flags |-> {}]

\* On this platform there is nothing to start.
LibraryInit(lib, flags) == IF lib.initialized > 0 THEN lib ELSE [initialized |-> 1, flags |-> flags]

LibraryCleanup(lib) ==
  IF lib.initialized = 0 THEN lib ELSE [initialized |-> lib.initialized - 1, flags |-> {}]

-----------------------------------------------------------------------------
(* ares_getopt *)

\* opts: the letters known, and those that take an argument.  g: what is left
\* of the argument being read, optind, optarg and what was found.
NoOption == [place |-> <<>>, optind |-> 1, optarg |-> <<>>, found |-> "none"]

GetOpt(g, argv, opts) ==
  LET begins == g.place = <<>>
      arg == IF g.optind > Len(argv) THEN <<>> ELSE argv[g.optind]
      place == IF ~ begins THEN g.place ELSE IF Len(arg) > 1 THEN Tail(arg) ELSE arg
      letter == Head(place)
      rest == Tail(place)
      passed == IF rest = <<>> THEN g.optind + 1 ELSE g.optind
  IN  CASE begins /\ (arg = <<>> \/ arg[1] # "-") -> [g EXCEPT !.found = "EOF"]
        [] begins /\ Len(arg) > 1 /\ letter = "-" -> [g EXCEPT !.optind = @ + 1, !.found = "EOF"]
        [] OTHER ->
             IF letter \notin opts.known
             THEN IF letter = "-" THEN [g EXCEPT !.place = rest, !.found = "EOF"]
                  ELSE [g EXCEPT !.place = rest, !.optind = passed, !.found = "?"]
             ELSE IF letter \notin opts.taking
             THEN [place |-> rest, optind |-> passed, optarg |-> <<>>, found |-> letter]
             ELSE IF rest # <<>>
             THEN [place |-> <<>>, optind |-> g.optind + 1, optarg |-> rest, found |-> letter]
             ELSE IF g.optind + 1 > Len(argv)
             THEN [g EXCEPT !.place = <<>>, !.optind = @ + 1, !.found = "?"]
             ELSE [place |-> <<>>, optind |-> g.optind + 2, optarg |-> argv[g.optind + 1], found |-> letter]

\* The options up to EOF, and the operands behind them.
RECURSIVE ScanOptions(_, _, _, _)
ScanOptions(g, argv, opts, seen) ==
  LET n == GetOpt(g, argv, opts)
  IN  IF n.found = "EOF" THEN [seen |-> seen, operands |-> SubSeq(argv, n.optind, Len(argv))]
      ELSE ScanOptions(n, argv, opts, Append(seen, [letter |-> n.found, arg |-> n.optarg]))

-----------------------------------------------------------------------------
(* adig: its options and its queries *)

AdigOpts == [known |-> {"d", "f", "s", "c", "t", "T", "U"}, taking |-> {"f", "s", "c", "t", "T", "U"}]

AdigDefaults == [exit |-> "no", flags |-> {<<"NOCHECKRESP">>}, servers |-> <<>>,
                 class |-> <<"I", "N">>, type |-> <<"A">>, mask |-> {"FLAGS"}]

Digit == {"0", "1", "2", "3", "4", "5", "6", "7", "8", "9"}

\* The first option that is wrong ends the program; one that is not known does
\* not.  world.servers are the texts that are or name a server.
AdigOption(o, option, world) ==
  LET arg == option.arg
      Wrong == [o EXCEPT !.exit = "usage"]
  IN  IF o.exit # "no" THEN o
      ELSE CASE option.letter = "f" -> IF arg \in FlagNames THEN [o EXCEPT !.flags = @ \cup {arg}] ELSE Wrong
             [] option.letter = "s" -> IF arg \in world.servers
                                       THEN [o EXCEPT !.servers = Append(@, arg), !.mask = @ \cup {"SERVERS"}]
                                       ELSE [o EXCEPT !.exit = "failed"]
             [] option.letter = "c" -> IF arg \in ClassNames THEN [o EXCEPT !.class = arg] ELSE Wrong
             [] option.letter = "t" -> IF arg \in TypeNames THEN [o EXCEPT !.type = arg] ELSE Wrong
             [] option.letter \in {"T", "U"} -> IF arg # <<>> /\ arg[1] \in Digit
                                                THEN [o EXCEPT !.mask = @ \cup {option.letter}] ELSE Wrong
             [] OTHER -> o

\* How a tool ended: its exit status, what it asked, and what it left behind.
Ended(exit, asked, lib, open) == [exit |-> exit, asked |-> asked, lib |-> lib, open |-> open]
Stopped(exit, lib, open) == Ended(exit, <<>>, lib, open)

\* Servers given replace those of the channel when it is made.  The name is the
\* argument of the callback only if there are several.
Adig(argv, world) ==
  LET lib == LibraryInit(NoLibrary, {"ALL"})
      s == ScanOptions(NoOption, argv, AdigOpts, <<>>)
      o == FoldLeft(LAMBDA a, b : AdigOption(a, b, world), AdigDefaults, s.seen)
      asked == [i \in DOMAIN s.operands |->
                  [name |-> s.operands[i], class |-> o.class, type |-> o.type,
                   flags |-> o.flags, servers |-> o.servers, shown |-> Len(s.operands) > 1]]
  IN  IF o.exit # "no" \/ s.operands = <<>> \/ world.init # "SUCCESS" THEN Stopped(1, lib, FALSE)
      ELSE IF o.servers # <<>> /\ world.set # "SUCCESS" THEN Stopped(1, lib, TRUE)
      ELSE Ended(0, asked, LibraryCleanup(lib), FALSE)

-----------------------------------------------------------------------------
(* adig: showing a message *)

OneName == {"CNAME", "MB", "MD", "MF", "MG", "MR", "NS", "PTR", "MX", "SRV"}
SeveralParts == {"HINFO", "MINFO", "SOA", "TXT", "NAPTR"}
Measured == {"MX", "A", "AAAA"}   \* the length of the data is looked at first

\* What the data of a record is shown as; a part that cannot be read is
\* Garbled.  Other types have no data to show.
Parts(rr) ==
  IF rr.type \in OneName \cup {"A", "AAAA"} THEN <<rr.data>>
  ELSE IF rr.type \in SeveralParts THEN rr.data ELSE <<>>

\* The data of a record up to the part that cannot be read, and whether there
\* is one; the numbers at the end of an SOA record are looked for last.
ShownData(rr) ==
  LET parts == IF rr.type \in Measured /\ rr.size = "wrong" THEN <<Garbled>> ELSE Parts(rr)
      bad == {i \in DOMAIN parts : parts[i] = Garbled}
  IN  [parts |-> IF bad = {} THEN parts ELSE SubSeq(parts, 1, Min(bad) - 1),
       whole |-> bad = {} /\ ~ (rr.type = "SOA" /\ rr.size = "wrong")]

\* d: the records still to be read, the lines shown, and whether it goes on.
DisplayRr(d, section) ==
  LET rr == Head(d.rest)
      data == ShownData(rr)
  IN  IF ~ d.going THEN d
      ELSE IF d.rest = <<>> \/ rr.owner = Garbled \/ rr.cut # "none" THEN [d EXCEPT !.going = FALSE]
      ELSE [rest |-> Tail(d.rest), going |-> data.whole,
            lines |-> Append(d.lines, [section |-> section, owner |-> rr.owner, type |-> rr.type,
                                       parts |-> data.parts, whole |-> data.whole])]


DisplaySection(d, section, count) ==
  FoldLeft(LAMBDA a, i : DisplayRr(a, section), d, [i \in 1 .. count |-> i])

\* The question is there and its name can be read.
DisplayQuestion(m) == m.question # Garbled /\ m.header # "no question"

\* callback: an answer is shown whatever its status, without one nothing is.
\* counts are those of the header.
Displayed(m, counts) ==
  LET shows == m.header \notin {"none", "short"}
      d == [rest |-> m.answers, lines |-> <<>>, going |-> shows /\ DisplayQuestion(m)]
  IN  DisplaySection(DisplaySection(DisplaySection(d, "answer", counts.an), "authority", counts.ns),
                     "additional", counts.ar).lines

-----------------------------------------------------------------------------
(* ahost *)

AhostOpts == [known |-> {"d", "t", "h"}, taking |-> {"t"}]

\* Letters are compared without case; world.kind says what an operand is the
\* text of.
Ahost(argv, world) ==
  LET lib == LibraryInit(NoLibrary, {"ALL"})
      s == ScanOptions(NoOption, argv, AhostOpts, <<>>)
      types == SelectSeq(s.seen, LAMBDA o : o.letter = "t")
      wrong == \E i \in DOMAIN s.seen :
                 \/ s.seen[i].letter \in {"h", "?"}
                 \/ s.seen[i].letter = "t" /\ s.seen[i].arg \notin {<<"a">>, <<"a", "a", "a", "a">>}
      family == IF types = <<>> \/ Last(types).arg = <<"a">> THEN "v4" ELSE "v6"
      asked == [i \in DOMAIN s.operands |->
                  LET kind == world.kind[s.operands[i]]
                  IN  [name |-> s.operands[i], by |-> IF kind = "name" THEN "name" ELSE "address",
                       family |-> IF kind = "name" THEN family ELSE kind]]
  IN  IF wrong \/ s.operands = <<>> \/ world.init # "SUCCESS" THEN Stopped(1, lib, FALSE)
      ELSE Ended(0, asked, LibraryCleanup(lib), FALSE)

-----------------------------------------------------------------------------
(* acountry *)

\* list_lookup: the place of the first entry with that number, or 0.
ListLookup(number) ==
  LET fit == {i \in DOMAIN Countries : Countries[i].number = number}
  IN  IF fit = {} THEN 0 ELSE Min(fit)

\* is_addr: four numbers that are bytes.
IsAddr(octets) == Len(octets) = 4 /\ \A i \in 1 .. 4 : octets[i] \in 0 .. 255

\* find_country_from_cname: the canonical name is zz with the code of a country
\* or an address, before the domain of the service.
FindCountry(cname, number) ==
  LET place == ListLookup(number)
      code == cname.form = "code" /\ cname.domain
      quad == cname.form = "quad" /\ cname.domain /\ IsAddr(cname.octets)
  IN  IF ~ code /\ ~ quad THEN [shown |-> "unexpected"]
      ELSE IF place = 0 THEN [shown |-> "unknown", number |-> number]
      ELSE [shown |-> "country", country |-> Countries[place],
            mismatch |-> code /\ cname.code # Countries[place].code]

\* The state of the loop over the operands.  addr and buf are variables of one
\* iteration that every iteration finds in the same place; a query under way
\* goes on pointing to them.
CountryStart == [pending |-> {}, addr |-> <<>>, buf |-> <<>>, reports |-> {}]

\* callback: a failure is reported with what buf holds then.
CountryReport(s, q) ==
  [of |-> q.of,
   what |-> IF q.answer.status # "SUCCESS" THEN [shown |-> "failed", about |-> s.buf]
            ELSE FindCountry(q.answer.cname, q.answer.number)]

\* wait_ares: all queries under way end.
WaitAres(s) == [s EXCEPT !.pending = {}, !.reports = @ \cup {CountryReport(s, q) : q \in s.pending}]

NoAddress == <<255, 255, 255, 255>>    \* INADDR_NONE

\* One operand: an address, or a name whose address is waited for; callback2
\* stores it.
CountryOperand(s, i, op) ==
  LET found == [s EXCEPT !.addr = IF op.kind = "address" THEN op.address
                                  ELSE IF op.lookup = "SUCCESS" THEN op.address ELSE NoAddress]
      waited == IF op.kind = "address" THEN found ELSE WaitAres(found)
      named == [waited EXCEPT !.buf = found.addr]
      query == [of |-> i, answer |-> op.answer]
  IN  IF op.kind = "name" /\ found.addr = NoAddress
      THEN [waited EXCEPT !.reports = @ \cup {[of |-> i, what |-> [shown |-> "no address"]]}]
      ELSE IF op.atOnce THEN [named EXCEPT !.reports = @ \cup {CountryReport(named, query)}]
      ELSE [named EXCEPT !.pending = @ \cup {query}]

Acountry(operands) ==
  WaitAres(FoldLeft(LAMBDA s, i : CountryOperand(s, i, operands[i]), CountryStart,
                    [i \in DOMAIN operands |-> i])).reports

AcountryOpts == [known |-> {"d", "v", "h", "?"}, taking |-> {}]

\* Acountry with the operands behind the options.
AcountryMain(argv, world) ==
  LET lib == LibraryInit(NoLibrary, {"ALL"})
      s == ScanOptions(NoOption, argv, AcountryOpts, <<>>)
      wrong == \E i \in DOMAIN s.seen : s.seen[i].letter \notin {"d", "v"}
      asked == [i \in DOMAIN s.operands |-> [name |-> s.operands[i]]]
  IN  IF wrong \/ s.operands = <<>> \/ world.init # "SUCCESS" THEN Stopped(1, lib, FALSE)
      ELSE Ended(0, asked, LibraryCleanup(lib), FALSE)

-----------------------------------------------------------------------------
(* What the tools promise *)

\* An argument of options, and whether the next one belongs to it: its first
\* letter that takes an argument is its last.
Cluster(arg) == Len(arg) > 1 /\ arg[1] = "-" /\ arg[2] # "-"
Letters(arg, opts) ==
  LET stops == {i \in 2 .. Len(arg) : arg[i] \in opts.taking \/ arg[i] = "-"}
  IN  IF stops = {} THEN SubSeq(arg, 2, Len(arg)) ELSE SubSeq(arg, 2, Min(stops))
TakesNext(arg, opts) == Last(Letters(arg, opts)) \in opts.taking /\ Len(Letters(arg, opts)) = Len(arg) - 1

\* Options end at the first argument that is neither an option nor the argument
\* of one, or behind two dashes; every letter before is seen in its order with
\* its argument.  An argument with a dash among its letters is read as options
\* and as an operand as well.
ScansOptions(argv, opts) ==
  LET s == ScanOptions(NoOption, argv, opts, <<>>)
      starts[k \in 1 .. Len(argv) + 2] ==
        \/ k = 1
        \/ starts[k - 1] /\ k <= Len(argv) + 1 /\ Cluster(argv[k - 1]) /\ ~ TakesNext(argv[k - 1], opts)
        \/ k > 2 /\ k <= Len(argv) + 2 /\ starts[k - 2] /\ Cluster(argv[k - 2]) /\ TakesNext(argv[k - 2], opts)
      dashed(k) == "-" \in ToSet(Letters(argv[k], opts))
      ends == {k \in 1 .. Len(argv) : starts[k] /\ (~ Cluster(argv[k]) \/ dashed(k))}
      last == IF ends = {} THEN Len(argv) + 1 ELSE Min(ends)
      twoDashes == last <= Len(argv) /\ Len(argv[last]) > 1 /\ argv[last][1] = "-" /\ argv[last][2] = "-"
      read == {k \in 1 .. Len(argv) : k <= last /\ starts[k] /\ Cluster(argv[k])}
      letters(k) == SelectSeq(Letters(argv[k], opts), LAMBDA c : c # "-")
      known(c) == IF c \in opts.known THEN c ELSE "?"
      missing(k) == TakesNext(argv[k], opts) /\ k = Len(argv)
  IN  /\ s.operands = SubSeq(argv, IF twoDashes THEN last + 1 ELSE last, Len(argv))
      /\ [i \in DOMAIN s.seen |-> s.seen[i].letter] =
           FlattenSeq([j \in 1 .. Cardinality(read) |->
             LET k == SetToSortSeq(read, <)[j]
             IN  [i \in DOMAIN letters(k) |->
                    IF missing(k) /\ i = Len(letters(k)) THEN "?" ELSE known(letters(k)[i])]])

\* A tool that ends well has asked one query for each operand, and has taken
\* down its channel and the library; one that fails has asked none.
RunsTool(r, operands) ==
  /\ r.exit = 0 => /\ [i \in DOMAIN r.asked |-> r.asked[i].name] = operands /\ operands # <<>>
                   /\ r.lib = NoLibrary /\ ~ r.open
  /\ r.exit # 0 => r.asked = <<>> /\ r.lib.initialized = 1

\* Later options of adig replace earlier ones, flags and servers add up.
\* seen: what its arguments say; asked: what it asks.
AsksAsTold(asked, seen) ==
  LET given(letter) == SelectSeq(seen, LAMBDA o : o.letter = letter)
      final(letter, default) == IF given(letter) = <<>> THEN default ELSE Last(given(letter)).arg
  IN  \A q \in ToSet(asked) :
        /\ q.class = final("c", <<"I", "N">>) /\ q.type = final("t", <<"A">>)
        /\ q.flags = {<<"NOCHECKRESP">>} \cup {o.arg : o \in ToSet(given("f"))}
        /\ q.servers = [k \in DOMAIN given("s") |-> given("s")[k].arg]

\* A record adig can show to its end.
Showable(rr) ==
  /\ rr.owner # Garbled /\ rr.cut = "none"
  /\ Garbled \notin ToSet(Parts(rr))
  /\ rr.type \in Measured \cup {"SOA"} => rr.size = "right"

\* The records are shown in their order and under the section the header counts
\* them in, up to the first that cannot be shown whole.
ShowsMessage(m, counts) ==
  LET lines == Displayed(m, counts)
      total == counts.an + counts.ns + counts.ar
      bad == {i \in DOMAIN m.answers : ~ Showable(m.answers[i])}
      whole == Min({total, Len(m.answers)} \cup {i - 1 : i \in bad})
      readable == m.header = "ok" /\ m.question # Garbled
  IN  IF ~ readable THEN lines = <<>>
      ELSE /\ {i \in DOMAIN lines : lines[i].whole} = 1 .. whole
           /\ Len(lines) <= whole + 1
           /\ \A i \in DOMAIN lines :
                /\ lines[i].owner = m.answers[i].owner /\ lines[i].type = m.answers[i].type
                /\ lines[i].section = IF i <= counts.an THEN "answer"
                                      ELSE IF i <= counts.an + counts.ns THEN "authority" ELSE "additional"
                /\ lines[i].whole => lines[i].parts = Parts(m.answers[i])
                /\ IsPrefix(lines[i].parts, Parts(m.answers[i]))

\* Every operand is reported once, with its own country; a failure that names
\* another address names that of a later operand, with no name between them
\* that was waited for.
ReportsCountries(operands) ==
  LET reports == Acountry(operands)
      own(i) == operands[i].address
  IN  /\ \A i \in DOMAIN operands : \E r \in reports : r.of = i /\ \A t \in reports : t.of = i => t = r
      /\ \A r \in reports :
           LET op == operands[r.of] IN
           /\ r.what.shown = "no address" =>
                op.kind = "name" /\ (op.lookup # "SUCCESS" \/ op.address = NoAddress)
           /\ r.what.shown = "country" =>
                /\ r.what.country.number = op.answer.number /\ op.answer.status = "SUCCESS"
                /\ r.what.mismatch => op.answer.cname.code # r.what.country.code
           /\ r.what.shown = "unknown" => \A c \in ToSet(Countries) : c.number # op.answer.number
           /\ r.what.shown = "failed" /\ r.what.about # own(r.of) =>
                \E j \in r.of + 1 .. Len(operands) :
                  /\ r.what.about = own(j)
                  /\ \A k \in r.of + 1 .. j : operands[k].kind = "address"

\* However often it is called, the library is either initialised or not, as the
\* last call says, with the flags of the first call since it was not.
CountsLibrary(calls) ==
  LET lib == FoldLeft(LAMBDA l, c : IF c = "cleanup" THEN LibraryCleanup(l) ELSE LibraryInit(l, {c}),
                      NoLibrary, calls)
      cleanups == {i \in DOMAIN calls : calls[i] = "cleanup"}
      since == Max({0} \cup cleanups) + 1
  IN  IF since > Len(calls) THEN lib = NoLibrary ELSE lib = [initialized |-> 1, flags |-> {calls[since]}]
=============================================================================
