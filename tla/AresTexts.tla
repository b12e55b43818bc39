------------------------------ MODULE AresTexts ------------------------------
(***************************************************************************)
(* What is made of a text before any query: the names ares_search asks for *)
(* (single_domain with the file HOSTALIASES names, cat_domain), the        *)
(* addresses fake_hostent knows without asking, ares_gethostbyname_file,   *)
(* and the lines try_config reads.  A text is a sequence of characters.    *)
(***************************************************************************)
EXTENDS Integers, Sequences, SequencesExt, FiniteSetsExt

Period == 46
Space == 32
Hash == 35
Colon == 58
Equals == 61
NUL == <<>>     \* no text

\* The capital letters and what TOLOWER and strncasecmp make of them.
Lower(c) == IF c \in 65 .. 90 THEN c + 32 ELSE c
SameText(s, t) == Len(s) = Len(t) /\ \A i \in DOMAIN s : Lower(s[i]) = Lower(t[i])

Count(s, c) == Cardinality({i \in DOMAIN s : s[i] = c})

-----------------------------------------------------------------------------
(* ares_search *)

\* A line of the aliases file is split at white space; indented says whether it
\* begins with some.  A line that gives no second word is passed over.
AliasLine(line, name) ==
  ~ line.indented /\ Len(line.words) >= 2 /\ SameText(line.words[1], name)


FirstAlias(lines, name) ==
  LET fit == {k \in DOMAIN lines : AliasLine(lines[k], name)}
  IN  IF fit = {} THEN NUL ELSE lines[Min(fit)].words[2]

\* chan: noAliases, noSearch, ndots, domains; aliases: set, open, lines.  The
\* result is the only name to ask for, or NUL if there are several.
SingleDomain(chan, name, aliases) ==
  LET looked == ~ chan.noAliases /\ ~ Contains(name, Period) /\ aliases.set
      alias == FirstAlias(aliases.lines, name)
  IN  IF Last(name) = Period THEN [status |-> "SUCCESS", only |-> name]
      ELSE IF looked /\ aliases.open = "unreadable" THEN [status |-> "EFILE", only |-> NUL]
      ELSE IF looked /\ aliases.open = "yes" /\ alias # NUL THEN [status |-> "SUCCESS", only |-> alias]
      ELSE [status |-> "SUCCESS",
            only |-> IF chan.noSearch \/ chan.domains = <<>> THEN name ELSE NUL]

CatDomain(name, domain) == name \o <<Period>> \o domain

\* The names asked for as long as all are refused, in their order.
Searched(chan, name, aliases) ==
  LET s == SingleDomain(chan, name, aliases)
      extended == [i \in DOMAIN chan.domains |-> CatDomain(name, chan.domains[i])]
  IN  IF s.status # "SUCCESS" THEN <<>>
      ELSE IF s.only # NUL THEN <<s.only>>
      ELSE IF Count(name, Period) >= chan.ndots THEN <<name>> \o extended
      ELSE extended \o <<name>>

-----------------------------------------------------------------------------
(* fake_hostent *)

\* A name as [parts, digits, v6]: what stands between its dots (a number, or -1
\* for nothing) as inet_addr reads it, whether it is digits and dots only, and
\* whether it is the text of an IPv6 address.  inet_addr gives its error value for the highest
\* address too.
DottedQuad(parts) ==
  IF (\A i \in DOMAIN parts : parts[i] \in 0 .. 255) /\ parts # <<255, 255, 255, 255>>
  THEN parts ELSE NUL

\* The family and the address of the host entry, or that there is none.
FakeHostent(name, family) ==
  LET quad == IF name.digits /\ Len(name.parts) = 4 THEN DottedQuad(name.parts) ELSE NUL
  IN  IF family \notin {"v4", "v6"} THEN [family |-> "none", address |-> NUL]
      ELSE IF quad # NUL THEN [family |-> "v4", address |-> quad]
      ELSE IF family = "v6" /\ name.v6 THEN [family |-> "v6", address |-> name.parts]
      ELSE [family |-> "none", address |-> NUL]

-----------------------------------------------------------------------------
(* try_config *)

\* The line up to a comment, without white space around it.
Trimmed(line, scc) ==
  LET marks == {i \in DOMAIN line : line[i] = Hash \/ (scc # 0 /\ line[i] = scc)}
      text == IF marks = {} THEN line ELSE SubSeq(line, 1, Min(marks) - 1)
      inked == {i \in DOMAIN text : text[i] # Space}
  IN  IF inked = {} THEN NUL ELSE SubSeq(text, Min(inked), Max(inked))

\* What is left of a text when white space at its start is skipped.
Unspaced(s) ==
  LET inked == {i \in DOMAIN s : s[i] # Space}
  IN  IF inked = {} THEN NUL ELSE SubSeq(s, Min(inked), Len(s))

\* The value of an option in a line, or NUL.  White space is needed behind a
\* name that does not end with a colon or an equals sign.
TryConfig(line, opt, scc) ==
  LET text == Trimmed(line, scc)
      rest == SubSeq(text, Len(opt) + 1, Len(text))
  IN  IF text = NUL \/ opt = NUL \/ ~ IsPrefix(opt, text) \/ rest = NUL
         \/ (Last(opt) \notin {Colon, Equals} /\ Head(rest) # Space)
      THEN NUL ELSE Unspaced(rest)

-----------------------------------------------------------------------------
(* What the functions promise *)

\* Some candidate is asked unless the aliases cannot be read: a name that ends
\* with a dot alone; a name without dots that has an alias as the first line
\* says, domains or not; any other name as it is, once, and in every search
\* domain, once, unless there is no search; as it is first exactly when it has
\* enough dots.
SearchesNames(chan, name, aliases) ==
  LET asked == Searched(chan, name, aliases)
      absolute == name[Len(name)] = Period
      read == ~ absolute /\ ~ chan.noAliases /\ aliases.set /\ Period \notin ToSet(name)
      fit(k) == /\ ~ aliases.lines[k].indented /\ Len(aliases.lines[k].words) >= 2
                /\ SameText(aliases.lines[k].words[1], name)
      first(k) == fit(k) /\ \A j \in 1 .. k - 1 : ~ fit(j)
      aliased == read /\ aliases.open = "yes" /\ \E k \in DOMAIN aliases.lines : fit(k)
  IN  /\ asked = <<>> <=> read /\ aliases.open = "unreadable"
      /\ absolute => asked = <<name>>
      /\ aliased => \E k \in DOMAIN aliases.lines : first(k) /\ asked = <<aliases.lines[k].words[2]>>
      /\ ~ absolute /\ ~ aliased /\ asked # <<>> =>
           /\ Cardinality({i \in DOMAIN asked : asked[i] = name}) = 1
           /\ Len(asked) = 1 + IF chan.noSearch THEN 0 ELSE Len(chan.domains)
           /\ ~ chan.noSearch => \A d \in ToSet(chan.domains) : Contains(asked, name \o <<Period>> \o d)
           /\ Len(asked) > 1 => (asked[1] = name <=> chan.ndots <= Cardinality({i \in DOMAIN name : name[i] = Period}))

\* A name that is answered without a query is the address it spells; an IPv4
\* address is so in whichever family it is asked for, but for the highest one
\* and for a caller that takes any family.
KnowsAddress(name, family) ==
  LET h == FakeHostent(name, family)
      octets == Len(name.parts) = 4 /\ \A i \in 1 .. 4 : name.parts[i] \in 0 .. 255
  IN  /\ h.family # "none" => h.address = name.parts
      /\ h.family = "v4" <=> /\ name.digits /\ octets /\ family # "any"
                             /\ \E i \in 1 .. 4 : name.parts[i] < 255
      /\ h.family = "v6" => family = "v6" /\ name.v6

\* The value of an option is a stretch of the line behind the option, which
\* nothing but white space precedes; it holds no comment, no white space at its
\* ends, and nothing else of the line is left out.
ReadsLine(line, opt, scc) ==
  LET value == TryConfig(line, opt, scc)
      comment(i) == line[i] = Hash \/ (scc # 0 /\ line[i] = scc)
      bare(i) == \A k \in 1 .. i : ~ comment(k)
      blank(i, j) == \A k \in i .. j : line[k] = Space
      \* the option ends at i, the value stands from j to k
      Fits3(i, j, k) ==
        /\ opt # NUL /\ Len(opt) <= i /\ SubSeq(line, i - Len(opt) + 1, i) = opt /\ blank(1, i - Len(opt))
        /\ i < j /\ j <= k /\ bare(k) /\ blank(i + 1, j - 1)
        /\ line[j] # Space /\ line[k] # Space
        /\ \A m \in k + 1 .. Len(line) : bare(m) => line[m] = Space
        /\ Last(opt) \in {Colon, Equals} \/ j > i + 1
      spans == {s \in (DOMAIN line) \X (DOMAIN line) \X (DOMAIN line) : Fits3(s[1], s[2], s[3])}
  IN  IF spans = {} THEN value = NUL
      ELSE \A s \in spans : value = SubSeq(line, s[2], s[3])
=============================================================================
