-------------------------- MODULE AresConfigProofs --------------------------
(***************************************************************************)
(* What the sources of a configuration decide, which servers a channel     *)
(* uses and what it releases, for every set of options, environments and   *)
(* files, every length of their lists, every failure and any number of     *)
(* queries.                                                                *)
(*                                                                         *)
(* What reading a file of any length does is proved by the least number of *)
(* lines for which it did not (Upwards).  A channel that no failure met is *)
(* followed stage by stage: Asked is what the options and the environment  *)
(* made of it, Sourced what the files did (SourcesInv).                    *)
(***************************************************************************)
EXTENDS AresConfig, TLAPS, SequenceTheorems, WellFoundedInduction

-----------------------------------------------------------------------------
(* The least counterexample *)

Less == {ss \in Nat \X Nat : ss[1] < ss[2]}

LEMMA LessWellFounded == IsWellFoundedOn(Less, Nat)
BY NatLessThanWellFounded DEF OpToRel, Less

\* A set of numbers that has 0 and with each number the next has all up to n.
LEMMA Upwards ==
  ASSUME NEW n \in Nat, NEW S, 0 \in S,
         \A k \in 0 .. n : k \in S /\ k < n => k + 1 \in S
  PROVE  \A k \in 0 .. n : k \in S
<1>. DEFINE T == {k \in Nat : k <= n /\ k \notin S}
<1>. SUFFICES ASSUME T # {} PROVE FALSE
  OBVIOUS
<1>1. T \in SUBSET Nat
  OBVIOUS
<1>2. PICK m \in T : \A k \in T : <<k, m>> \notin Less
  BY <1>1, LessWellFounded, WFMin
<1>3. m \in Nat /\ m <= n /\ m \notin S /\ m # 0
  OBVIOUS
<1>4. m - 1 \in Nat /\ m - 1 <= n /\ m - 1 < n /\ (m - 1) + 1 = m
  BY <1>3
<1>5. <<m - 1, m>> \in Less
  BY <1>3, <1>4 DEF Less
<1>6. m - 1 \in S
  BY <1>2, <1>4, <1>5
<1>. QED
  BY <1>3, <1>4, <1>6

-----------------------------------------------------------------------------
(* Words *)

\* No prover here knows that a literal is a string, so the only one that the
\* code adds to what it reads is named.
Word == STRING \cup {"loopback"}

LEMMA StringsAreWords ==
  /\ \A list \in Seq(STRING) : list \in Seq(Word)
  /\ <<"loopback">> \in Seq(Word) /\ <<>> \in Seq(Word)
<1>1. STRING \subseteq Word /\ "loopback" \in Word
  BY DEF Word
<1>2. ASSUME NEW S, NEW w \in S PROVE <<w>> \in Seq(S) /\ <<>> \in Seq(S)
  OBVIOUS
<1>3. ASSUME NEW S, NEW T, S \subseteq T, NEW list \in Seq(S) PROVE list \in Seq(T)
  BY <1>3
<1>. QED
  BY <1>1, <1>2, <1>3, Zenon

\* What the application, the host and ares_set_servers bring are lists of words.
LEMMA InputsAreWords ==
  /\ \A r \in Requests : {r.servers, r.domains} \subseteq [given : BOOLEAN, list : Seq(Word)]
  /\ \A e \in Environments : e.search \in [given : BOOLEAN, list : Seq(Word)]
  /\ \A s \in Systems : s.dns1 \in Seq(Word)
  /\ \A s \in Systems : s.resolv.lines \in Seq([key : STRING, words : Seq(Word)])
  /\ NewServers \cup Csvs \subseteq Seq(Word)
<1>1. \A list \in Seq(STRING) : list \in Seq(Word)
  BY StringsAreWords
<1>2. [key : STRING, words : Seq(STRING)] \subseteq [key : STRING, words : Seq(Word)]
  BY <1>1
<1>3. ASSUME NEW S, NEW T, S \subseteq T, NEW list \in Seq(S) PROVE list \in Seq(T)
  BY <1>3
<1>4. ASSUME NEW list \in Seq([key : STRING, words : Seq(STRING)])
      PROVE  list \in Seq([key : STRING, words : Seq(Word)])
  BY <1>2, <1>3, Zenon
<1>5. \A r \in Requests : {r.servers, r.domains} \subseteq [given : BOOLEAN, list : Seq(Word)]
  BY <1>1, RequestsAssumption
<1>9. \A e \in Environments : e.search \in [given : BOOLEAN, list : Seq(Word)]
  BY <1>1, EnvironmentsAssumption
<1>6. \A s \in Systems : s.dns1 \in Seq(Word)
  BY <1>1, SystemsAssumption
<1>7. \A s \in Systems : s.resolv.lines \in Seq([key : STRING, words : Seq(Word)])
  BY <1>4, SystemsAssumption, Zenon
<1>8. NewServers \cup Csvs \subseteq Seq(Word)
  BY <1>1, ListsAssumption
<1>. QED
  BY <1>5, <1>6, <1>7, <1>8, <1>9

-----------------------------------------------------------------------------
(* Functions defined by recursion on a number *)

\* The words of a nameserver line up to the k-th.
WordsRead(list, words, out, g, k) ==
  g = [n \in 0 .. k |->
         IF n = 0 THEN list
         ELSE IF words[n] \in out THEN g[n - 1] ELSE Append(g[n - 1], words[n])]

LEMMA WordsCanBeRead ==
  ASSUME NEW list, NEW words, NEW out, NEW len \in Nat
  PROVE  \E g : WordsRead(list, words, out, g, len)
<1>. DEFINE S == {k \in Nat : \E g : WordsRead(list, words, out, g, k)}
<1>1. 0 \in S
  <2>. DEFINE g == [n \in 0 .. 0 |-> list]
  <2>1. g = [n \in 0 .. 0 |->
               IF n = 0 THEN list
               ELSE IF words[n] \in out THEN g[n - 1] ELSE Append(g[n - 1], words[n])]
    OBVIOUS
  <2>. QED
    BY <2>1 DEF WordsRead
<1>2. ASSUME NEW k \in 0 .. len, k \in S
      PROVE  k + 1 \in S
  <2>1. PICK g : WordsRead(list, words, out, g, k)
    BY <1>2
  <2>. DEFINE last == IF words[k + 1] \in out THEN g[k] ELSE Append(g[k], words[k + 1])
              h == [n \in 0 .. k + 1 |-> IF n <= k THEN g[n] ELSE last]
  <2>2. \A n \in 0 .. k + 1 : h[n] = IF n = 0 THEN list
                                     ELSE IF words[n] \in out THEN h[n - 1]
                                          ELSE Append(h[n - 1], words[n])
    <3>1. ASSUME NEW n \in 0 .. k
          PROVE  g[n] = IF n = 0 THEN list
                        ELSE IF words[n] \in out THEN g[n - 1] ELSE Append(g[n - 1], words[n])
      BY <2>1 DEF WordsRead
    <3>2. \A n \in 0 .. k : h[n] = g[n] /\ (n # 0 => h[n - 1] = g[n - 1])
      OBVIOUS
    <3>3. h[k + 1] = last /\ h[k] = g[k] /\ (k + 1) - 1 = k /\ k + 1 # 0
      OBVIOUS
    <3>. HIDE DEF h
    <3>. QED
      BY <3>1, <3>2, <3>3
  <2>3. h = [n \in 0 .. k + 1 |->
               IF n = 0 THEN list
               ELSE IF words[n] \in out THEN h[n - 1] ELSE Append(h[n - 1], words[n])]
    BY <2>2
  <2>. HIDE DEF h
  <2>4. WordsRead(list, words, out, h, k + 1)
    BY <2>3, Zenon DEF WordsRead
  <2>. QED
    BY <2>4
<1>3. \A k \in 0 .. len : k \in S /\ k < len => k + 1 \in S
  BY <1>2
<1>4. \A k \in 0 .. len : k \in S
  <2>. HIDE DEF S
  <2>. QED BY <1>1, <1>3, Upwards
<1>. QED
  BY <1>4

LEMMA AppendedReads ==
  ASSUME NEW list \in Seq(Word), NEW words \in Seq(Word), NEW out
  PROVE  Appended(list, words, out) \in Seq(Word)
<1>1. Len(words) \in Nat
  OBVIOUS
<1>2. \E g : WordsRead(list, words, out, g, Len(words))
  BY <1>1, WordsCanBeRead
<1>3. PICK g : /\ WordsRead(list, words, out, g, Len(words))
               /\ Appended(list, words, out) = g[Len(words)]
  BY <1>2, Zenon DEF Appended, WordsRead
<1>. DEFINE S == {k \in Nat : g[k] \in Seq(Word)}
<1>4. 0 \in S
  BY <1>1, <1>3 DEF WordsRead
<1>5. ASSUME NEW k \in 0 .. Len(words), k < Len(words), k \in S
      PROVE  k + 1 \in S
  <2>1. k + 1 \in 1 .. Len(words) /\ k + 1 \in 0 .. Len(words) /\ k + 1 # 0 /\ (k + 1) - 1 = k
    BY <1>1, <1>5
  <2>2. g[k + 1] = IF words[k + 1] \in out THEN g[k] ELSE Append(g[k], words[k + 1])
    BY <1>3, <2>1 DEF WordsRead
  <2>3. words[k + 1] \in Word
    BY <2>1, ElementOfSeq
  <2>4. g[k] \in Seq(Word) /\ k + 1 \in Nat
    BY <1>5
  <2>5. Append(g[k], words[k + 1]) \in Seq(Word)
    BY <2>3, <2>4
  <2>6. g[k + 1] \in Seq(Word)
    BY <2>2, <2>4, <2>5
  <2>. QED
    BY <2>4, <2>6
<1>6. \A k \in 0 .. Len(words) : k \in S /\ k < Len(words) => k + 1 \in S
  BY <1>5
<1>7. \A k \in 0 .. Len(words) : k \in S
  <2>. HIDE DEF S
  <2>. QED BY <1>1, <1>4, <1>6, Upwards
<1>. QED
  BY <1>1, <1>3, <1>7

LEMMA ConfigNameserverReads ==
  ASSUME NEW list \in Seq(Word), NEW words \in Seq(Word)
  PROVE  ConfigNameserver(list, words) \in Seq(Word)
BY AppendedReads DEF ConfigNameserver

\* The lines of resolv.conf up to the k-th.
LinesRead(start, lines, o, g, k) ==
  g = [n \in 0 .. k |-> IF n = 0 THEN start ELSE ConfLine(g[n - 1], lines[n], o)]

LEMMA LinesCanBeRead ==
  ASSUME NEW start, NEW lines, NEW o, NEW len \in Nat
  PROVE  \E g : LinesRead(start, lines, o, g, len)
<1>. DEFINE S == {k \in Nat : \E g : LinesRead(start, lines, o, g, k)}
<1>1. 0 \in S
  <2>. DEFINE g == [n \in 0 .. 0 |-> start]
  <2>1. g = [n \in 0 .. 0 |-> IF n = 0 THEN start ELSE ConfLine(g[n - 1], lines[n], o)]
    OBVIOUS
  <2>. QED
    BY <2>1 DEF LinesRead
<1>2. ASSUME NEW k \in 0 .. len, k \in S
      PROVE  k + 1 \in S
  <2>1. PICK g : LinesRead(start, lines, o, g, k)
    BY <1>2
  <2>. DEFINE last == ConfLine(g[k], lines[k + 1], o)
              h == [n \in 0 .. k + 1 |-> IF n <= k THEN g[n] ELSE last]
  <2>2. \A n \in 0 .. k + 1 : h[n] = IF n = 0 THEN start ELSE ConfLine(h[n - 1], lines[n], o)
    <3>1. ASSUME NEW n \in 0 .. k
          PROVE  g[n] = IF n = 0 THEN start ELSE ConfLine(g[n - 1], lines[n], o)
      BY <2>1 DEF LinesRead
    <3>2. \A n \in 0 .. k : h[n] = g[n] /\ (n # 0 => h[n - 1] = g[n - 1])
      OBVIOUS
    <3>3. h[k + 1] = last /\ h[k] = g[k] /\ (k + 1) - 1 = k /\ k + 1 # 0
      OBVIOUS
    <3>. HIDE DEF h
    <3>. QED
      BY <3>1, <3>2, <3>3
  <2>3. h = [n \in 0 .. k + 1 |-> IF n = 0 THEN start ELSE ConfLine(h[n - 1], lines[n], o)]
    BY <2>2
  <2>. HIDE DEF h
  <2>4. LinesRead(start, lines, o, h, k + 1)
    BY <2>3, Zenon DEF LinesRead
  <2>. QED
    BY <2>4
<1>3. \A k \in 0 .. len : k \in S /\ k < len => k + 1 \in S
  BY <1>2
<1>4. \A k \in 0 .. len : k \in S
  <2>. HIDE DEF S
  <2>. QED BY <1>1, <1>3, Upwards
<1>. QED
  BY <1>4

-----------------------------------------------------------------------------
(* The shape of a channel *)

Fields == {"scalar", "primary", "optRotate", "servers", "domains", "array", "lookups", "sortlist"}

ListType == [given : BOOLEAN, list : Seq(Word)]

\* A record with all fields that keeps the scalars that set gives, whose list
\* of servers, set or not, is a list, and which has an array for its domains.
Shaped(c, set) ==
  /\ DOMAIN c = Fields /\ c = [f \in Fields |-> c[f]]
  /\ c.scalar = [f \in Scalar |-> c.scalar[f]]
  /\ \A f \in Scalar : set[f] # "unset" => c.scalar[f] = set[f]
  /\ c.servers \in [given : BOOLEAN, list : Seq(Word)]
  /\ c.domains.list # <<>> => c.array

\* What init_by_resolv_conf has read so far.
Reading(r, set) ==
  /\ DOMAIN r = {"c", "servers", "sortlist", "status"} /\ r = [f \in DOMAIN r |-> r[f]]
  /\ Shaped(r.c, set) /\ r.servers \in Seq(Word)

LEMMA UnsetIs == Unset \in [given : BOOLEAN, list : Seq(Word)]
BY DEF Unset

LEMMA GivenIs ==
  ASSUME NEW list \in Seq(Word)
  PROVE  Given(list) \in [given : BOOLEAN, list : Seq(Word)]
BY DEF Given

LEMMA SameServers ==
  ASSUME NEW set, NEW c, Shaped(c, set),
         NEW f \in {"primary", "optRotate", "lookups", "sortlist"}, NEW v
  PROVE  Shaped([c EXCEPT ![f] = v], set)
BY DEF Shaped, Fields

LEMMA OtherServers ==
  ASSUME NEW set, NEW c, Shaped(c, set), NEW v \in [given : BOOLEAN, list : Seq(Word)]
  PROVE  Shaped([c EXCEPT !.servers = v], set)
BY DEF Shaped, Fields

LEMMA OtherDomains ==
  ASSUME NEW set, NEW c, Shaped(c, set), NEW v, NEW array \in BOOLEAN, v.list # <<>> => array
  PROVE  Shaped([c EXCEPT !.domains = v, !.array = array], set)
BY DEF Shaped, Fields

LEMMA OtherScalars ==
  ASSUME NEW set, NEW c, Shaped(c, set), NEW v, v = [f \in Scalar |-> v[f]],
         \A f \in Scalar : set[f] # "unset" => v[f] = set[f]
  PROVE  Shaped([c EXCEPT !.scalar = v], set)
BY DEF Shaped, Fields

\* A scalar is only set where none is.
LEMMA ScalarsAre ==
  ASSUME NEW set, NEW c, Shaped(c, set), NEW values
  PROVE  /\ Shaped(Scalars(c, values), set)
         /\ \A f \in Scalar : Scalars(c, values).scalar[f]
                                = IF c.scalar[f] = "unset" THEN values[f] ELSE c.scalar[f]
         /\ \A f \in Fields \ {"scalar"} : Scalars(c, values)[f] = c[f]
<1>. DEFINE v == [f \in Scalar |-> IF c.scalar[f] = "unset" THEN values[f] ELSE c.scalar[f]]
<1>1. Scalars(c, values) = [c EXCEPT !.scalar = v]
  BY DEF Scalars, Shaped, Fields
<1>2. \A f \in Scalar : v[f] = IF c.scalar[f] = "unset" THEN values[f] ELSE c.scalar[f]
  OBVIOUS
<1>3. \A f \in Scalar : set[f] # "unset" => v[f] = set[f]
  BY <1>2 DEF Shaped
<1>4. v = [f \in Scalar |-> v[f]]
  OBVIOUS
<1>. HIDE DEF v
<1>5. Shaped([c EXCEPT !.scalar = v], set)
  BY <1>3, <1>4, OtherScalars
<1>6. [c EXCEPT !.scalar = v].scalar = v /\ \A f \in Fields \ {"scalar"} : [c EXCEPT !.scalar = v][f] = c[f]
  BY DEF Shaped, Fields
<1>. QED
  BY <1>1, <1>2, <1>5, <1>6

LEMMA SetOptionsShaped ==
  ASSUME NEW set, NEW c, Shaped(c, set), NEW fields, NEW source
  PROVE  Shaped(SetOptions(c, fields, source), set)
BY ScalarsAre DEF SetOptions

LEMMA SetSearchShaped ==
  ASSUME NEW set, NEW c, Shaped(c, set), NEW words, NEW fails
  PROVE  Shaped(SetSearch(c, words, fails), set)
<1>. DEFINE v == IF fails = "array" /\ words # <<>> THEN Unset
                 ELSE IF fails = "item" THEN Given(Front(words)) ELSE Given(words)
            array == words # <<>> /\ fails # "array"
<1>1. SetSearch(c, words, fails) = [c EXCEPT !.domains = v, !.array = array]
  BY DEF SetSearch
<1>2. v.list # <<>> => array
  <2>1. Front(<<>>) = <<>>
    BY DEF Front
  <2>. QED
    BY <2>1 DEF Unset, Given
<1>3. array \in BOOLEAN
  OBVIOUS
<1>4. PICK b \in BOOLEAN : b = array
  BY <1>3
<1>5. v.list # <<>> => b
  BY <1>2, <1>4
<1>6. SetSearch(c, words, fails) = [c EXCEPT !.domains = v, !.array = b]
  BY <1>1, <1>4
<1>. HIDE DEF v, array
<1>7. Shaped([c EXCEPT !.domains = v, !.array = b], set)
  BY <1>5, OtherDomains
<1>. QED
  BY <1>6, <1>7

\* Nothing is set in Blank.
LEMMA BlankShaped == ASSUME NEW set, \A f \in Scalar : set[f] = "unset" PROVE Shaped(Blank, set)
<1>1. DOMAIN Blank = Fields /\ Blank.servers = Unset /\ Blank.domains = Unset
  BY DEF Blank, Fields
<1>2. Blank = [f \in Fields |-> Blank[f]]
  BY DEF Blank, Fields
<1>3. Blank.scalar = [f \in Scalar |-> "unset"]
  BY DEF Blank
<1>4. Unset.list = <<>>
  BY DEF Unset
<1>. QED
  BY <1>1, <1>2, <1>3, <1>4, UnsetIs DEF Shaped

\* The scalars of the application are the first to be set.
LEMMA FirstScalars ==
  ASSUME NEW values
  PROVE  /\ Shaped(Scalars(Blank, values), values)
         /\ \A f \in Scalar : Scalars(Blank, values).scalar[f] = values[f]
         /\ \A f \in Fields \ {"scalar"} : Scalars(Blank, values)[f] = Blank[f]
<1>. DEFINE none == [f \in Scalar |-> "unset"]
<1>1. Shaped(Blank, none)
  BY BlankShaped
<1>2. \A f \in Scalar : Blank.scalar[f] = "unset"
  BY DEF Blank
<1>3. /\ Shaped(Scalars(Blank, values), none)
      /\ \A f \in Scalar : Scalars(Blank, values).scalar[f]
                             = IF Blank.scalar[f] = "unset" THEN values[f] ELSE Blank.scalar[f]
      /\ \A f \in Fields \ {"scalar"} : Scalars(Blank, values)[f] = Blank[f]
  BY <1>1, ScalarsAre
<1>. QED
  BY <1>2, <1>3 DEF Shaped

\* Options of the application, or those that ares_save_options makes up.
Wellformed(r) ==
  /\ r.servers \in ListType
  /\ r.domains.given => r.domains = Given(r.domains.list)
  /\ r.sortlist.list # <<>> => r.sortlist.given

LEMMA RequestsWellformed == ASSUME NEW r \in Requests PROVE Wellformed(r)
<1>1. r.servers \in ListType /\ r.domains \in ListType
  BY InputsAreWords DEF ListType
<1>2. r.domains.given => r.domains = Given(r.domains.list)
  BY <1>1 DEF Given, ListType
<1>. QED
  BY <1>1, <1>2, RequestsAssumption DEF Wellformed

LEMMA ByOptionsShaped ==
  ASSUME NEW r, Wellformed(r), NEW fails
  PROVE  Shaped(ByOptions(Blank, r, fails), r.scalar)
<1>. DEFINE set == r.scalar
            start == [Scalars(Blank, r.scalar) EXCEPT
                        !.primary = r.primary /\ r.scalar["flags"] # "unset"]
            s == OptionServers(start, r)
            d == OptionDomains(s, r, "none")
            l == OptionLookups(d, r)
            all == [OptionSortlist(l, r) EXCEPT !.optRotate = r.scalar["rotate"] # "unset"]
<1>1. Shaped(start, set)
  <2>1. Shaped(Scalars(Blank, r.scalar), set)
    BY FirstScalars
  <2>. QED
    BY <2>1, SameServers
<1>2. Shaped(s, set)
  <2>1. r.servers \in [given : BOOLEAN, list : Seq(Word)]
    BY DEF Wellformed, ListType
  <2>. HIDE DEF start
  <2>. QED
    BY <1>1, <2>1, OtherServers DEF OptionServers
<1>3. ASSUME NEW x PROVE Shaped(OptionDomains(s, r, x), set)
  <2>. HIDE DEF s
  <2>. QED
    BY <1>2, SetSearchShaped DEF OptionDomains
<1>4. Shaped(l, set)
  <2>. HIDE DEF s
  <2>1. Shaped(d, set)
    BY <1>3
  <2>. HIDE DEF d
  <2>. QED
    BY <2>1, SameServers DEF OptionLookups
<1>5. Shaped(OptionSortlist(l, r), set)
  <2>. HIDE DEF l
  <2>. QED
    BY <1>4, SameServers DEF OptionSortlist
<1>6. Shaped(all, set)
  <2>. HIDE DEF l
  <2>. QED
    BY <1>5, SameServers
<1>7. Shaped(d, set) /\ Shaped(OptionDomains(s, r, "item"), set)
  <2>. HIDE DEF s
  <2>. QED
    BY <1>3
<1>8. ByOptions(Blank, r, fails) = CASE fails = "opt servers"  -> start
                                     [] fails = "opt array"    -> s
                                     [] fails = "opt item"     -> OptionDomains(s, r, "item")
                                     [] fails = "opt lookups"  -> d
                                     [] fails = "opt sortlist" -> l
                                     [] OTHER -> all
  BY Zenon DEF ByOptions
<1>. HIDE DEF start, s, d, l, all
<1>. QED
  BY <1>1, <1>2, <1>4, <1>6, <1>7, <1>8

LEMMA ByEnvironmentShaped ==
  ASSUME NEW set, NEW c, Shaped(c, set), NEW e, NEW fails
  PROVE  Shaped(ByEnvironment(c, e, fails), set)
<1>. DEFINE d == IF ~e.search.given \/ c.domains.given THEN c
                 ELSE SetSearch(c, e.search.list, IF fails = "env array" THEN "array"
                                                  ELSE IF fails = "env item" THEN "item" ELSE "none")
<1>1. Shaped(d, set)
  BY SetSearchShaped
<1>2. ByEnvironment(c, e, fails) = IF fails # "none" THEN d ELSE SetOptions(d, e.options, "environment")
  BY DEF ByEnvironment
<1>. HIDE DEF d
<1>. QED
  BY <1>1, <1>2, SetOptionsShaped

-----------------------------------------------------------------------------
(* Reading the files *)

LEMMA ReadingKept ==
  ASSUME NEW set, NEW r, Reading(r, set)
  PROVE  /\ \A x : Reading([r EXCEPT !.status = x], set)
         /\ \A x : Shaped(x, set) => Reading([r EXCEPT !.c = x], set)
         /\ \A x \in Seq(Word) : Reading([r EXCEPT !.servers = x], set)
         /\ \A x : Reading([r EXCEPT !.sortlist = x], set)
<1>1. ASSUME NEW x PROVE Reading([r EXCEPT !.status = x], set)
  BY DEF Reading
<1>2. ASSUME NEW x, Shaped(x, set) PROVE Reading([r EXCEPT !.c = x], set)
  BY <1>2 DEF Reading
<1>3. ASSUME NEW x \in Seq(Word) PROVE Reading([r EXCEPT !.servers = x], set)
  BY DEF Reading
<1>4. ASSUME NEW x PROVE Reading([r EXCEPT !.sortlist = x], set)
  BY DEF Reading
<1>. QED
  BY <1>1, <1>2, <1>3, <1>4

LEMMA AtEndReads == ASSUME NEW set, NEW r, Reading(r, set) PROVE Reading(AtEnd(r), set)
BY ReadingKept DEF AtEnd

LEMMA ReaderReads == ASSUME NEW set, NEW c, Shaped(c, set) PROVE Reading(Reader(c), set)
BY DEF Reading, Reader


LEMMA ConfLineReads ==
  ASSUME NEW set, NEW r, Reading(r, set), NEW line \in [key : STRING, words : Seq(Word)], NEW o
  PROVE  Reading(ConfLine(r, line, o), set)
<1>1. line.words \in Seq(Word) /\ r.servers \in Seq(Word) /\ Shaped(r.c, set)
  BY DEF Reading
<1>2. ASSUME NEW x, NEW words, NEW fails
      PROVE  /\ Reading([r EXCEPT !.c = SetSearch(@, words, fails)], set)
             /\ Reading([r EXCEPT !.c = SetSearch(@, words, fails), !.status = x], set)
  <2>1. Shaped(SetSearch(r.c, words, fails), set)
    BY <1>1, SetSearchShaped
  <2>2. Reading([r EXCEPT !.c = SetSearch(@, words, fails)], set)
    BY <2>1, ReadingKept
  <2>. QED
    BY <2>2, ReadingKept
<1>3. ASSUME NEW x PROVE Reading([r EXCEPT !.c.lookups = x], set)
  <2>1. Shaped([r.c EXCEPT !.lookups = x], set)
    BY <1>1, SameServers DEF Fields
  <2>. QED
    BY <2>1, ReadingKept
<1>4. Reading([r EXCEPT !.servers = ConfigNameserver(@, line.words)], set)
  <2>1. ConfigNameserver(r.servers, line.words) \in Seq(Word)
    BY <1>1, ConfigNameserverReads
  <2>. QED
    BY <2>1, ReadingKept
<1>5. ASSUME NEW fields, NEW source
      PROVE  Reading([r EXCEPT !.c = SetOptions(@, fields, source)], set)
  <2>1. Shaped(SetOptions(r.c, fields, source), set)
    BY <1>1, SetOptionsShaped
  <2>. QED
    BY <2>1, ReadingKept
<1>6. ASSUME NEW x PROVE Reading([r EXCEPT !.sortlist = x], set) /\ Reading([r EXCEPT !.status = x], set)
  BY ReadingKept
<1>. QED
  BY <1>2, <1>3, <1>4, <1>5, <1>6, Zenon DEF ConfLine

LEMMA ResolvConfReads ==
  ASSUME NEW set, NEW c, Shaped(c, set), NEW file, NEW o,
         file.lines \in Seq([key : STRING, words : Seq(Word)])
  PROVE  Reading(ResolvConf(c, file, o), set)
<1>. DEFINE start == Opened(Reader(c), file)
            lines == file.lines
<1>1. Len(lines) \in Nat
  OBVIOUS
<1>2. Reading(start, set)
  BY ReaderReads, ReadingKept DEF Opened
<1>3. \E g : LinesRead(start, lines, o, g, Len(lines))
  <2>. HIDE DEF start, lines
  <2>. QED
    BY <1>1, LinesCanBeRead
<1>4. PICK g : /\ LinesRead(start, lines, o, g, Len(lines))
               /\ ResolvConf(c, file, o) = AtEnd(g[Len(lines)])
  BY <1>3, Zenon DEF ResolvConf, LinesRead
<1>. DEFINE S == {k \in Nat : Reading(g[k], set)}
<1>. HIDE DEF start
<1>5. 0 \in S
  <2>1. g[0] = start
    BY <1>1, <1>4 DEF LinesRead
  <2>. QED
    BY <1>2, <2>1
<1>6. ASSUME NEW k \in 0 .. Len(lines), k < Len(lines), k \in S
      PROVE  k + 1 \in S
  <2>1. k + 1 \in 1 .. Len(lines) /\ k + 1 \in 0 .. Len(lines) /\ k + 1 # 0 /\ (k + 1) - 1 = k
    BY <1>1, <1>6
  <2>2. g[k + 1] = ConfLine(g[k], lines[k + 1], o)
    BY <1>4, <2>1 DEF LinesRead
  <2>3. lines[k + 1] \in [key : STRING, words : Seq(Word)]
    BY <2>1, ElementOfSeq
  <2>4. Reading(g[k + 1], set)
    BY <1>6, <2>2, <2>3, ConfLineReads
  <2>. QED
    BY <2>1, <2>4
<1>7. \A k \in 0 .. Len(lines) : k \in S /\ k < Len(lines) => k + 1 \in S
  BY <1>6
<1>8. \A k \in 0 .. Len(lines) : k \in S
  <2>. HIDE DEF S
  <2>. QED BY <1>1, <1>5, <1>7, Upwards
<1>9. Reading(g[Len(lines)], set)
  BY <1>1, <1>8
<1>10. Reading(AtEnd(g[Len(lines)]), set)
  BY <1>9, AtEndReads
<1>. QED
  BY <1>4, <1>10

LEMMA OrderFileReads ==
  ASSUME NEW set, NEW r, Reading(r, set), NEW file, NEW bindch, NEW filech, NEW o
  PROVE  Reading(OrderFile(r, file, bindch, filech, o), set)
<1>1. ASSUME NEW x PROVE Reading([r EXCEPT !.c.lookups = x], set)
  <2>1. Shaped([r.c EXCEPT !.lookups = x], set)
    BY SameServers DEF Fields, Reading
  <2>. QED
    BY <2>1, ReadingKept
<1>. QED
  BY <1>1, ReadingKept DEF OrderFile

LEMMA AllFilesRead ==
  ASSUME NEW set, NEW c, Shaped(c, set), NEW s \in Systems, NEW o
  PROVE  Reading(AllFiles(c, s, o), set)
<1>1. s.dns1 \in Seq(Word) /\ s.resolv.lines \in Seq([key : STRING, words : Seq(Word)])
  BY InputsAreWords
<1>2. Reading(Reader(c), set)
  BY ReaderReads
<1>3. ConfigNameserver(<<>>, s.dns1) \in Seq(Word)
  <2>1. <<>> \in Seq(Word)
    OBVIOUS
  <2>. QED
    BY <1>1, <2>1, ConfigNameserverReads
<1>4. Reading([Reader(c) EXCEPT !.servers = ConfigNameserver(<<>>, s.dns1)], set)
  BY <1>2, <1>3, ReadingKept
<1>5. Reading([Reader(c) EXCEPT !.servers = ConfigNameserver(<<>>, s.dns1), !.status = "EOF"], set)
  BY <1>4, ReadingKept
<1>6. \A x : Reading([Reader(c) EXCEPT !.status = x], set)
  BY <1>2, ReadingKept
<1>7. Reading(ResolvConf(c, s.resolv, o), set)
  BY <1>1, ResolvConfReads
<1>8. Reading(OrderFile(
         OrderFile(
           OrderFile(ResolvConf(c, s.resolv, o), s.nsswitch, "d", "f", o),
           s.host, "b", "h", o),
         s.svc, "b", "l", o), set)
  BY <1>7, OrderFileReads
<1>. QED
  BY <1>5, <1>6, <1>8, Zenon DEF AllFiles

LEMMA SettledShaped == ASSUME NEW set, NEW r, Reading(r, set) PROVE Shaped(Settled(r), set)
<1>1. Shaped(r.c, set) /\ Given(r.servers) \in ListType /\ r.c.servers \in ListType
  BY GivenIs DEF Reading, Shaped, ListType
<1>2. ASSUME NEW v \in ListType PROVE Shaped([r.c EXCEPT !.servers = v], set)
  BY <1>1, OtherServers DEF ListType
<1>3. ASSUME NEW v \in ListType, NEW w
      PROVE  Shaped([r.c EXCEPT !.servers = v, !.sortlist = w], set)
  BY <1>2, SameServers DEF Fields
<1>. DEFINE v == IF r.servers # <<>> THEN Given(r.servers) ELSE r.c.servers
            w == IF r.sortlist # <<>> THEN Given(r.sortlist) ELSE r.c.sortlist
<1>4. v \in ListType
  BY <1>1
<1>5. Settled(r) = IF r.status # "EOF" THEN r.c ELSE [r.c EXCEPT !.servers = v, !.sortlist = w]
  BY DEF Settled, Reading, Shaped, Fields
<1>. HIDE DEF v, w
<1>. QED
  BY <1>1, <1>3, <1>4, <1>5


LEMMA ByDefaultsShaped ==
  ASSUME NEW set, NEW c, Shaped(c, set), NEW domains
  PROVE  Shaped(ByDefaults(c, domains), set) /\ ConfigCheck(ByDefaults(c, domains))
<1>. DEFINE d == IF c.domains.given THEN c
                 ELSE [c EXCEPT !.domains = Given(domains), !.array = domains # <<>>]
            values == [f \in Scalar |-> IF f \in Undefaulted THEN "unset" ELSE "default"]
            v == Scalars(d, values)
<1>1. Shaped(d, set) /\ d.domains.given
  <2>1. Given(domains).list # <<>> => (domains # <<>>)
    BY DEF Given
  <2>2. Shaped([c EXCEPT !.domains = Given(domains), !.array = domains # <<>>], set)
    <3>1. (domains # <<>>) \in BOOLEAN
      OBVIOUS
    <3>. QED
      BY <2>1, <3>1, OtherDomains
  <2>3. [c EXCEPT !.domains = Given(domains), !.array = domains # <<>>].domains.given
    BY DEF Given, Shaped, Fields
  <2>. QED
    BY <2>2, <2>3
<1>2. /\ Shaped(v, set) /\ v.domains.given
      /\ \A f \in {"ndots", "timeout", "tries"} : v.scalar[f] # "unset"
  <2>. HIDE DEF d
  <2>1. /\ Shaped(v, set)
        /\ \A f \in Scalar : v.scalar[f] = IF d.scalar[f] = "unset" THEN values[f] ELSE d.scalar[f]
        /\ v.domains = d.domains
    <3>. HIDE DEF values
    <3>. QED
      BY <1>1, ScalarsAre DEF Fields
  <2>. QED
    BY <1>1, <2>1 DEF Scalar, Undefaulted
<1>. HIDE DEF v
<1>. DEFINE servers == IF v.servers.given THEN v.servers ELSE Given(<<"loopback">>)
            sortlist == IF v.sortlist.given THEN v.sortlist ELSE Given(<<>>)
            lookups == IF v.lookups.given THEN v.lookups ELSE Given(<<"f", "b">>)
<1>3. servers \in ListType
  <2>1. <<"loopback">> \in Seq(Word)
    BY StringsAreWords
  <2>2. Given(<<"loopback">>) \in ListType
    BY <2>1, GivenIs DEF ListType
  <2>. QED
    BY <1>2, <2>2 DEF Shaped, ListType
<1>4. ByDefaults(c, domains) =
        [v EXCEPT !.servers = servers, !.sortlist = sortlist, !.lookups = lookups]
  BY <1>2 DEF ByDefaults, v, Shaped, Fields
<1>. DEFINE last == [v EXCEPT !.servers = servers, !.sortlist = sortlist, !.lookups = lookups]
<1>8. ConfigCheck(last)
  <2>1. last.servers.given /\ last.sortlist.given /\ last.lookups.given
        /\ last.domains = v.domains /\ last.scalar = v.scalar
    BY <1>2 DEF Given, Shaped, Fields
  <2>. HIDE DEF last
  <2>. QED
    BY <1>2, <2>1 DEF ConfigCheck
<1>. HIDE DEF servers, sortlist, lookups
<1>5. Shaped([v EXCEPT !.servers = servers], set)
  BY <1>2, <1>3, OtherServers DEF ListType
<1>6. Shaped([v EXCEPT !.servers = servers, !.sortlist = sortlist], set)
  BY <1>5, SameServers DEF Fields
<1>7. Shaped([v EXCEPT !.servers = servers, !.sortlist = sortlist, !.lookups = lookups], set)
  BY <1>6, SameServers DEF Fields
<1>. QED
  BY <1>4, <1>7, <1>8

LEMMA TrimmedShaped ==
  ASSUME NEW set, NEW c, Shaped(c, set)
  PROVE  /\ Shaped(Trimmed(c), set)
         /\ ConfigCheck(c) => ConfigCheck(Trimmed(c))
         /\ \A f \in Fields \ {"servers"} : Trimmed(c)[f] = c[f]
<1>1. c.servers \in ListType
  BY DEF Shaped, ListType
<1>2. CASE c.primary /\ Len(c.servers.list) > 1
  <2>1. <<Head(c.servers.list)>> \in Seq(Word)
    BY <1>1, <1>2 DEF ListType
  <2>. DEFINE v == [c.servers EXCEPT !.list = <<Head(@)>>]
  <2>2. v \in ListType /\ v.given = c.servers.given
    BY <1>1, <2>1 DEF ListType
  <2>3. Trimmed(c) = [c EXCEPT !.servers = v]
    BY <1>2 DEF Trimmed
  <2>. HIDE DEF v
  <2>4. Shaped([c EXCEPT !.servers = v], set)
    BY <2>2, OtherServers DEF ListType
  <2>5. [c EXCEPT !.servers = v].servers = v
        /\ \A f \in Fields \ {"servers"} : [c EXCEPT !.servers = v][f] = c[f]
    BY DEF Shaped, Fields
  <2>6. ConfigCheck(c) => ConfigCheck([c EXCEPT !.servers = v])
    BY <2>2, <2>5 DEF ConfigCheck, Fields
  <2>. QED
    BY <2>3, <2>4, <2>5, <2>6
<1>3. CASE ~(c.primary /\ Len(c.servers.list) > 1)
  BY <1>3 DEF Trimmed
<1>. QED
  BY <1>2, <1>3

-----------------------------------------------------------------------------
(* What is released *)

\* While a channel is made or used nothing is released.
LEMMA NothingFreed ==
  ASSUME phase \notin {"destroyed", "failed"}
  PROVE  Released <=> \A b \in Block : freed[b] = 0
BY DEF Released, Block

\* A channel that is gone stays as it is.
LEMMA EndedStays ==
  ASSUME phase \in {"destroyed", "failed"}
  PROVE  ~Next
BY DEF Next, Begin, InitByOptions, InitByEnvironment, InitByResolvConf, InitByDefaults,
       DefaultsFail, InitIdKey, Send, AresDup, AresDestroy, Finish, AresSetServers, AresSetServersCsv

\* Only the steps that end a channel release anything.
LEMMA StepsThatRelease ==
  ASSUME Next
  PROVE  \/ freed' = freed /\ phase' \notin {"destroyed", "failed"}
         \/ DefaultsFail
         \/ /\ phase' = "failed" /\ oom = "key" /\ freed' = CleanUp(channel)
            /\ UNCHANGED <<inputs, channel>>
         \/ AresDestroy
<1>1. CASE Begin
  BY <1>1 DEF Begin, Enter, running
<1>2. CASE InitByOptions
  BY <1>2 DEF InitByOptions, Enter, running
<1>3. CASE InitByEnvironment
  BY <1>3 DEF InitByEnvironment, Enter, running
<1>4. CASE InitByResolvConf
  BY <1>4 DEF InitByResolvConf, Enter, running
<1>5. CASE InitByDefaults
  BY <1>5 DEF InitByDefaults, Enter, running
<1>6. CASE InitIdKey
  BY <1>6 DEF InitIdKey, KeyStatus, Enter, running
<1>7. CASE Send
  BY <1>7 DEF Send
<1>8. CASE AresDup
  BY <1>8 DEF AresDup
<1>9. ASSUME NEW i \in 1 .. MaxSends, Finish(i)
      PROVE  freed' = freed /\ phase' \notin {"destroyed", "failed"}
  BY <1>9 DEF Finish
<1>10. ASSUME NEW list \in NewServers, AresSetServers(list)
       PROVE  freed' = freed /\ phase' \notin {"destroyed", "failed"}
  BY <1>10 DEF AresSetServers, Replace
<1>11. ASSUME NEW entries \in Csvs, AresSetServersCsv(entries)
       PROVE  freed' = freed /\ phase' \notin {"destroyed", "failed"}
  BY <1>11 DEF AresSetServersCsv, Replace
<1>. QED
  BY <1>1, <1>2, <1>3, <1>4, <1>5, <1>6, <1>7, <1>8, <1>9, <1>10, <1>11 DEF Next

\* A failing init_by_defaults is left with two releases of what it cleans up,
\* and with an allocation of the key that cannot have failed yet.
LEMMA DefaultsFailCause ==
  ASSUME NEW c, NEW s, DefaultFailure(c, s, "key") # "none"
  PROVE  s.hostname = "unknown"
BY DEF DefaultFailure

\* Released: a channel that ends, or cannot be made, releases what it has
\* once, and what a failing init_by_defaults cleans up twice (ares_init.c:1266).
THEOREM ReleasedOnce == Spec => []Released
<1>1. Init => Released
  <2>. SUFFICES ASSUME Init PROVE Released
    OBVIOUS
  <2>1. phase \notin {"destroyed", "failed"} /\ \A b \in Block : freed[b] = 0
    BY DEF Init
  <2>. QED
    BY <2>1, NothingFreed
<1>2. Released /\ [Next]_vars => Released'
  <2>. SUFFICES ASSUME Released, [Next]_vars PROVE Released'
    OBVIOUS
  <2>1. CASE UNCHANGED vars
    BY <2>1 DEF vars, inputs, running, Released, Servers
  <2>2. CASE Next
    <3>1. phase \notin {"destroyed", "failed"}
      BY <2>2, EndedStays
    <3>2. \A b \in Block : freed[b] = 0
      BY <3>1, NothingFreed
    <3>3. CASE freed' = freed /\ phase' \notin {"destroyed", "failed"}
      BY <3>2, <3>3 DEF Released, Block
    <3>4. CASE AresDestroy
      BY <3>4 DEF AresDestroy, CleanUp, Owned, Released, Servers, Block, inputs
    <3>5. CASE /\ phase' = "failed" /\ oom = "key" /\ freed' = CleanUp(channel)
               /\ UNCHANGED <<inputs, channel>>
      BY <3>5 DEF CleanUp, Owned, Released, Servers, Block, inputs
    <3>6. CASE DefaultsFail
      <4>1. phase' = "failed" /\ freed' = CleanUpTwice(channel') /\ UNCHANGED inputs
            /\ DefaultFailure(channel, system, oom) # "none"
        BY <3>6 DEF DefaultsFail
      <4>2. oom = "key" => system.hostname = "unknown"
        BY <4>1, DefaultsFailCause
      <4>. QED
        BY <4>1, <4>2 DEF CleanUpTwice, CleanUp, Owned, Released, Servers, Block, inputs
    <3>. QED
      BY <2>2, <3>3, <3>4, <3>5, <3>6, StepsThatRelease
  <2>. QED
    BY <2>1, <2>2
<1>. QED
  BY <1>1, <1>2, PTL DEF Spec


-----------------------------------------------------------------------------
(* The servers of a channel in use *)

Early == {"start", "refused", "options", "environment", "file", "defaults", "key"}

Shaping == {"environment", "file", "defaults", "key", "open", "crashed", "aborted", "destroyed"}

\* Once the options were read a channel has its shape, unless init_by_defaults
\* stopped, and after init_by_defaults a value for everything.
ShapeKept ==
  /\ request \in Requests /\ env \in Environments /\ system \in Systems
  /\ phase \in {"start", "refused", "options"} => channel = Blank
  /\ phase \in Shaping => Shaped(channel, request.scalar)
  /\ phase = "key" \/ (phase = "open" /\ ~wanted.given) => ConfigCheck(channel)

\* Until it is open no query uses it and nobody has set its servers.
NotYetUsed ==
  phase \in Early => wanted = NoneWanted /\ inflight = <<>> /\ lastServer = 0

\* What the last call of ares_set_servers* left behind.
LastSet ==
  phase \in {"open", "crashed"} /\ wanted.given =>
    /\ wanted.list \in Seq(Word)
    /\ IF channel.servers.given
       THEN /\ "junk" \notin ToSet(wanted.list) /\ wanted.list # <<>>
            /\ Servers \in {wanted.list, Listed(wanted.list)}
            /\ ~wanted.text => Servers = wanted.list
       ELSE /\ Servers = <<>>
            /\ wanted.list = <<>> \/ "junk" \in ToSet(wanted.list) \/ oom # "none"

\* The queries in flight, and the server that the next one is sent to.
InFlight ==
  /\ lastServer \in Nat
  /\ inflight \in Seq([index : Nat, address : Word])
  /\ phase = "open" =>
       /\ \A q \in ToSet(inflight) : q.index < Len(Servers) /\ Servers[q.index + 1] = q.address
       /\ channel.scalar["rotate"] = "default" => lastServer = 0
       /\ \/ lastServer < Len(Servers)
          \/ Servers = <<>>
          \/ channel.scalar["rotate"] # "default" /\ wanted.given
  /\ phase = "crashed" =>
       \/ Servers = <<>>
       \/ channel.scalar["rotate"] # "default" /\ wanted.given /\ lastServer < Len(Servers)

ServersInv == ShapeKept /\ NotYetUsed /\ LastSet /\ InFlight

\* The steps by which a channel is made.
Making == \/ Begin \/ InitByOptions \/ InitByEnvironment \/ InitByResolvConf
          \/ InitByDefaults \/ DefaultsFail \/ InitIdKey

\* What they have in common.
MadeSo ==
  /\ phase \in Early /\ phase' \in Early \cup {"failed", "open"}
  /\ phase' \in {"start", "refused", "options"} => channel' = Blank
  /\ phase' \in Shaping => Shaped(channel', request.scalar)
  /\ phase' \in {"key", "open"} => ConfigCheck(channel')
  /\ UNCHANGED <<request, env, system, oom, wanted, inflight, lastServer>>

LEMMA MakingSteps == ASSUME ShapeKept, Making PROVE MadeSo
<1>1. request \in Requests /\ system \in Systems
  BY DEF ShapeKept
<1>2. phase \in {"environment", "file", "defaults", "key"} => Shaped(channel, request.scalar)
  BY DEF ShapeKept, Shaping
<1>3. ASSUME NEW stage \in Early \cup {"open"}, NEW result, NEW c,
             Enter(stage, result, c), phase \in Early,
             stage \in {"start", "refused", "options"} => c = Blank,
             stage \in Shaping => Shaped(c, request.scalar),
             stage \in {"key", "open"} => ConfigCheck(c)
      PROVE  MadeSo
  BY <1>3 DEF Enter, inputs, running, MadeSo
<1>4. CASE Begin
  <2>1. {"refused", "options"} \subseteq Early /\ phase \in Early
        /\ {"refused", "options"} \cap Shaping = {}
    BY <1>4 DEF Early, Begin, Shaping
  <2>. QED
    BY <1>3, <1>4, <2>1 DEF Begin
<1>5. CASE InitByOptions
  <2>1. channel = Blank
    BY <1>5 DEF InitByOptions, ShapeKept
  <2>2. Shaped(ByOptions(channel, request, OptionFailure(request, oom)), request.scalar)
    BY <1>1, <2>1, RequestsWellformed, ByOptionsShaped
  <2>3. {"environment", "defaults"} \subseteq Early /\ phase \in Early
    BY <1>5 DEF Early, InitByOptions
  <2>. QED
    BY <1>3, <1>5, <2>2, <2>3 DEF InitByOptions
<1>6. CASE InitByEnvironment
  <2>1. Shaped(ByEnvironment(channel, env, EnvironmentFailure(channel, env, oom)), request.scalar)
    BY <1>2, <1>6, ByEnvironmentShaped DEF InitByEnvironment
  <2>2. {"file", "defaults"} \subseteq Early /\ phase \in Early
    BY <1>6 DEF Early, InitByEnvironment
  <2>. QED
    BY <1>3, <1>6, <2>1, <2>2 DEF InitByEnvironment
<1>7. CASE InitByResolvConf
  <2>1. Shaped(Settled(AllFiles(channel, system, oom)), request.scalar)
    BY <1>1, <1>2, <1>7, AllFilesRead, SettledShaped DEF InitByResolvConf
  <2>2. "defaults" \in Early /\ phase \in Early
    BY <1>7 DEF Early, InitByResolvConf
  <2>. QED
    BY <1>3, <1>7, <2>1, <2>2 DEF InitByResolvConf
<1>8. CASE InitByDefaults
  <2>1. \A domains : /\ Shaped(ByDefaults(channel, domains), request.scalar)
                     /\ ConfigCheck(ByDefaults(channel, domains))
    BY <1>2, <1>8, ByDefaultsShaped DEF InitByDefaults
  <2>2. "key" \in Early /\ phase \in Early
    BY <1>8 DEF Early, InitByDefaults
  <2>. QED
    BY <1>3, <1>8, <2>1, <2>2 DEF InitByDefaults
<1>9. CASE DefaultsFail
  BY <1>9 DEF DefaultsFail, inputs, Early, Shaping, MadeSo
<1>10. CASE InitIdKey
  <2>1. Shaped(Trimmed(channel), request.scalar) /\ ConfigCheck(Trimmed(channel)) /\ phase \in Early
    BY <1>2, <1>10, TrimmedShaped DEF InitIdKey, Early, ShapeKept
  <2>2. CASE KeyStatus # "SUCCESS"
    BY <1>10, <2>1, <2>2 DEF InitIdKey, inputs, Shaping, MadeSo
  <2>3. CASE KeyStatus = "SUCCESS"
    <3>1. Enter("open", "SUCCESS", Trimmed(channel))
      BY <1>10, <2>3 DEF InitIdKey
    <3>. QED
      BY <1>3, <2>1, <3>1
  <2>. QED
    BY <2>2, <2>3
<1>. QED
  BY <1>4, <1>5, <1>6, <1>7, <1>8, <1>9, <1>10 DEF Making

\* What a call of ares_set_servers* does to the list, for a list free of junk
\* if the call succeeds.
LEMMA Replacing ==
  ASSUME ServersInv, phase = "open", NEW list \in Seq(Word), NEW result, Replace(list, result)
  PROVE  /\ UNCHANGED <<request, env, system, oom, lastServer, inflight>>
         /\ \/ phase' = "aborted" /\ channel' = channel
            \/ /\ phase' = "open" /\ inflight = <<>>
               /\ channel'.servers = IF list # <<>> /\ result = "SUCCESS" THEN Given(list) ELSE Unset
               /\ channel'.scalar = channel.scalar
         /\ Shaped(channel', request.scalar)
<1>1. Shaped(channel, request.scalar)
  BY DEF ServersInv, ShapeKept, Shaping
<1>2. Given(list) \in ListType /\ Unset \in ListType
  BY GivenIs, UnsetIs DEF ListType
<1>3. UNCHANGED <<request, env, system, oom, lastServer, inflight>>
  BY DEF Replace, inputs
<1>4. CASE inflight # <<>>
  BY <1>1, <1>3, <1>4 DEF Replace
<1>5. CASE inflight = <<>>
  <2>. DEFINE new == IF list # <<>> /\ result = "SUCCESS" THEN Given(list) ELSE Unset
  <2>1. new \in ListType
    BY <1>2
  <2>2. channel' = [channel EXCEPT !.servers = new] /\ phase' = "open"
    BY <1>5 DEF Replace
  <2>. HIDE DEF new
  <2>3. Shaped(channel', request.scalar)
    BY <1>1, <2>1, <2>2, OtherServers DEF ListType
  <2>4. channel'.servers = new /\ channel'.scalar = channel.scalar
    BY <1>1, <2>2 DEF Shaped, Fields
  <2>. QED
    BY <1>3, <1>5, <2>2, <2>3, <2>4 DEF new
<1>. QED
  BY <1>4, <1>5

\* After such a call no query is in flight and last_server is unknown only to
\* a channel that rotates.
LEMMA SetServersSafe ==
  ASSUME ServersInv, phase = "open", NEW entries \in Seq(Word), NEW list \in Seq(Word),
         NEW result, NEW text \in BOOLEAN, wanted' = Wanted(entries, text), Replace(list, result),
         list \in {entries, Listed(entries)}, ~text => list = entries, (list = <<>>) <=> (entries = <<>>),
         result = "SUCCESS" => "junk" \notin ToSet(entries),
         result # "SUCCESS" => oom # "none" \/ "junk" \in ToSet(entries)
  PROVE  ServersInv'
<1>. DEFINE new == IF list # <<>> /\ result = "SUCCESS" THEN Given(list) ELSE Unset
<1>1. /\ UNCHANGED <<request, env, system, oom, lastServer, inflight>>
      /\ \/ phase' = "aborted" /\ channel' = channel
         \/ /\ phase' = "open" /\ inflight = <<>>
            /\ channel'.servers = new /\ channel'.scalar = channel.scalar
      /\ Shaped(channel', request.scalar)
  BY Replacing
<1>2. ShapeKept'
  BY <1>1 DEF ShapeKept, ServersInv, Wanted
<1>3. NotYetUsed'
  BY <1>1 DEF NotYetUsed, Early
<1>4. CASE phase' = "aborted"
  BY <1>1, <1>2, <1>3, <1>4 DEF ServersInv, LastSet, InFlight
<1>5. CASE phase' = "open"
  <2>1. /\ wanted'.given /\ wanted'.list = entries /\ wanted'.text = text
        /\ new.given => list # <<>> /\ result = "SUCCESS" /\ new.list = list
        /\ ~new.given => new.list = <<>> /\ (list = <<>> \/ result # "SUCCESS")
        /\ new.list \in Seq(Word)
    BY DEF Given, Unset, Wanted
  <2>2. inflight = <<>> /\ inflight' = <<>> /\ ToSet(inflight') = {}
        /\ channel'.servers = new /\ channel'.scalar = channel.scalar /\ lastServer' = lastServer
        /\ oom' = oom
    BY <1>1, <1>5 DEF ToSet
  <2>. HIDE DEF new
  <2>3. LastSet'
    BY <1>5, <2>1, <2>2 DEF LastSet, Servers
  <2>4. channel.scalar["rotate"] = "default" => lastServer = 0
    BY DEF ServersInv, InFlight
  <2>5. lastServer \in Nat /\ inflight \in Seq([index : Nat, address : Word])
    BY DEF ServersInv, InFlight
  <2>6. 0 < Len(new.list) \/ new.list = <<>>
    BY <2>1
  <2>7. InFlight'
    BY <1>5, <2>1, <2>2, <2>4, <2>5, <2>6 DEF InFlight, Servers
  <2>. QED
    BY <1>2, <1>3, <2>3, <2>7 DEF ServersInv
<1>. QED
  BY <1>1, <1>4, <1>5

\* The entries of a text are kept but for its middle.
LEMMA ListedIs ==
  ASSUME NEW entries \in Seq(Word)
  PROVE  /\ Listed(entries) \in Seq(Word)
         /\ (Listed(entries) = <<>>) <=> (entries = <<>>)
         /\ ToSet(Listed(entries)) \subseteq ToSet(entries)
         /\ entries # <<>> => {Head(entries), Last(entries)}
                                = {Head(Listed(entries)), Last(Listed(entries))}
         /\ Len(entries) <= 2 => Listed(entries) = entries
<1>1. CASE Len(entries) > 2
  <2>1. Listed(entries) = <<Head(entries), Last(entries)>>
    BY <1>1 DEF Listed
  <2>2. Head(entries) = entries[1] /\ Last(entries) = entries[Len(entries)]
    BY <1>1 DEF Last
  <2>3. entries[1] \in Word /\ entries[Len(entries)] \in Word
    BY <1>1, ElementOfSeq
  <2>4. <<entries[1], entries[Len(entries)]>> \in Seq(Word)
    BY <2>3
  <2>5. 1 \in DOMAIN entries /\ Len(entries) \in DOMAIN entries /\ entries # <<>>
    BY <1>1
  <2>6. ASSUME NEW a, NEW b
        PROVE  /\ Head(<<a, b>>) = a /\ Last(<<a, b>>) = b /\ ToSet(<<a, b>>) = {a, b}
               /\ <<a, b>> # <<>>
    BY DEF Last, ToSet
  <2>7. {entries[1], entries[Len(entries)]} \subseteq ToSet(entries)
    BY <2>5 DEF ToSet
  <2>. QED
    BY <1>1, <2>1, <2>2, <2>4, <2>5, <2>6, <2>7
<1>2. CASE Len(entries) <= 2
  BY <1>2 DEF Listed
<1>. QED
  BY <1>1, <1>2


\* A query that ends leaves the others as they are.
LEMMA Removing ==
  ASSUME NEW S, NEW seq \in Seq(S), NEW i \in DOMAIN seq
  PROVE  RemoveAt(seq, i) \in Seq(S) /\ ToSet(RemoveAt(seq, i)) \subseteq ToSet(seq)
<1>1. i \in 1 .. Len(seq) /\ Len(seq) \in Nat /\ i - 1 \in 0 .. Len(seq)
  OBVIOUS
<1>. DEFINE before == SubSeq(seq, 1, i - 1)
            after == SubSeq(seq, i + 1, Len(seq))
<1>2. /\ before \in Seq(S) /\ Len(before) = i - 1
      /\ \A j \in 1 .. i - 1 : before[j] = seq[j]
  BY <1>1
<1>3. /\ after \in Seq(S) /\ Len(after) = Len(seq) - i
      /\ \A j \in 1 .. Len(seq) - i : after[j] = seq[i + j]
  BY <1>1
<1>4. RemoveAt(seq, i) = before \o after
  BY DEF RemoveAt
<1>. HIDE DEF before, after
<1>5. /\ before \o after \in Seq(S) /\ Len(before \o after) = Len(before) + Len(after)
      /\ \A j \in 1 .. Len(before) + Len(after) :
           (before \o after)[j] = IF j <= Len(before) THEN before[j] ELSE after[j - Len(before)]
  BY <1>2, <1>3, ConcatProperties, Zenon
<1>6. PICK rest : rest = before \o after
  OBVIOUS
<1>7. /\ rest \in Seq(S) /\ Len(rest) = Len(seq) - 1
      /\ \A j \in 1 .. Len(seq) - 1 : rest[j] = IF j <= i - 1 THEN before[j] ELSE after[j - (i - 1)]
  <2>1. Len(before) = i - 1 /\ Len(before) + Len(after) = Len(seq) - 1
    BY <1>1, <1>2, <1>3
  <2>2. Len(rest) = Len(seq) - 1
    BY <1>5, <1>6, <2>1
  <2>. QED
    BY <1>5, <1>6, <2>1, <2>2
<1>8. ASSUME NEW j \in 1 .. Len(seq) - 1
      PROVE  \E k \in 1 .. Len(seq) : rest[j] = seq[k]
  <2>1. CASE j <= i - 1
    <3>1. rest[j] = seq[j] /\ j \in 1 .. Len(seq)
      BY <1>1, <1>2, <1>7, <2>1
    <3>. QED
      BY <3>1
  <2>2. CASE ~(j <= i - 1)
    <3>1. j - (i - 1) \in 1 .. Len(seq) - i /\ i + (j - (i - 1)) = j + 1 /\ j + 1 \in 1 .. Len(seq)
      BY <1>1, <2>2
    <3>2. rest[j] = after[j - (i - 1)]
      BY <1>7, <2>2
    <3>3. after[j - (i - 1)] = seq[i + (j - (i - 1))]
      BY <1>3, <3>1
    <3>4. rest[j] = seq[j + 1]
      BY <3>1, <3>2, <3>3
    <3>. QED
      BY <3>1, <3>4
  <2>. QED
    BY <2>1, <2>2
<1>9. ToSet(rest) \subseteq ToSet(seq)
  <2>1. DOMAIN rest = 1 .. Len(seq) - 1 /\ DOMAIN seq = 1 .. Len(seq)
    BY <1>7
  <2>. QED
    BY <1>8, <2>1 DEF ToSet
<1>. QED
  BY <1>4, <1>6, <1>7, <1>9

LEMMA SendSafe == ASSUME ServersInv, Send PROVE ServersInv'
<1>1. /\ phase = "open" /\ channel.servers.given
      /\ UNCHANGED <<request, env, system, oom, channel, wanted>>
  BY DEF Send, inputs
<1>2. Shaped(channel, request.scalar) /\ Servers \in Seq(Word) /\ Len(Servers) \in Nat
  BY <1>1 DEF ServersInv, ShapeKept, Shaped, Servers, Shaping
<1>4. phase' \in {"open", "crashed"}
  BY <1>1 DEF Send
<1>3. ShapeKept'
  BY <1>1, <1>2, <1>4 DEF ServersInv, ShapeKept
<1>5. NotYetUsed'
  BY <1>4 DEF NotYetUsed, Early
<1>6. LastSet'
  BY <1>1, <1>4 DEF ServersInv, LastSet, Servers
<1>7. /\ lastServer \in Nat /\ inflight \in Seq([index : Nat, address : Word])
      /\ \A q \in ToSet(inflight) : q.index < Len(Servers) /\ Servers[q.index + 1] = q.address
      /\ channel.scalar["rotate"] = "default" => lastServer = 0
      /\ \/ lastServer < Len(Servers)
         \/ Servers = <<>>
         \/ channel.scalar["rotate"] # "default" /\ wanted.given
  BY <1>1 DEF ServersInv, InFlight
<1>8. /\ lastServer' \in Nat
      /\ channel.scalar["rotate"] = "default" => lastServer' = 0
      /\ channel.scalar["rotate"] # "default" /\ Servers # <<>> => lastServer' < Len(Servers)
      /\ channel.scalar["rotate"] = "default" \/ Servers = <<>> => lastServer' = lastServer
  <2>1. CASE channel.scalar["rotate"] # "default" /\ Servers # <<>>
    <3>1. lastServer' = (lastServer + 1) % Len(Servers)
      BY <2>1 DEF Send
    <3>2. Len(Servers) > 0
      BY <1>2, <2>1
    <3>. QED
      BY <1>2, <1>7, <2>1, <3>1, <3>2
  <2>2. CASE ~(channel.scalar["rotate"] # "default" /\ Servers # <<>>)
    <3>1. lastServer' = lastServer
      BY <2>2 DEF Send
    <3>. QED
      BY <1>7, <2>2, <3>1
  <2>. QED
    BY <2>1, <2>2
<1>9. Servers' = Servers /\ channel' = channel /\ wanted' = wanted
  BY <1>1 DEF Servers
<1>10. CASE lastServer < Len(Servers)
  <2>. DEFINE q == [index |-> lastServer, address |-> Servers[lastServer + 1]]
  <2>1. inflight' = Append(inflight, q) /\ phase' = "open"
    BY <1>1, <1>10 DEF Send
  <2>2. Servers[lastServer + 1] \in Word
    BY <1>2, <1>7, <1>10, ElementOfSeq
  <2>3. q \in [index : Nat, address : Word] /\ q.index = lastServer
        /\ q.address = Servers[lastServer + 1]
    BY <1>7, <2>2
  <2>. HIDE DEF q
  <2>4. inflight' \in Seq([index : Nat, address : Word])
    BY <1>7, <2>1, <2>3
  <2>5. ToSet(inflight') \subseteq ToSet(inflight) \cup {q}
    BY <1>7, <2>1, <2>3 DEF ToSet
  <2>6. \A p \in ToSet(inflight') : p.index < Len(Servers) /\ Servers[p.index + 1] = p.address
    BY <1>7, <1>10, <2>3, <2>5
  <2>7. InFlight'
    BY <1>8, <1>9, <1>10, <2>1, <2>4, <2>6 DEF InFlight
  <2>. QED
    BY <1>3, <1>5, <1>6, <2>7 DEF ServersInv
<1>11. CASE ~(lastServer < Len(Servers))
  <2>1. phase' = "crashed" /\ inflight' = inflight
    BY <1>11 DEF Send
  <2>2. InFlight'
    BY <1>7, <1>8, <1>9, <1>11, <2>1 DEF InFlight
  <2>. QED
    BY <1>3, <1>5, <1>6, <2>2 DEF ServersInv
<1>. QED
  BY <1>10, <1>11

LEMMA FinishSafe == ASSUME ServersInv, NEW i \in 1 .. MaxSends, Finish(i) PROVE ServersInv'
<1>1. /\ phase = "open" /\ i \in DOMAIN inflight /\ inflight' = RemoveAt(inflight, i)
      /\ UNCHANGED <<phase, request, env, system, oom, channel, wanted, lastServer>>
  BY DEF Finish, inputs
<1>2. inflight \in Seq([index : Nat, address : Word])
  BY DEF ServersInv, InFlight
<1>3. inflight' \in Seq([index : Nat, address : Word]) /\ ToSet(inflight') \subseteq ToSet(inflight)
  BY <1>1, <1>2, Removing
<1>4. ShapeKept' /\ NotYetUsed' /\ LastSet'
  BY <1>1 DEF ServersInv, ShapeKept, NotYetUsed, LastSet, Servers, Early
<1>5. InFlight'
  BY <1>1, <1>3 DEF ServersInv, InFlight, Servers
<1>. QED
  BY <1>4, <1>5 DEF ServersInv

\* Every step keeps the servers as they should be.
LEMMA ServersKept == ASSUME ServersInv, [Next]_vars PROVE ServersInv'
<1>1. CASE Making
  <2>1. MadeSo
    BY <1>1, MakingSteps DEF ServersInv
  <2>2. wanted' = NoneWanted /\ ~wanted'.given /\ inflight' = <<>> /\ lastServer' = 0
    BY <2>1 DEF ServersInv, NotYetUsed, NoneWanted, MadeSo
  <2>3. ShapeKept' /\ NotYetUsed' /\ LastSet'
    BY <2>1, <2>2 DEF ServersInv, ShapeKept, NotYetUsed, LastSet, MadeSo, Early
  <2>4. phase' = "open" => Servers' \in Seq(Word)
    BY <2>1 DEF Shaped, Servers, MadeSo, Shaping
  <2>5. phase' = "open" => 0 < Len(Servers') \/ Servers' = <<>>
    BY <2>4
  <2>6. phase' # "crashed" /\ ToSet(inflight') = {}
        /\ inflight' \in Seq([index : Nat, address : Word])
    BY <2>1, <2>2 DEF Early, ToSet, ServersInv, InFlight, MadeSo
  <2>7. InFlight'
    BY <2>2, <2>5, <2>6 DEF InFlight
  <2>. QED
    BY <2>3, <2>7 DEF ServersInv
<1>2. CASE Send
  BY <1>2, SendSafe
<1>3. CASE AresDup
  <2>1. UNCHANGED <<phase, request, env, system, oom, channel, lastServer, inflight, wanted>>
    BY <1>3 DEF AresDup, inputs
  <2>. QED
    BY <2>1 DEF ServersInv, ShapeKept, NotYetUsed, LastSet, InFlight, Servers
<1>4. CASE AresDestroy
  <2>1. /\ phase = "open" /\ phase' = "destroyed" /\ inflight' = <<>>
        /\ UNCHANGED <<request, env, system, channel, lastServer>>
    BY <1>4 DEF AresDestroy, inputs
  <2>2. inflight' \in Seq([index : Nat, address : Word])
    BY <2>1
  <2>. QED
    BY <2>1, <2>2 DEF ServersInv, ShapeKept, NotYetUsed, LastSet, InFlight, Early, Shaping
<1>5. ASSUME NEW i \in 1 .. MaxSends, Finish(i)
      PROVE  ServersInv'
  BY <1>5, FinishSafe
<1>6. ASSUME NEW list \in NewServers, AresSetServers(list)
      PROVE  ServersInv'
  <2>. DEFINE result == IF oom = "set servers" /\ list # <<>> THEN "ENOMEM" ELSE "SUCCESS"
  <2>1. phase = "open" /\ wanted' = Wanted(list, FALSE) /\ Replace(list, result)
    BY <1>6 DEF AresSetServers
  <2>2. list \in Seq(Word) /\ "junk" \notin ToSet(list)
    BY InputsAreWords, ListsAssumption
  <2>3. result # "SUCCESS" => oom # "none"
    OBVIOUS
  <2>. HIDE DEF result
  <2>. QED
    BY <2>1, <2>2, <2>3, SetServersSafe
<1>7. ASSUME NEW entries \in Csvs, AresSetServersCsv(entries)
      PROVE  ServersInv'
  <2>. DEFINE result ==
         CASE "junk" \in ToSet(entries) -> "EBADSTR"
           [] "junk" \notin ToSet(entries) /\ entries # <<>>
                /\ oom \in {"set servers", "csv entry"} -> "ENOMEM"
           [] OTHER -> "SUCCESS"
  <2>1. phase = "open" /\ wanted' = Wanted(entries, TRUE) /\ Replace(Listed(entries), result)
    BY <1>7 DEF AresSetServersCsv
  <2>2. entries \in Seq(Word)
    BY InputsAreWords
  <2>3. /\ result # "SUCCESS" => oom # "none" \/ "junk" \in ToSet(entries)
        /\ result = "SUCCESS" => "junk" \notin ToSet(entries)
    OBVIOUS
  <2>4. Listed(entries) \in Seq(Word) /\ ((Listed(entries) = <<>>) <=> (entries = <<>>))
    BY <2>2, ListedIs
  <2>. HIDE DEF result
  <2>. QED
    BY <2>1, <2>2, <2>3, <2>4, SetServersSafe
<1>8. CASE UNCHANGED vars
  BY <1>8 DEF vars, inputs, running, ServersInv, ShapeKept, NotYetUsed, LastSet, InFlight, Servers
<1>. QED
  BY <1>1, <1>2, <1>3, <1>4, <1>5, <1>6, <1>7, <1>8 DEF Next, Making

LEMMA ServersAtFirst == Init => ServersInv
<1>. SUFFICES ASSUME Init PROVE ServersInv
  OBVIOUS
<1>1. /\ request \in Requests /\ env \in Environments /\ system \in Systems /\ phase = "start" /\ channel = Blank
      /\ lastServer = 0 /\ inflight = <<>> /\ wanted = NoneWanted
  BY DEF Init
<1>2. inflight \in Seq([index : Nat, address : Word])
  BY <1>1
<1>. QED
  BY <1>1, <1>2 DEF Shaping, ServersInv, ShapeKept, NotYetUsed, LastSet, InFlight, NoneWanted

LEMMA ServersAlways == Spec => []ServersInv
BY ServersAtFirst, ServersKept, PTL DEF Spec

\* ServersAsListed: after ares_set_servers the servers are all of the list in
\* its order, whatever failed, and none after a failure; so after a text of up
\* to two entries, while of a longer one (ares_options.c:222) only the ends are
\* certain.
THEOREM ListsReplaced == Spec => []ServersAsListed
<1>1. ServersInv => ServersAsListed
  <2>. SUFFICES ASSUME ServersInv, phase \in {"open", "crashed"}, wanted.given
                PROVE  /\ "junk" \notin ToSet(Servers)
                       /\ channel.servers.given =>
                            /\ ~ wanted.text \/ Len(wanted.list) <= 2 => Servers = wanted.list
                            /\ ToSet(Servers) \subseteq ToSet(wanted.list)
                            /\ {Head(wanted.list), Last(wanted.list)} = {Head(Servers), Last(Servers)}
                       /\ ~ channel.servers.given =>
                            \/ wanted.list = <<>>
                            \/ "junk" \in ToSet(wanted.list)
                            \/ oom # "none"
    BY Zenon DEF ServersAsListed
  <2>1. wanted.list \in Seq(Word)
    BY DEF ServersInv, LastSet
  <2>2. CASE channel.servers.given
    <3>1. /\ "junk" \notin ToSet(wanted.list) /\ wanted.list # <<>>
          /\ Servers \in {wanted.list, Listed(wanted.list)}
          /\ ~wanted.text => Servers = wanted.list
      BY <2>2 DEF ServersInv, LastSet
    <3>. QED
      BY <2>1, <2>2, <3>1, ListedIs
  <2>3. CASE ~channel.servers.given
    <3>1. /\ Servers = <<>>
          /\ wanted.list = <<>> \/ "junk" \in ToSet(wanted.list) \/ oom # "none"
      BY <2>3 DEF ServersInv, LastSet
    <3>. QED
      BY <2>3, <3>1 DEF ToSet
  <2>. QED
    BY <2>2, <2>3
<1>. QED
  BY <1>1, ServersAlways, PTL

\* ServersInUse: a query keeps its server, and an index beyond the list takes
\* rotation and a shorter list, or no server (ares_send, ares_options.c:100).
THEOREM IndicesInRange == Spec => []ServersInUse
<1>1. ServersInv => ServersInUse
  BY DEF ServersInv, InFlight, ServersInUse, ToSet
<1>. QED
  BY <1>1, ServersAlways, PTL

-----------------------------------------------------------------------------
(* Sequences of words *)

LEMMA Joining ==
  ASSUME NEW S, NEW a \in Seq(S), NEW b \in Seq(S)
  PROVE  /\ a \o b \in Seq(S)
         /\ a \o <<>> = a /\ <<>> \o a = a
         /\ (a \o b = <<>>) <=> (a = <<>> /\ b = <<>>)
         /\ ToSet(a \o b) = ToSet(a) \cup ToSet(b)
<1>1. /\ a \o b \in Seq(S) /\ Len(a \o b) = Len(a) + Len(b)
      /\ \A i \in 1 .. Len(a) + Len(b) :
           (a \o b)[i] = IF i <= Len(a) THEN a[i] ELSE b[i - Len(a)]
  BY ConcatProperties, Zenon
<1>2. PICK c : c = a \o b
  OBVIOUS
<1>3. DOMAIN c = 1 .. Len(a) + Len(b) /\ DOMAIN a = 1 .. Len(a) /\ DOMAIN b = 1 .. Len(b)
      /\ Len(a) \in Nat /\ Len(b) \in Nat
  BY <1>1, <1>2
<1>4. \A i \in 1 .. Len(a) : i \in 1 .. Len(a) + Len(b) /\ c[i] = a[i]
  BY <1>1, <1>2, <1>3
<1>5. ASSUME NEW i \in 1 .. Len(b)
      PROVE  i + Len(a) \in 1 .. Len(a) + Len(b) /\ c[i + Len(a)] = b[i]
  <2>1. i + Len(a) \in 1 .. Len(a) + Len(b) /\ ~(i + Len(a) <= Len(a)) /\ (i + Len(a)) - Len(a) = i
    BY <1>3
  <2>. QED
    BY <1>1, <1>2, <2>1
<1>6. ASSUME NEW i \in 1 .. Len(a) + Len(b)
      PROVE  c[i] \in ToSet(a) \cup ToSet(b)
  <2>1. CASE i <= Len(a)
    BY <1>1, <1>2, <1>3, <2>1 DEF ToSet
  <2>2. CASE ~(i <= Len(a))
    <3>1. i - Len(a) \in 1 .. Len(b) /\ c[i] = b[i - Len(a)]
      BY <1>1, <1>2, <1>3, <2>2
    <3>. QED
      BY <1>3, <3>1 DEF ToSet
  <2>. QED
    BY <2>1, <2>2
<1>7. ToSet(c) \subseteq ToSet(a) \cup ToSet(b)
  BY <1>3, <1>6 DEF ToSet
<1>8. ToSet(a) \subseteq ToSet(c)
  BY <1>3, <1>4 DEF ToSet
<1>9. ToSet(b) \subseteq ToSet(c)
  BY <1>3, <1>5 DEF ToSet
<1>10. a \o <<>> = a /\ <<>> \o a = a
  OBVIOUS
<1>11. (c = <<>>) <=> (a = <<>> /\ b = <<>>)
  <2>1. \A x \in Seq(S) : x = <<>> <=> Len(x) = 0
    OBVIOUS
  <2>2. c \in Seq(S) /\ Len(c) = Len(a) + Len(b)
    BY <1>1, <1>2
  <2>. QED
    BY <1>3, <2>1, <2>2
<1>. QED
  BY <1>1, <1>2, <1>7, <1>8, <1>9, <1>10, <1>11

\* The words of a list are read in one way only.
LEMMA ReadOnce ==
  ASSUME NEW list, NEW words, NEW out, Len(words) \in Nat, NEW g, NEW h, NEW k \in Nat, NEW m \in Nat,
         WordsRead(list, words, out, g, k), WordsRead(list, words, out, h, m), k <= m
  PROVE  \A n \in 0 .. k : g[n] = h[n]
<1>. DEFINE S == {n \in Nat : g[n] = h[n]}
<1>1. 0 \in S
  BY DEF WordsRead
<1>2. ASSUME NEW n \in 0 .. k, n < k, n \in S
      PROVE  n + 1 \in S
  <2>1. n + 1 \in 0 .. k /\ n + 1 \in 0 .. m /\ n + 1 # 0 /\ (n + 1) - 1 = n /\ n + 1 \in Nat
    BY <1>2
  <2>2. g[n + 1] = IF words[n + 1] \in out THEN g[n] ELSE Append(g[n], words[n + 1])
    BY <2>1 DEF WordsRead
  <2>3. h[n + 1] = IF words[n + 1] \in out THEN h[n] ELSE Append(h[n], words[n + 1])
    BY <2>1 DEF WordsRead
  <2>. QED
    BY <1>2, <2>1, <2>2, <2>3
<1>3. \A n \in 0 .. k : n \in S /\ n < k => n + 1 \in S
  BY <1>2
<1>4. \A n \in 0 .. k : n \in S
  <2>. HIDE DEF S
  <2>. QED BY <1>1, <1>3, Upwards
<1>. QED
  BY <1>4

LEMMA ReadValue ==
  ASSUME NEW list \in Seq(Word), NEW words \in Seq(Word), NEW out, NEW g,
         WordsRead(list, words, out, g, Len(words))
  PROVE  Appended(list, words, out) = g[Len(words)]
<1>1. Len(words) \in Nat /\ Len(words) <= Len(words)
  OBVIOUS
<1>2. PICK h : /\ WordsRead(list, words, out, h, Len(words))
               /\ Appended(list, words, out) = h[Len(words)]
  <2>1. \E h : WordsRead(list, words, out, h, Len(words))
    OBVIOUS
  <2>. QED
    BY <2>1, Zenon DEF Appended, WordsRead
<1>3. \A n \in 0 .. Len(words) : g[n] = h[n]
  BY <1>1, <1>2, ReadOnce
<1>. QED
  BY <1>1, <1>2, <1>3

\* Two lists of words are read as if they were one.
LEMMA AppendedOnward ==
  ASSUME NEW list \in Seq(Word), NEW a \in Seq(Word), NEW b \in Seq(Word), NEW out
  PROVE  /\ Appended(Appended(list, a, out), b, out) = Appended(list, a \o b, out)
         /\ Appended(list, <<>>, out) = list
<1>. DEFINE m == Len(a)
            n == Len(b)
<1>1. m \in Nat /\ n \in Nat
  OBVIOUS
<1>2. PICK g : WordsRead(list, a, out, g, m)
  BY <1>1, WordsCanBeRead
<1>3. Appended(list, a, out) = g[m] /\ g[m] \in Seq(Word)
  BY <1>2, ReadValue, AppendedReads
<1>4. PICK h : WordsRead(g[m], b, out, h, n)
  BY <1>1, WordsCanBeRead
<1>5. Appended(g[m], b, out) = h[n]
  BY <1>3, <1>4, ReadValue
<1>6. PICK c : c = a \o b
  OBVIOUS
<1>7. /\ c \in Seq(Word) /\ Len(c) = m + n
      /\ \A i \in 1 .. m + n : c[i] = IF i <= m THEN a[i] ELSE b[i - m]
  <2>1. /\ a \o b \in Seq(Word) /\ Len(a \o b) = Len(a) + Len(b)
        /\ \A i \in 1 .. Len(a) + Len(b) :
             (a \o b)[i] = IF i <= Len(a) THEN a[i] ELSE b[i - Len(a)]
    BY ConcatProperties, Zenon
  <2>. QED
    BY <1>6, <2>1
<1>8. m + n \in Nat
  BY <1>1
<1>9. PICK w : WordsRead(list, c, out, w, m + n)
  BY <1>8, WordsCanBeRead
<1>10. Appended(list, c, out) = w[m + n]
  <2>1. WordsRead(list, c, out, w, Len(c))
    BY <1>7, <1>9
  <2>2. c \in Seq(Word)
    BY <1>7
  <2>3. Appended(list, c, out) = w[Len(c)]
    BY <2>1, <2>2, ReadValue, Zenon
  <2>. QED
    BY <1>7, <2>3
<1>. HIDE DEF m, n
<1>11. w[m] = g[m]
  <2>. DEFINE S == {i \in Nat : w[i] = g[i]}
  <2>1. 0 \in S
    BY <1>1, <1>2, <1>8, <1>9 DEF WordsRead
  <2>2. ASSUME NEW i \in 0 .. m, i < m, i \in S
        PROVE  i + 1 \in S
    <3>1. i + 1 \in 0 .. m /\ i + 1 \in 0 .. m + n /\ i + 1 \in 1 .. m + n /\ i + 1 <= m
          /\ i + 1 # 0 /\ (i + 1) - 1 = i /\ i + 1 \in Nat
      BY <1>1, <2>2
    <3>2. g[i + 1] = IF a[i + 1] \in out THEN g[i] ELSE Append(g[i], a[i + 1])
      BY <1>2, <3>1 DEF WordsRead
    <3>3. w[i + 1] = IF c[i + 1] \in out THEN w[i] ELSE Append(w[i], c[i + 1])
      BY <1>9, <3>1 DEF WordsRead
    <3>4. c[i + 1] = a[i + 1]
      BY <1>7, <3>1
    <3>. QED
      BY <2>2, <3>1, <3>2, <3>3, <3>4
  <2>3. \A i \in 0 .. m : i \in S /\ i < m => i + 1 \in S
    BY <2>2
  <2>4. \A i \in 0 .. m : i \in S
    <3>. HIDE DEF S
    <3>. QED BY <1>1, <2>1, <2>3, Upwards
  <2>. QED
    BY <1>1, <2>4
<1>12. w[m + n] = h[n]
  <2>. DEFINE S == {i \in Nat : w[m + i] = h[i]}
  <2>1. 0 \in S
    BY <1>1, <1>4, <1>11 DEF WordsRead
  <2>2. ASSUME NEW i \in 0 .. n, i < n, i \in S
        PROVE  i + 1 \in S
    <3>1. i + 1 \in 0 .. n /\ i + 1 # 0 /\ (i + 1) - 1 = i /\ i + 1 \in Nat
      BY <1>1, <2>2
    <3>2. PICK j : j = m + i + 1
      OBVIOUS
    <3>3. j \in 1 .. m + n /\ j \in 0 .. m + n /\ ~(j <= m) /\ j - m = i + 1 /\ j - 1 = m + i
          /\ j # 0 /\ j = m + (i + 1)
      BY <1>1, <2>2, <3>2
    <3>4. h[i + 1] = IF b[i + 1] \in out THEN h[i] ELSE Append(h[i], b[i + 1])
      BY <1>4, <3>1 DEF WordsRead
    <3>5. w[j] = IF c[j] \in out THEN w[j - 1] ELSE Append(w[j - 1], c[j])
      BY <1>9, <3>3 DEF WordsRead
    <3>6. c[j] = b[i + 1] /\ w[j - 1] = h[i]
      BY <1>7, <2>2, <3>3
    <3>7. w[j] = h[i + 1]
      BY <3>4, <3>5, <3>6
    <3>. QED
      BY <3>1, <3>3, <3>7
  <2>3. \A i \in 0 .. n : i \in S /\ i < n => i + 1 \in S
    BY <2>2
  <2>4. \A i \in 0 .. n : i \in S
    <3>. HIDE DEF S
    <3>. QED BY <1>1, <2>1, <2>3, Upwards
  <2>. QED
    BY <1>1, <2>4
<1>13. Appended(list, <<>>, out) = list
  <2>1. <<>> \in Seq(Word) /\ Len(<<>>) = 0
    OBVIOUS
  <2>. DEFINE f == [i \in 0 .. 0 |-> list]
  <2>2. f = [i \in 0 .. 0 |-> IF i = 0 THEN list
                              ELSE IF <<>>[i] \in out THEN f[i - 1] ELSE Append(f[i - 1], <<>>[i])]
    OBVIOUS
  <2>3. f[0] = list
    OBVIOUS
  <2>. HIDE DEF f
  <2>4. WordsRead(list, <<>>, out, f, Len(<<>>))
    BY <2>1, <2>2 DEF WordsRead
  <2>5. Appended(list, <<>>, out) = f[Len(<<>>)]
    BY <2>1, <2>4, ReadValue, Zenon
  <2>. QED
    BY <2>1, <2>3, <2>5
<1>. QED
  BY <1>3, <1>5, <1>6, <1>10, <1>11, <1>12, <1>13

\* Two lines with servers are read as if they were one.
LEMMA ReadOnward ==
  ASSUME NEW list \in Seq(Word), NEW a \in Seq(Word), NEW b \in Seq(Word)
  PROVE  /\ ConfigNameserver(ConfigNameserver(list, a), b) = ConfigNameserver(list, a \o b)
         /\ ConfigNameserver(list, <<>>) = list
<1>1. PICK out : out = {"junk"}
  OBVIOUS
<1>2. \A l, w : ConfigNameserver(l, w) = Appended(l, w, out)
  BY <1>1 DEF ConfigNameserver
<1>. QED
  BY <1>2, AppendedOnward

\* Where no word is left out all of them stay.
LEMMA AllKept ==
  ASSUME NEW words \in Seq(Word), NEW out, ToSet(words) \cap out = {}
  PROVE  Appended(<<>>, words, out) = words
<1>1. /\ Len(words) \in Nat /\ DOMAIN words = 1 .. Len(words) /\ <<>> \in Seq(Word)
      /\ \A i \in 1 .. Len(words) : words[i] \in Word /\ words[i] \notin out
  <2>1. Len(words) \in Nat /\ DOMAIN words = 1 .. Len(words) /\ <<>> \in Seq(Word)
    OBVIOUS
  <2>2. \A i \in 1 .. Len(words) : words[i] \in Word
    BY ElementOfSeq
  <2>. QED
    BY <2>1, <2>2 DEF ToSet
<1>2. PICK g : WordsRead(<<>>, words, out, g, Len(words))
  BY <1>1, WordsCanBeRead
<1>3. Appended(<<>>, words, out) = g[Len(words)]
  BY <1>1, <1>2, ReadValue
<1>. DEFINE Copied(k) == g[k] \in Seq(Word) /\ Len(g[k]) = k /\ \A i \in 1 .. k : g[k][i] = words[i]
            S == {k \in Nat : Copied(k)}
<1>4. 0 \in S
  BY <1>1, <1>2 DEF WordsRead
<1>5. ASSUME NEW k \in 0 .. Len(words), k < Len(words), k \in S
      PROVE  k + 1 \in S
  <2>1. k + 1 \in 1 .. Len(words) /\ k + 1 \in 0 .. Len(words) /\ k + 1 # 0 /\ (k + 1) - 1 = k
        /\ k + 1 \in Nat /\ k \in Nat
    BY <1>1, <1>5
  <2>2. g[k + 1] = IF words[k + 1] \in out THEN g[k] ELSE Append(g[k], words[k + 1])
    BY <1>2, <2>1 DEF WordsRead
  <2>3. g[k + 1] = Append(g[k], words[k + 1]) /\ words[k + 1] \in Word
    BY <1>1, <2>1, <2>2
  <2>4. PICK s \in Seq(Word) : s = g[k] /\ Len(s) = k /\ \A i \in 1 .. k : s[i] = words[i]
    BY <1>5
  <2>5. PICK x \in Word : x = words[k + 1]
    BY <2>3
  <2>6. /\ Append(s, x) \in Seq(Word) /\ Len(Append(s, x)) = k + 1
        /\ \A i \in 1 .. k : Append(s, x)[i] = s[i]
        /\ Append(s, x)[k + 1] = x
    BY <2>1, <2>4, AppendProperties
  <2>7. \A i \in 1 .. k + 1 : i \in 1 .. k \/ i = k + 1
    BY <2>1
  <2>8. g[k + 1] = Append(s, x)
    BY <2>3, <2>4, <2>5
  <2>9. \A i \in 1 .. k + 1 : Append(s, x)[i] = words[i]
    BY <2>4, <2>5, <2>6, <2>7
  <2>. QED
    BY <2>1, <2>6, <2>8, <2>9
<1>6. \A k \in 0 .. Len(words) : k \in S /\ k < Len(words) => k + 1 \in S
  BY <1>5
<1>7. \A k \in 0 .. Len(words) : k \in S
  <2>. HIDE DEF S
  <2>. QED BY <1>1, <1>4, <1>6, Upwards
<1>8. Copied(Len(words))
  BY <1>1, <1>7
<1>. QED
  BY <1>1, <1>3, <1>8, SeqEqual, Zenon

\* The words of a line that has one of the keywords.
WordsOf(lines, keys, n) == IF lines[n].key \in keys THEN lines[n].words ELSE <<>>

\* g[n] are the words of the first n lines.
Collected(lines, keys, g, k) ==
  /\ g[0] = <<>>
  /\ \A n \in 0 .. k : g[n] \in Seq(Word)
  /\ \A n \in 1 .. k : g[n] = g[n - 1] \o WordsOf(lines, keys, n)

\* f[n] are the first n sequences put together, as FlattenSeq does it.
Flattened(ss, f, k) == f = [i \in 1 .. k |-> IF i = 1 THEN ss[i] ELSE f[i - 1] \o ss[i]]

LEMMA CanBeFlattened ==
  ASSUME NEW ss, NEW len \in Nat
  PROVE  \E f : Flattened(ss, f, len)
<1>. DEFINE S == {k \in Nat : \E f : Flattened(ss, f, k)}
<1>1. 0 \in S
  <2>. DEFINE f == [i \in 1 .. 0 |-> <<>>]
  <2>1. f = [i \in 1 .. 0 |-> IF i = 1 THEN ss[i] ELSE f[i - 1] \o ss[i]]
    OBVIOUS
  <2>. QED
    BY <2>1 DEF Flattened
<1>2. ASSUME NEW k \in 0 .. len, k \in S
      PROVE  k + 1 \in S
  <2>1. PICK f : Flattened(ss, f, k)
    BY <1>2
  <2>. DEFINE last == IF k = 0 THEN ss[k + 1] ELSE f[k] \o ss[k + 1]
              h == [i \in 1 .. k + 1 |-> IF i <= k THEN f[i] ELSE last]
  <2>2. \A i \in 1 .. k + 1 : h[i] = IF i = 1 THEN ss[i] ELSE h[i - 1] \o ss[i]
    <3>1. ASSUME NEW i \in 1 .. k
          PROVE  f[i] = IF i = 1 THEN ss[i] ELSE f[i - 1] \o ss[i]
      BY <2>1 DEF Flattened
    <3>2. \A i \in 1 .. k : h[i] = f[i] /\ (i # 1 => h[i - 1] = f[i - 1])
      OBVIOUS
    <3>3. h[k + 1] = last /\ (k # 0 => h[k] = f[k]) /\ (k + 1) - 1 = k /\ (k + 1 = 1 <=> k = 0)
      OBVIOUS
    <3>. HIDE DEF h
    <3>4. h[k + 1] = IF k + 1 = 1 THEN ss[k + 1] ELSE h[(k + 1) - 1] \o ss[k + 1]
      BY <3>3
    <3>5. \A i \in 1 .. k + 1 : i \in 1 .. k \/ i = k + 1
      BY <1>2
    <3>. QED
      BY <3>1, <3>2, <3>4, <3>5
  <2>3. h = [i \in 1 .. k + 1 |-> IF i = 1 THEN ss[i] ELSE h[i - 1] \o ss[i]]
    BY <2>2
  <2>. HIDE DEF h
  <2>4. Flattened(ss, h, k + 1)
    BY <2>3, Zenon DEF Flattened
  <2>. QED
    BY <2>4
<1>3. \A k \in 0 .. len : k \in S /\ k < len => k + 1 \in S
  BY <1>2
<1>4. \A k \in 0 .. len : k \in S
  <2>. HIDE DEF S
  <2>. QED BY <1>1, <1>3, Upwards
<1>. QED
  BY <1>4

LEMMA CollectedIs ==
  ASSUME NEW lines \in Seq([key : STRING, words : Seq(Word)]), NEW keys
  PROVE  \E g : /\ Collected(lines, keys, g, Len(lines))
                /\ FlattenSeq([i \in DOMAIN lines |-> WordsOf(lines, keys, i)]) = g[Len(lines)]
<1>. DEFINE ss == [i \in DOMAIN lines |-> WordsOf(lines, keys, i)]
            len == Len(lines)
<1>1. len \in Nat /\ DOMAIN lines = 1 .. len
  OBVIOUS
<1>2. ASSUME NEW i \in 1 .. len
      PROVE  ss[i] = WordsOf(lines, keys, i) /\ ss[i] \in Seq(Word)
  <2>1. lines[i] \in [key : STRING, words : Seq(Word)]
    BY <1>2, ElementOfSeq
  <2>. QED
    BY <1>1, <2>1 DEF WordsOf
<1>3. ss \in Seq(Seq(Word)) /\ Len(ss) = len
  BY <1>1, <1>2
<1>4. PICK f : Flattened(ss, f, len)
  BY <1>1, CanBeFlattened
<1>. HIDE DEF ss
<1>5. CASE len = 0
  <2>1. FlattenSeq(ss) = ss /\ ss = <<>>
    BY <1>3, <1>5 DEF FlattenSeq
  <2>. DEFINE g == [n \in 0 .. 0 |-> <<>>]
  <2>2. Collected(lines, keys, g, len) /\ g[len] = <<>>
    BY <1>5 DEF Collected
  <2>. QED
    BY <2>1, <2>2 DEF ss
<1>6. CASE len # 0
  <2>1. PICK u : Flattened(ss, u, Len(ss)) /\ FlattenSeq(ss) = u[Len(ss)]
    <3>1. \E u : Flattened(ss, u, Len(ss))
      BY <1>3, <1>4
    <3>2. Len(ss) # 0
      BY <1>3, <1>6
    <3>. QED
      BY <3>1, <3>2, Zenon DEF FlattenSeq, Flattened
  <2>2. \A i \in 1 .. len : u[i] = IF i = 1 THEN ss[i] ELSE u[i - 1] \o ss[i]
    BY <1>3, <2>1 DEF Flattened
  <2>. DEFINE g == [n \in 0 .. len |-> IF n = 0 THEN <<>> ELSE u[n]]
              S == {n \in Nat : g[n] \in Seq(Word)}
  <2>3. g[0] = <<>> /\ g[len] = u[len] /\ \A n \in 1 .. len : g[n] = u[n]
    BY <1>1, <1>6
  <2>4. \A n \in 1 .. len : ss[n] \in Seq(Word) /\ ss[n] = WordsOf(lines, keys, n)
    BY <1>2
  <2>5. ASSUME NEW n \in 1 .. len
        PROVE  g[n] = g[n - 1] \o ss[n]
    <3>1. CASE n = 1
      <4>1. g[1] = ss[1] /\ g[1 - 1] = <<>> /\ ss[1] \in Seq(Word)
        BY <2>2, <2>3, <2>4, <3>1
      <4>2. <<>> \o ss[1] = ss[1]
        BY <4>1
      <4>. QED
        BY <3>1, <4>1, <4>2
    <3>2. CASE n # 1
      <4>1. n - 1 \in 1 .. len
        BY <1>1, <3>2
      <4>. QED
        BY <2>2, <2>3, <3>2, <4>1
    <3>. QED
      BY <3>1, <3>2
  <2>. HIDE DEF g
  <2>6. 0 \in S
    <3>1. <<>> \in Seq(Word)
      OBVIOUS
    <3>. QED
      BY <2>3, <3>1
  <2>7. ASSUME NEW k \in 0 .. len, k < len, k \in S
        PROVE  k + 1 \in S
    <3>1. k + 1 \in 1 .. len /\ (k + 1) - 1 = k /\ k + 1 \in Nat
      BY <1>1, <2>7
    <3>2. g[k + 1] = g[k] \o ss[k + 1]
      BY <2>5, <3>1
    <3>3. ss[k + 1] \in Seq(Word) /\ g[k] \in Seq(Word)
      BY <2>4, <2>7, <3>1
    <3>4. g[k] \o ss[k + 1] \in Seq(Word)
      BY <3>3, Joining
    <3>. QED
      BY <3>1, <3>2, <3>4
  <2>8. \A k \in 0 .. len : k \in S /\ k < len => k + 1 \in S
    BY <2>7
  <2>9. \A n \in 0 .. len : n \in S
    <3>. HIDE DEF S
    <3>. QED BY <1>1, <2>6, <2>8, Upwards
  <2>10. Collected(lines, keys, g, len)
    BY <2>3, <2>4, <2>5, <2>9 DEF Collected
  <2>. QED
    BY <1>3, <2>1, <2>3, <2>10 DEF ss
<1>. QED
  BY <1>1, <1>5, <1>6

-----------------------------------------------------------------------------
(* What reading resolv.conf makes of a channel when nothing fails *)

\* A scalar that no earlier source set comes from an options line.
Filled(c, f, options) ==
  IF c.scalar[f] # "unset" THEN c.scalar[f]
  ELSE IF f \in Textual /\ f \in ToSet(options) THEN "file" ELSE "unset"

\* What is known after lines with these words of each keyword.
ReadSoFar(c, r, servers, options, lookup, search, sortlist) ==
  /\ r.status = "SUCCESS"
  /\ \A f \in Scalar : r.c.scalar[f] = Filled(c, f, options)
  /\ r.c.servers = c.servers /\ r.c.sortlist = c.sortlist
  /\ r.c.primary = c.primary /\ r.c.optRotate = c.optRotate
  /\ r.servers = IF c.servers.given THEN <<>> ELSE ConfigNameserver(<<>>, servers)
  /\ r.sortlist = IF c.sortlist.given THEN <<>> ELSE sortlist
  /\ IF search = <<>> THEN r.c.domains = c.domains
     ELSE /\ r.c.domains = Given(r.c.domains.list)
          /\ ToSet(r.c.domains.list) \subseteq ToSet(search)
  /\ IF c.lookups.given \/ lookup = <<>> THEN r.c.lookups = c.lookups ELSE r.c.lookups.given

\* What one line adds to the words of each keyword.
Added(line) == [key \in {"nameserver", "options", "lookup", "search", "sortlist"} |->
                  IF line.key = key \/ (key = "search" /\ line.key = "domain")
                  THEN line.words ELSE <<>>]

LEMMA LineRead ==
  ASSUME NEW set, NEW c, NEW r, Shaped(c, set), Reading(r, set),
         NEW line \in [key : STRING, words : Seq(Word)],
         line.key \in {"domain", "search", "lookup"} => line.words # <<>>,
         NEW servers \in Seq(Word), NEW options \in Seq(Word), NEW lookup \in Seq(Word),
         NEW search \in Seq(Word), NEW sortlist \in Seq(Word),
         ReadSoFar(c, r, servers, options, lookup, search, sortlist)
  PROVE  ReadSoFar(c, ConfLine(r, line, "none"), servers \o Added(line)["nameserver"],
                   options \o Added(line)["options"], lookup \o Added(line)["lookup"],
                   search \o Added(line)["search"], sortlist \o Added(line)["sortlist"])
<1>. SUFFICES ASSUME NEW W, W = Added(line)
     PROVE  ReadSoFar(c, ConfLine(r, line, "none"), servers \o W["nameserver"],
                      options \o W["options"], lookup \o W["lookup"], search \o W["search"],
                      sortlist \o W["sortlist"])
  OBVIOUS
<1>0. W = [key \in {"nameserver", "options", "lookup", "search", "sortlist"} |->
             IF line.key = key \/ (key = "search" /\ line.key = "domain")
             THEN line.words ELSE <<>>]
  BY DEF Added
<1>1. line.words \in Seq(Word) /\ Shaped(r.c, set) /\ <<>> \in Seq(Word)
  BY DEF Reading
<1>2. \A list \in Seq(Word) : list \o <<>> = list
  BY Joining
<1>3. CASE line.key \in {"domain", "search"}
  <2>1. PICK words \in Seq(Word) : /\ words = IF line.key = "domain" THEN <<Head(line.words)>> ELSE line.words
                                   /\ ToSet(words) \subseteq ToSet(line.words)
    <3>1. CASE line.key = "domain"
      <4>1. line.words # <<>> /\ Head(line.words) = line.words[1] /\ 1 \in DOMAIN line.words
            /\ line.words[1] \in Word
        BY <1>1, <3>1
      <4>2. <<line.words[1]>> \in Seq(Word) /\ ToSet(<<line.words[1]>>) = {line.words[1]}
        BY <4>1 DEF ToSet
      <4>. QED
        BY <3>1, <4>1, <4>2 DEF ToSet
    <3>2. CASE line.key # "domain"
      BY <1>1, <3>2
    <3>. QED
      BY <3>1, <3>2
  <2>2. PICK x : x = [r EXCEPT !.c = SetSearch(@, words, "none")]
    OBVIOUS
  <2>3. ConfLine(r, line, "none") = x
    BY <1>3, <2>1, <2>2 DEF ConfLine, ReadSoFar
  <2>4. /\ x.c.domains = Given(words)
        /\ \A f \in Fields \ {"domains", "array"} : x.c[f] = r.c[f]
        /\ \A f \in {"servers", "sortlist", "status"} : x[f] = r[f]
    <3>1. /\ x.c = SetSearch(r.c, words, "none")
          /\ \A f \in {"servers", "sortlist", "status"} : x[f] = r[f]
      BY <2>2 DEF Reading
    <3>2. SetSearch(r.c, words, "none") = [r.c EXCEPT !.domains = Given(words), !.array = words # <<>>]
      BY DEF SetSearch
    <3>. QED
      BY <1>1, <3>1, <3>2 DEF Shaped, Fields
  <2>5. W["nameserver"] = <<>> /\ W["options"] = <<>> /\ W["lookup"] = <<>> /\ W["sortlist"] = <<>>
        /\ W["search"] = line.words /\ line.words # <<>>
    BY <1>0, <1>3
  <2>6. search \o line.words # <<>> /\ ToSet(words) \subseteq ToSet(search \o line.words)
    <3>1. /\ (search \o line.words = <<>>) <=> (search = <<>> /\ line.words = <<>>)
          /\ ToSet(search \o line.words) = ToSet(search) \cup ToSet(line.words)
      BY <1>1, Joining
    <3>. QED
      BY <2>1, <2>5, <3>1
  <2>7. x.c.domains = Given(x.c.domains.list) /\ x.c.domains.list = words
    BY <2>4 DEF Given
  <2>8. /\ x.c.scalar = r.c.scalar /\ x.c.servers = r.c.servers /\ x.c.sortlist = r.c.sortlist
        /\ x.c.lookups = r.c.lookups /\ x.c.primary = r.c.primary /\ x.c.optRotate = r.c.optRotate
        /\ x.servers = r.servers /\ x.sortlist = r.sortlist /\ x.status = r.status
    BY <2>4 DEF Fields
  <2>9. ReadSoFar(c, x, servers, options, lookup, search \o line.words, sortlist)
    BY <2>6, <2>7, <2>8 DEF ReadSoFar
  <2>. QED
    BY <1>2, <2>3, <2>5, <2>9
<1>4. CASE line.key = "lookup"
  <2>1. W["nameserver"] = <<>> /\ W["options"] = <<>> /\ W["search"] = <<>> /\ W["sortlist"] = <<>>
        /\ W["lookup"] = line.words /\ line.words # <<>> /\ lookup \o line.words # <<>>
    BY <1>0, <1>1, <1>4, Joining
  <2>2. CASE r.c.lookups.given
    <3>1. ConfLine(r, line, "none") = r
      BY <1>4, <2>2 DEF ConfLine, ReadSoFar
    <3>. QED
      BY <1>2, <2>1, <2>2, <3>1 DEF ReadSoFar
  <2>3. CASE ~r.c.lookups.given
    <3>1. PICK l : l = ConfigLookup(line.words, "b", "f") /\ l.given
      <4>1. \A v : Given(v).given
        BY DEF Given
      <4>. QED
        BY <4>1, Zenon DEF ConfigLookup
    <3>2. PICK x : x = [r EXCEPT !.c.lookups = l]
      OBVIOUS
    <3>3. ConfLine(r, line, "none") = x
      BY <1>4, <2>3, <3>1, <3>2 DEF ConfLine, ReadSoFar
    <3>4. /\ x.c.lookups = l
          /\ \A f \in Fields \ {"lookups"} : x.c[f] = r.c[f]
          /\ \A f \in {"servers", "sortlist", "status"} : x[f] = r[f]
      BY <1>1, <3>2 DEF Reading, Shaped, Fields
    <3>5. /\ x.c.scalar = r.c.scalar /\ x.c.servers = r.c.servers /\ x.c.sortlist = r.c.sortlist
          /\ x.c.domains = r.c.domains /\ x.c.lookups.given
          /\ x.c.primary = r.c.primary /\ x.c.optRotate = r.c.optRotate
          /\ x.servers = r.servers /\ x.sortlist = r.sortlist /\ x.status = r.status
      BY <3>1, <3>4 DEF Fields
    <3>6. ~(c.lookups.given \/ lookup \o line.words = <<>>)
      <4>1. IF c.lookups.given \/ lookup = <<>> THEN r.c.lookups = c.lookups ELSE r.c.lookups.given
        BY DEF ReadSoFar
      <4>. QED
        BY <2>1, <2>3, <4>1
    <3>7. ReadSoFar(c, x, servers, options, lookup \o line.words, search, sortlist)
      BY <3>5, <3>6 DEF ReadSoFar
    <3>. QED
      BY <1>2, <2>1, <3>3, <3>7
  <2>. QED
    BY <2>2, <2>3
<1>5. CASE line.key = "nameserver"
  <2>1. W["lookup"] = <<>> /\ W["options"] = <<>> /\ W["search"] = <<>> /\ W["sortlist"] = <<>>
        /\ W["nameserver"] = line.words
    BY <1>0, <1>5
  <2>2. CASE c.servers.given
    <3>1. ConfLine(r, line, "none") = r
      BY <1>5, <2>2 DEF ConfLine, ReadSoFar
    <3>. QED
      BY <1>2, <2>1, <2>2, <3>1 DEF ReadSoFar
  <2>3. CASE ~c.servers.given
    <3>1. PICK x : x = [r EXCEPT !.servers = ConfigNameserver(@, line.words)]
      OBVIOUS
    <3>2. ConfLine(r, line, "none") = x
      BY <1>5, <2>3, <3>1 DEF ConfLine, ReadSoFar
    <3>3. /\ x.servers = ConfigNameserver(r.servers, line.words)
          /\ \A f \in {"c", "sortlist", "status"} : x[f] = r[f]
      BY <3>1 DEF Reading
    <3>4. x.servers = ConfigNameserver(<<>>, servers \o line.words)
      <4>1. r.servers = ConfigNameserver(<<>>, servers)
        BY <2>3 DEF ReadSoFar
      <4>2. ConfigNameserver(ConfigNameserver(<<>>, servers), line.words)
              = ConfigNameserver(<<>>, servers \o line.words)
        <5>1. \A list, a, b \in Seq(Word) :
                ConfigNameserver(ConfigNameserver(list, a), b) = ConfigNameserver(list, a \o b)
          BY ReadOnward
        <5>2. PICK words \in Seq(Word) : words = line.words
          BY <1>1
        <5>3. PICK none \in Seq(Word) : none = <<>>
          BY <1>1
        <5>4. ConfigNameserver(ConfigNameserver(none, servers), words)
                = ConfigNameserver(none, servers \o words)
          BY <5>1
        <5>. QED
          BY <5>2, <5>3, <5>4
      <4>. QED
        BY <3>3, <4>1, <4>2
    <3>. QED
      BY <1>2, <2>1, <2>3, <3>2, <3>3, <3>4 DEF ReadSoFar
  <2>. QED
    BY <2>2, <2>3
<1>6. CASE line.key = "sortlist"
  <2>1. W["lookup"] = <<>> /\ W["options"] = <<>> /\ W["search"] = <<>> /\ W["nameserver"] = <<>>
        /\ W["sortlist"] = line.words
    BY <1>0, <1>6
  <2>2. CASE c.sortlist.given
    <3>1. ConfLine(r, line, "none") = r
      BY <1>6, <2>2 DEF ConfLine, ReadSoFar
    <3>. QED
      BY <1>2, <2>1, <2>2, <3>1 DEF ReadSoFar
  <2>3. CASE ~c.sortlist.given
    <3>1. PICK x : x = [r EXCEPT !.sortlist = @ \o line.words]
      OBVIOUS
    <3>2. ConfLine(r, line, "none") = x
      BY <1>6, <2>3, <3>1 DEF ConfLine, ReadSoFar
    <3>3. /\ x.sortlist = r.sortlist \o line.words
          /\ \A f \in {"c", "servers", "status"} : x[f] = r[f]
      BY <3>1 DEF Reading
    <3>4. r.sortlist = sortlist
      BY <2>3 DEF ReadSoFar
    <3>5. /\ x.c = r.c /\ x.servers = r.servers /\ x.status = r.status
          /\ x.sortlist = sortlist \o line.words
      BY <3>3, <3>4
    <3>6. ReadSoFar(c, x, servers, options, lookup, search, sortlist \o line.words)
      BY <2>3, <3>5 DEF ReadSoFar
    <3>7. /\ servers \o W["nameserver"] = servers /\ options \o W["options"] = options
          /\ lookup \o W["lookup"] = lookup /\ search \o W["search"] = search
          /\ sortlist \o W["sortlist"] = sortlist \o line.words
      BY <1>2, <2>1
    <3>. QED
      BY <3>2, <3>6, <3>7
  <2>. QED
    BY <2>2, <2>3
<1>7. CASE line.key = "options"
  <2>1. W["lookup"] = <<>> /\ W["sortlist"] = <<>> /\ W["search"] = <<>> /\ W["nameserver"] = <<>>
        /\ W["options"] = line.words
    BY <1>0, <1>7
  <2>2. PICK x : x = [r EXCEPT !.c = SetOptions(@, ToSet(line.words), "file")]
    OBVIOUS
  <2>3. ConfLine(r, line, "none") = x
    BY <1>7, <2>2 DEF ConfLine, ReadSoFar
  <2>. DEFINE values == [f \in Scalar |-> IF f \in ToSet(line.words) \cap Textual THEN "file" ELSE "unset"]
  <2>4. x.c = Scalars(r.c, values) /\ \A f \in {"servers", "sortlist", "status"} : x[f] = r[f]
    BY <2>2 DEF Reading, SetOptions
  <2>5. /\ \A f \in Scalar : Scalars(r.c, values).scalar[f]
                               = IF r.c.scalar[f] = "unset" THEN values[f] ELSE r.c.scalar[f]
        /\ \A f \in Fields \ {"scalar"} : Scalars(r.c, values)[f] = r.c[f]
    BY <1>1, ScalarsAre
  <2>6. ASSUME NEW f \in Scalar
        PROVE  x.c.scalar[f] = Filled(c, f, options \o line.words)
    <3>1. r.c.scalar[f] = Filled(c, f, options)
      BY DEF ReadSoFar
    <3>2. x.c.scalar[f] = IF r.c.scalar[f] = "unset" THEN values[f] ELSE r.c.scalar[f]
      BY <2>4, <2>5
    <3>3. f \in ToSet(options \o line.words) <=> f \in ToSet(options) \/ f \in ToSet(line.words)
      BY <1>1, Joining
    <3>4. values[f] = IF f \in ToSet(line.words) /\ f \in Textual THEN "file" ELSE "unset"
      OBVIOUS
    <3>. HIDE DEF values
    <3>. QED
      BY <3>1, <3>2, <3>3, <3>4 DEF Filled
  <2>. HIDE DEF values
  <2>7. /\ x.c.servers = r.c.servers /\ x.c.sortlist = r.c.sortlist
        /\ x.c.domains = r.c.domains /\ x.c.lookups = r.c.lookups
        /\ x.c.primary = r.c.primary /\ x.c.optRotate = r.c.optRotate
        /\ x.servers = r.servers /\ x.sortlist = r.sortlist /\ x.status = r.status
    BY <2>4, <2>5 DEF Fields
  <2>8. ReadSoFar(c, x, servers, options \o line.words, lookup, search, sortlist)
    BY <2>6, <2>7 DEF ReadSoFar
  <2>. QED
    BY <1>2, <2>1, <2>3, <2>8
<1>8. CASE line.key \notin {"domain", "search", "lookup", "nameserver", "sortlist", "options"}
  <2>1. \A key \in {"nameserver", "options", "lookup", "search", "sortlist"} : W[key] = <<>>
    BY <1>0, <1>8
  <2>2. ConfLine(r, line, "none") = r
    BY <1>8 DEF ConfLine, ReadSoFar
  <2>. QED
    BY <1>2, <2>1, <2>2
<1>. QED
  BY <1>3, <1>4, <1>5, <1>6, <1>7, <1>8

\* All words of the lines with one of the keywords.
AllWords(lines, keys) == FlattenSeq([i \in DOMAIN lines |-> WordsOf(lines, keys, i)])

LEMMA NothingRead ==
  ASSUME NEW set, NEW c, Shaped(c, set)
  PROVE  ReadSoFar(c, Reader(c), <<>>, <<>>, <<>>, <<>>, <<>>)
<1>1. ToSet(<<>>) = {}
  BY DEF ToSet
<1>2. ConfigNameserver(<<>>, <<>>) = <<>>
  <2>1. <<>> \in Seq(Word)
    OBVIOUS
  <2>. QED
    BY <2>1, ReadOnward
<1>3. ASSUME NEW f \in Scalar PROVE c.scalar[f] = Filled(c, f, <<>>)
  BY <1>1 DEF Filled
<1>4. /\ Reader(c).c = c /\ Reader(c).status = "SUCCESS"
      /\ Reader(c).servers = <<>> /\ Reader(c).sortlist = <<>>
  BY DEF Reader
<1>. QED
  BY <1>2, <1>3, <1>4 DEF ReadSoFar

LEMMA ResolvConfSays ==
  ASSUME NEW set, NEW c, Shaped(c, set), NEW file, file.open # "denied",
         file.lines \in Seq([key : STRING, words : Seq(Word)]),
         \A i \in DOMAIN file.lines :
           file.lines[i].key \in {"domain", "search", "lookup"} => file.lines[i].words # <<>>
  PROVE  \E r : /\ ResolvConf(c, file, "none") = [r EXCEPT !.status = "EOF"]
                /\ Reading(r, set)
                /\ ReadSoFar(c, r, AllWords(file.lines, {"nameserver"}),
                             AllWords(file.lines, {"options"}), AllWords(file.lines, {"lookup"}),
                             AllWords(file.lines, {"domain", "search"}),
                             AllWords(file.lines, {"sortlist"}))
<1>1. PICK lines \in Seq([key : STRING, words : Seq(Word)]) : lines = file.lines
  OBVIOUS
<1>2. PICK len \in Nat : len = Len(lines) /\ DOMAIN lines = 1 .. len
  BY <1>1
<1>3. \A n \in 1 .. len : /\ lines[n] \in [key : STRING, words : Seq(Word)]
                          /\ lines[n].key \in {"domain", "search", "lookup"} => lines[n].words # <<>>
  BY <1>1, <1>2, ElementOfSeq
<1>4. PICK g : /\ LinesRead(Reader(c), lines, "none", g, len)
               /\ ResolvConf(c, file, "none") = AtEnd(g[len])
  <2>1. PICK start : start = Opened(Reader(c), file) /\ start = Reader(c)
    BY DEF Opened
  <2>2. \E g : LinesRead(start, file.lines, "none", g, Len(file.lines))
    BY <1>1, <1>2, LinesCanBeRead
  <2>3. PICK g : /\ LinesRead(start, file.lines, "none", g, Len(file.lines))
                 /\ ResolvConf(c, file, "none") = AtEnd(g[Len(file.lines)])
    BY <2>1, <2>2, Zenon DEF ResolvConf, LinesRead
  <2>. QED
    BY <1>1, <1>2, <2>1, <2>3
<1>5. ASSUME NEW keys
      PROVE  \E h : Collected(lines, keys, h, len) /\ AllWords(lines, keys) = h[len]
  BY <1>2, CollectedIs DEF AllWords
<1>6. PICK ns : Collected(lines, {"nameserver"}, ns, len) /\ AllWords(lines, {"nameserver"}) = ns[len]
  BY <1>5
<1>7. PICK op : Collected(lines, {"options"}, op, len) /\ AllWords(lines, {"options"}) = op[len]
  BY <1>5
<1>8. PICK lo : Collected(lines, {"lookup"}, lo, len) /\ AllWords(lines, {"lookup"}) = lo[len]
  BY <1>5
<1>9. PICK se : /\ Collected(lines, {"domain", "search"}, se, len)
                /\ AllWords(lines, {"domain", "search"}) = se[len]
  BY <1>5
<1>10. PICK so : Collected(lines, {"sortlist"}, so, len) /\ AllWords(lines, {"sortlist"}) = so[len]
  BY <1>5
<1>. DEFINE S == {k \in Nat : /\ Reading(g[k], set)
                              /\ ReadSoFar(c, g[k], ns[k], op[k], lo[k], se[k], so[k])}
<1>11. 0 \in S
  <2>1. g[0] = Reader(c)
    BY <1>4 DEF LinesRead
  <2>2. ns[0] = <<>> /\ op[0] = <<>> /\ lo[0] = <<>> /\ se[0] = <<>> /\ so[0] = <<>>
    BY <1>6, <1>7, <1>8, <1>9, <1>10 DEF Collected
  <2>3. Reading(Reader(c), set) /\ ReadSoFar(c, Reader(c), <<>>, <<>>, <<>>, <<>>, <<>>)
    BY ReaderReads, NothingRead
  <2>. QED
    BY <2>1, <2>2, <2>3
<1>12. ASSUME NEW k \in 0 .. len, k < len, k \in S
       PROVE  k + 1 \in S
  <2>1. k + 1 \in 1 .. len /\ k + 1 \in 0 .. len /\ k + 1 # 0 /\ (k + 1) - 1 = k /\ k + 1 \in Nat
    BY <1>12
  <2>2. PICK n : n = k + 1
    OBVIOUS
  <2>3. PICK line \in [key : STRING, words : Seq(Word)] :
          /\ line = lines[n]
          /\ line.key \in {"domain", "search", "lookup"} => line.words # <<>>
    BY <1>3, <2>1, <2>2
  <2>4. g[n] = ConfLine(g[k], line, "none")
    BY <1>4, <2>1, <2>2, <2>3 DEF LinesRead
  <2>5. Reading(g[k], set) /\ ReadSoFar(c, g[k], ns[k], op[k], lo[k], se[k], so[k])
    BY <1>12
  <2>6. Reading(g[n], set)
    BY <2>4, <2>5, ConfLineReads
  <2>7. /\ ns[k] \in Seq(Word) /\ op[k] \in Seq(Word) /\ lo[k] \in Seq(Word) /\ se[k] \in Seq(Word)
        /\ so[k] \in Seq(Word)
    BY <1>6, <1>7, <1>8, <1>9, <1>10 DEF Collected
  <2>8. PICK W : W = Added(line)
    OBVIOUS
  <2>9. ReadSoFar(c, ConfLine(g[k], line, "none"), ns[k] \o W["nameserver"], op[k] \o W["options"],
                  lo[k] \o W["lookup"], se[k] \o W["search"], so[k] \o W["sortlist"])
    <3>1. ASSUME NEW r, NEW u \in Seq(Word), NEW v \in Seq(Word), NEW w \in Seq(Word),
                 NEW x \in Seq(Word), NEW y \in Seq(Word),
                 Reading(r, set), ReadSoFar(c, r, u, v, w, x, y)
          PROVE  ReadSoFar(c, ConfLine(r, line, "none"), u \o W["nameserver"], v \o W["options"],
                           w \o W["lookup"], x \o W["search"], y \o W["sortlist"])
      BY <2>3, <2>8, <3>1, LineRead
    <3>. QED
      BY <2>5, <2>7, <3>1, Zenon
  <2>10. /\ ns[n] = ns[k] \o WordsOf(lines, {"nameserver"}, n)
         /\ op[n] = op[k] \o WordsOf(lines, {"options"}, n)
         /\ lo[n] = lo[k] \o WordsOf(lines, {"lookup"}, n)
         /\ se[n] = se[k] \o WordsOf(lines, {"domain", "search"}, n)
         /\ so[n] = so[k] \o WordsOf(lines, {"sortlist"}, n)
    BY <1>6, <1>7, <1>8, <1>9, <1>10, <2>1, <2>2 DEF Collected
  <2>11. /\ WordsOf(lines, {"nameserver"}, n) = W["nameserver"]
         /\ WordsOf(lines, {"options"}, n) = W["options"]
         /\ WordsOf(lines, {"lookup"}, n) = W["lookup"]
         /\ WordsOf(lines, {"domain", "search"}, n) = W["search"]
         /\ WordsOf(lines, {"sortlist"}, n) = W["sortlist"]
    BY <2>3, <2>8 DEF WordsOf, Added
  <2>12. ReadSoFar(c, g[n], ns[n], op[n], lo[n], se[n], so[n])
    BY <2>4, <2>9, <2>10, <2>11
  <2>. QED
    BY <2>1, <2>2, <2>6, <2>12
<1>13. \A k \in 0 .. len : k \in S /\ k < len => k + 1 \in S
  BY <1>12
<1>14. \A k \in 0 .. len : k \in S
  <2>. HIDE DEF S
  <2>. QED BY <1>11, <1>13, Upwards
<1>15. Reading(g[len], set) /\ ReadSoFar(c, g[len], ns[len], op[len], lo[len], se[len], so[len])
  BY <1>14
<1>16. ResolvConf(c, file, "none") = [g[len] EXCEPT !.status = "EOF"]
  <2>1. g[len].status = "SUCCESS"
    BY <1>15 DEF ReadSoFar
  <2>. QED
    BY <1>4, <1>15, <2>1 DEF AtEnd, Reading
<1>. QED
  BY <1>1, <1>6, <1>7, <1>8, <1>9, <1>10, <1>15, <1>16

\* A line changes the domains in the same way whatever the channel is.
LineDomains(line, domains) ==
  IF line.key = "domain" THEN Given(<<Head(line.words)>>)
  ELSE IF line.key = "search" THEN Given(line.words) ELSE domains

LEMMA DomainsOfLine ==
  ASSUME NEW set, NEW r, Reading(r, set), r.status = "SUCCESS",
         NEW line \in [key : STRING, words : Seq(Word)],
         line.key \in {"domain", "search", "lookup"} => line.words # <<>>,
         NEW x, x = ConfLine(r, line, "none")
  PROVE  x.status = "SUCCESS" /\ x.c.domains = LineDomains(line, r.c.domains)
<1>1. /\ DOMAIN r = {"c", "servers", "sortlist", "status"} /\ r = [f \in DOMAIN r |-> r[f]]
      /\ Shaped(r.c, set)
  BY DEF Reading
<1>2. ASSUME NEW words
      PROVE  /\ SetSearch(r.c, words, "none").domains = Given(words)
             /\ [r EXCEPT !.c = SetSearch(@, words, "none")].c = SetSearch(r.c, words, "none")
             /\ [r EXCEPT !.c = SetSearch(@, words, "none")].status = r.status
  BY <1>1 DEF SetSearch, Shaped, Fields
<1>3. CASE line.key = "domain"
  <2>1. x = [r EXCEPT !.c = SetSearch(@, <<Head(line.words)>>, "none")]
    BY <1>3 DEF ConfLine
  <2>. QED
    BY <1>2, <1>3, <2>1 DEF LineDomains
<1>4. CASE line.key = "search"
  <2>1. x = [r EXCEPT !.c = SetSearch(@, line.words, "none")]
    BY <1>4 DEF ConfLine
  <2>. QED
    BY <1>2, <1>4, <2>1 DEF LineDomains
<1>5. CASE line.key = "options"
  <2>1. PICK c : c = SetOptions(r.c, ToSet(line.words), "file")
    OBVIOUS
  <2>2. x = [r EXCEPT !.c = c]
    BY <1>5, <2>1 DEF ConfLine
  <2>3. x.c = c /\ x.status = r.status
    BY <1>1, <2>2
  <2>4. c.domains = r.c.domains
    BY <1>1, <2>1, ScalarsAre DEF SetOptions, Fields
  <2>. QED
    BY <1>5, <2>3, <2>4 DEF LineDomains
<1>6. CASE line.key = "lookup"
  <2>1. CASE ~r.c.lookups.given
    <3>1. PICK l : l = ConfigLookup(line.words, "b", "f")
      OBVIOUS
    <3>2. x = [r EXCEPT !.c.lookups = l]
      BY <1>6, <2>1, <3>1 DEF ConfLine
    <3>. QED
      BY <1>1, <1>6, <3>2 DEF LineDomains, Shaped, Fields
  <2>2. CASE r.c.lookups.given
    BY <1>6, <2>2 DEF ConfLine, LineDomains
  <2>. QED
    BY <2>1, <2>2
<1>7. CASE line.key = "nameserver"
  <2>1. x = r \/ x = [r EXCEPT !.servers = ConfigNameserver(@, line.words)]
    BY <1>7 DEF ConfLine
  <2>. QED
    BY <1>1, <1>7, <2>1 DEF LineDomains
<1>8. CASE line.key = "sortlist"
  <2>1. x = r \/ x = [r EXCEPT !.sortlist = @ \o line.words]
    BY <1>8 DEF ConfLine
  <2>. QED
    BY <1>1, <1>8, <2>1 DEF LineDomains
<1>9. CASE line.key \notin {"domain", "search", "options", "lookup", "nameserver", "sortlist"}
  BY <1>9 DEF ConfLine, LineDomains
<1>. QED
  BY <1>3, <1>4, <1>5, <1>6, <1>7, <1>8, <1>9

\* Two channels that read the same file have the same domains after a line
\* with domains.
LEMMA SameDomains ==
  ASSUME NEW set, NEW a, Shaped(a, set), NEW other, NEW b, Shaped(b, other),
         NEW file, file.open # "denied",
         file.lines \in Seq([key : STRING, words : Seq(Word)]),
         \A i \in DOMAIN file.lines :
           file.lines[i].key \in {"domain", "search", "lookup"} => file.lines[i].words # <<>>
  PROVE  \/ ResolvConf(a, file, "none").c.domains = ResolvConf(b, file, "none").c.domains
         \/ AllWords(file.lines, {"domain", "search"}) = <<>>
<1>1. PICK lines \in Seq([key : STRING, words : Seq(Word)]) : lines = file.lines
  OBVIOUS
<1>2. PICK len \in Nat : len = Len(lines) /\ DOMAIN lines = 1 .. len
  BY <1>1
<1>3. \A n \in 1 .. len : /\ lines[n] \in [key : STRING, words : Seq(Word)]
                          /\ lines[n].key \in {"domain", "search", "lookup"} => lines[n].words # <<>>
  BY <1>1, <1>2, ElementOfSeq
<1>4. ASSUME NEW x
      PROVE  \E g : /\ LinesRead(Reader(x), lines, "none", g, len)
                    /\ ResolvConf(x, file, "none") = AtEnd(g[len])
  <2>1. PICK start : start = Opened(Reader(x), file) /\ start = Reader(x)
    BY DEF Opened
  <2>2. \E g : LinesRead(start, file.lines, "none", g, Len(file.lines))
    BY <1>1, <1>2, LinesCanBeRead
  <2>3. PICK g : /\ LinesRead(start, file.lines, "none", g, Len(file.lines))
                 /\ ResolvConf(x, file, "none") = AtEnd(g[Len(file.lines)])
    BY <2>1, <2>2, Zenon DEF ResolvConf, LinesRead
  <2>. QED
    BY <1>1, <1>2, <2>1, <2>3
<1>5. PICK g : /\ LinesRead(Reader(a), lines, "none", g, len)
               /\ ResolvConf(a, file, "none") = AtEnd(g[len])
  BY <1>4
<1>6. PICK h : /\ LinesRead(Reader(b), lines, "none", h, len)
               /\ ResolvConf(b, file, "none") = AtEnd(h[len])
  BY <1>4
<1>7. PICK se : /\ Collected(lines, {"domain", "search"}, se, len)
                /\ AllWords(lines, {"domain", "search"}) = se[len]
  BY <1>2, CollectedIs DEF AllWords
<1>. DEFINE S == {k \in Nat : /\ Reading(g[k], set) /\ g[k].status = "SUCCESS"
                              /\ Reading(h[k], other) /\ h[k].status = "SUCCESS"
                              /\ (g[k].c.domains = h[k].c.domains \/ se[k] = <<>>)}
<1>8. 0 \in S
  <2>1. g[0] = Reader(a) /\ h[0] = Reader(b) /\ se[0] = <<>>
    BY <1>5, <1>6, <1>7 DEF LinesRead, Collected
  <2>2. /\ Reading(Reader(a), set) /\ Reading(Reader(b), other)
        /\ Reader(a).status = "SUCCESS" /\ Reader(b).status = "SUCCESS"
    BY ReaderReads DEF Reader
  <2>. QED
    BY <2>1, <2>2
<1>9. ASSUME NEW k \in 0 .. len, k < len, k \in S
      PROVE  k + 1 \in S
  <2>1. k + 1 \in 1 .. len /\ k + 1 \in 0 .. len /\ k + 1 # 0 /\ (k + 1) - 1 = k /\ k + 1 \in Nat
    BY <1>9
  <2>2. PICK n : n = k + 1
    OBVIOUS
  <2>3. PICK line \in [key : STRING, words : Seq(Word)] :
          /\ line = lines[n]
          /\ line.key \in {"domain", "search", "lookup"} => line.words # <<>>
    BY <1>3, <2>1, <2>2
  <2>4. g[n] = ConfLine(g[k], line, "none") /\ h[n] = ConfLine(h[k], line, "none")
    BY <1>5, <1>6, <2>1, <2>2, <2>3 DEF LinesRead
  <2>5. /\ Reading(g[k], set) /\ g[k].status = "SUCCESS"
        /\ Reading(h[k], other) /\ h[k].status = "SUCCESS"
        /\ g[k].c.domains = h[k].c.domains \/ se[k] = <<>>
    BY <1>9
  <2>6. Reading(g[n], set) /\ Reading(h[n], other)
    BY <2>4, <2>5, ConfLineReads
  <2>7. /\ g[n].status = "SUCCESS" /\ g[n].c.domains = LineDomains(line, g[k].c.domains)
        /\ h[n].status = "SUCCESS" /\ h[n].c.domains = LineDomains(line, h[k].c.domains)
    BY <2>3, <2>4, <2>5, DomainsOfLine
  <2>8. CASE line.key \in {"domain", "search"}
    BY <2>1, <2>2, <2>6, <2>7, <2>8 DEF LineDomains
  <2>9. CASE line.key \notin {"domain", "search"}
    <3>1. g[n].c.domains = g[k].c.domains /\ h[n].c.domains = h[k].c.domains
      BY <2>7, <2>9 DEF LineDomains
    <3>2. se[n] = se[k] \o <<>> /\ se[k] \in Seq(Word)
      BY <1>7, <2>1, <2>2, <2>3, <2>9 DEF Collected, WordsOf
    <3>3. se[n] = se[k]
      BY <3>2
    <3>. QED
      BY <2>1, <2>2, <2>5, <2>6, <2>7, <3>1, <3>3
  <2>. QED
    BY <2>8, <2>9
<1>10. \A k \in 0 .. len : k \in S /\ k < len => k + 1 \in S
  BY <1>9
<1>11. \A k \in 0 .. len : k \in S
  <2>. HIDE DEF S
  <2>. QED BY <1>8, <1>10, Upwards
<1>12. /\ Reading(g[len], set) /\ g[len].status = "SUCCESS"
       /\ Reading(h[len], other) /\ h[len].status = "SUCCESS"
       /\ g[len].c.domains = h[len].c.domains \/ se[len] = <<>>
  BY <1>11
<1>13. ASSUME NEW any, NEW r, Reading(r, any), r.status = "SUCCESS"
       PROVE  AtEnd(r).c = r.c
  BY <1>13 DEF AtEnd, Reading
<1>14. AtEnd(g[len]).c = g[len].c /\ AtEnd(h[len]).c = h[len].c
  BY <1>12, <1>13
<1>. QED
  BY <1>1, <1>5, <1>6, <1>7, <1>12, <1>14

-----------------------------------------------------------------------------
(* What reading the files makes of a channel when nothing fails *)

\* Two states of init_by_resolv_conf that differ in the order of lookups and
\* the status only.
AllButLookups(r, x) ==
  /\ x.servers = r.servers /\ x.sortlist = r.sortlist
  /\ \A f \in Fields \ {"lookups"} : x.c[f] = r.c[f]

LEMMA OrderFileSays ==
  ASSUME NEW set, NEW r, Reading(r, set), r.status = "EOF", NEW file, NEW bindch, NEW filech,
         NEW x, x = OrderFile(r, file, bindch, filech, "none")
  PROVE  /\ Reading(x, set) /\ AllButLookups(r, x)
         /\ r.c.lookups.given => x = r
         /\ ~r.c.lookups.given =>
              IF file.open = "denied" THEN x.status = "EFILE"
              ELSE /\ x.status = "EOF"
                   /\ IF file.lines = <<>> THEN x.c.lookups = r.c.lookups ELSE x.c.lookups.given
<1>1. Reading(x, set)
  BY OrderFileReads
<1>2. CASE r.c.lookups.given
  BY <1>1, <1>2 DEF OrderFile, AllButLookups
<1>3. CASE ~r.c.lookups.given /\ file.open = "denied"
  <2>1. x = [r EXCEPT !.status = "EFILE"]
    BY <1>3 DEF OrderFile
  <2>. QED
    BY <1>1, <1>3, <2>1 DEF AllButLookups, Reading
<1>4. CASE ~r.c.lookups.given /\ file.open # "denied" /\ file.lines = <<>>
  BY <1>1, <1>4 DEF OrderFile, AllButLookups
<1>5. CASE ~r.c.lookups.given /\ file.open # "denied" /\ file.lines # <<>>
  <2>1. PICK l : l = ConfigLookup(file.lines[1].words, bindch, filech) /\ l.given
    <3>1. \A v : Given(v).given
      BY DEF Given
    <3>. QED
      BY <3>1, Zenon DEF ConfigLookup
  <2>2. x = [r EXCEPT !.c.lookups = l]
    BY <1>5, <2>1 DEF OrderFile
  <2>3. /\ x.c = [r.c EXCEPT !.lookups = l] /\ x.status = r.status
        /\ x.servers = r.servers /\ x.sortlist = r.sortlist
    BY <2>2 DEF Reading
  <2>4. x.c.lookups = l /\ \A f \in Fields \ {"lookups"} : x.c[f] = r.c[f]
    BY <2>3 DEF Reading, Shaped, Fields
  <2>. QED
    BY <1>1, <1>5, <2>1, <2>3, <2>4 DEF AllButLookups
<1>. QED
  BY <1>2, <1>3, <1>4, <1>5

\* Of the three files the first that has a line or cannot be opened decides.
LEMMA OrderFilesSay ==
  ASSUME NEW set, NEW r, Reading(r, set), r.status = "EOF", NEW z,
         z = OrderFile(OrderFile(OrderFile(r, system.nsswitch, "d", "f", "none"),
                                 system.host, "b", "h", "none"),
                       system.svc, "b", "l", "none")
  PROVE  /\ Reading(z, set) /\ AllButLookups(r, z)
         /\ r.c.lookups.given => z = r
         /\ z.status = IF ~r.c.lookups.given /\ OrderDenied THEN "EFILE" ELSE "EOF"
<1>1. PICK x : x = OrderFile(r, system.nsswitch, "d", "f", "none")
  OBVIOUS
<1>2. PICK y : y = OrderFile(x, system.host, "b", "h", "none")
  OBVIOUS
<1>3. z = OrderFile(y, system.svc, "b", "l", "none")
  BY <1>1, <1>2
<1>4. OrderDenied <=>
        \/ system.nsswitch.open = "denied"
        \/ system.host.open = "denied" /\ system.nsswitch.lines = <<>>
        \/ system.svc.open = "denied" /\ system.nsswitch.lines = <<>> /\ system.host.lines = <<>>
  <2>1. /\ DOMAIN OrderFiles = 1 .. 3 /\ OrderFiles[1] = system.nsswitch
        /\ OrderFiles[2] = system.host /\ OrderFiles[3] = system.svc
    BY DEF OrderFiles
  <2>2. \A i \in 1 .. 3 : i = 1 \/ i = 2 \/ i = 3
    OBVIOUS
  <2>3. 1 .. 1 - 1 = {} /\ 1 .. 2 - 1 = {1} /\ 1 .. 3 - 1 = {1, 2} /\ {1, 2, 3} \subseteq 1 .. 3
    OBVIOUS
  <2>. HIDE DEF OrderFiles
  <2>. QED
    BY <2>1, <2>2, <2>3 DEF OrderDenied
<1>5. /\ Reading(x, set) /\ AllButLookups(r, x)
      /\ r.c.lookups.given => x = r
      /\ ~r.c.lookups.given =>
           IF system.nsswitch.open = "denied" THEN x.status = "EFILE"
           ELSE /\ x.status = "EOF"
                /\ IF system.nsswitch.lines = <<>> THEN x.c.lookups = r.c.lookups
                   ELSE x.c.lookups.given
  BY <1>1, OrderFileSays
<1>6. \A file, bindch, filech, w : w.status # "EOF" \/ w.c.lookups.given =>
                                     OrderFile(w, file, bindch, filech, "none") = w
  BY DEF OrderFile
<1>7. CASE x.status # "EOF" \/ x.c.lookups.given
  <2>1. y = x
    BY <1>2, <1>6, <1>7
  <2>2. z = x
    BY <1>3, <1>6, <1>7, <2>1
  <2>. QED
    BY <1>4, <1>5, <1>7, <2>2
<1>8. CASE x.status = "EOF" /\ ~x.c.lookups.given
  <2>1. ~r.c.lookups.given /\ system.nsswitch.open # "denied" /\ system.nsswitch.lines = <<>>
    BY <1>5, <1>8
  <2>2. /\ Reading(y, set) /\ AllButLookups(x, y)
        /\ IF system.host.open = "denied" THEN y.status = "EFILE"
           ELSE /\ y.status = "EOF"
                /\ IF system.host.lines = <<>> THEN y.c.lookups = x.c.lookups
                   ELSE y.c.lookups.given
    BY <1>2, <1>5, <1>8, OrderFileSays
  <2>3. AllButLookups(r, y)
    BY <1>5, <2>2 DEF AllButLookups
  <2>4. CASE y.status # "EOF" \/ y.c.lookups.given
    <3>1. z = y
      BY <1>3, <1>6, <2>4
    <3>. QED
      BY <1>4, <1>8, <2>1, <2>2, <2>3, <2>4, <3>1
  <2>5. CASE y.status = "EOF" /\ ~y.c.lookups.given
    <3>1. /\ Reading(z, set) /\ AllButLookups(y, z)
          /\ z.status = IF system.svc.open = "denied" THEN "EFILE" ELSE "EOF"
      BY <1>3, <2>2, <2>5, OrderFileSays
    <3>2. AllButLookups(r, z)
      BY <2>3, <3>1 DEF AllButLookups
    <3>3. system.host.open # "denied" /\ system.host.lines = <<>>
      BY <1>8, <2>2, <2>5
    <3>. QED
      BY <1>4, <2>1, <3>1, <3>2, <3>3
  <2>. QED
    BY <2>4, <2>5
<1>. QED
  BY <1>7, <1>8

\* One field of a channel changes, the others do not.
LEMMA OneField ==
  ASSUME NEW set, NEW c, Shaped(c, set), NEW f \in Fields, NEW v, NEW x, x = [c EXCEPT ![f] = v]
  PROVE  x[f] = v /\ \A g \in Fields \ {f} : x[g] = c[g]
BY DEF Shaped

\* A channel with these lists and, for each scalar, the source that gave it.
Lists(c, servers, domains, lookups, sortlist) ==
  c.servers = servers /\ c.domains = domains /\ c.lookups = lookups /\ c.sortlist = sortlist

LEMMA ByOptionsIs ==
  ASSUME NEW r, Wellformed(r), NEW c, c = ByOptions(Blank, r, "none")
  PROVE  /\ \A f \in Scalar : c.scalar[f] = r.scalar[f]
         /\ c.primary <=> r.primary /\ r.scalar["flags"] # "unset"
         /\ c.optRotate <=> r.scalar["rotate"] # "unset"
         /\ Lists(c, IF r.servers.given THEN r.servers ELSE Unset,
                  IF r.domains.given THEN r.domains ELSE Unset,
                  IF r.lookups.given THEN r.lookups ELSE Unset,
                  IF r.sortlist.list # <<>> THEN r.sortlist ELSE Unset)
<1>. DEFINE set == r.scalar
<1>1. PICK start : start = [Scalars(Blank, r.scalar) EXCEPT
                              !.primary = r.primary /\ r.scalar["flags"] # "unset"]
  OBVIOUS
<1>2. PICK s : s = OptionServers(start, r)
  OBVIOUS
<1>3. PICK d : d = OptionDomains(s, r, "none")
  OBVIOUS
<1>4. PICK l : l = OptionLookups(d, r)
  OBVIOUS
<1>5. PICK t : t = OptionSortlist(l, r)
  OBVIOUS
<1>6. c = [t EXCEPT !.optRotate = r.scalar["rotate"] # "unset"]
  BY <1>1, <1>2, <1>3, <1>4, <1>5, Zenon DEF ByOptions
<1>7. Wellformed(r)
  OBVIOUS
<1>8. /\ Shaped(start, set) /\ \A f \in Scalar : start.scalar[f] = r.scalar[f]
      /\ Lists(start, Unset, Unset, Unset, Unset)
      /\ start.primary <=> r.primary /\ r.scalar["flags"] # "unset"
  <2>1. /\ Shaped(Scalars(Blank, r.scalar), set)
        /\ \A f \in Scalar : Scalars(Blank, r.scalar).scalar[f] = r.scalar[f]
        /\ \A f \in Fields \ {"scalar"} : Scalars(Blank, r.scalar)[f] = Blank[f]
    BY FirstScalars
  <2>2. Lists(Blank, Unset, Unset, Unset, Unset)
    BY DEF Lists, Blank
  <2>3. PICK b \in BOOLEAN : b = (r.primary /\ r.scalar["flags"] # "unset")
    OBVIOUS
  <2>4. b <=> r.primary /\ r.scalar["flags"] # "unset"
    BY <2>3
  <2>. QED
    <3>1. PICK base : base = Scalars(Blank, r.scalar)
      OBVIOUS
    <3>2. start = [base EXCEPT !.primary = b]
      BY <1>1, <2>3, <3>1
    <3>3. Shaped(base, set) /\ \A f \in Scalar : base.scalar[f] = r.scalar[f]
      BY <2>1, <3>1
    <3>4. Shaped(start, set)
      BY <3>2, <3>3, SameServers
    <3>5. start.scalar = base.scalar /\ \A f \in {"servers", "domains", "lookups", "sortlist"} :
                                          start[f] = base[f]
      BY <3>2, <3>3 DEF Shaped, Fields
    <3>6. \A f \in {"servers", "domains", "lookups", "sortlist"} : base[f] = Blank[f]
      BY <2>1, <3>1 DEF Fields
    <3>7. start.primary <=> r.primary /\ r.scalar["flags"] # "unset"
      <4>1. start.primary = b
        BY <3>2, <3>3 DEF Shaped, Fields
      <4>. QED
        BY <2>4, <4>1
    <3>. QED
      BY <2>2, <3>3, <3>4, <3>5, <3>6, <3>7 DEF Lists
<1>9. ~Unset.given
  BY DEF Unset
<1>10. /\ Shaped(s, set) /\ s.scalar = start.scalar /\ s.primary = start.primary
       /\ Lists(s, IF r.servers.given THEN r.servers ELSE Unset, Unset, Unset, Unset)
  <2>1. CASE r.servers.given
    <3>1. s = [start EXCEPT !.servers = r.servers]
      BY <1>2, <1>8, <1>9, <2>1 DEF OptionServers, Lists
    <3>2. Shaped(s, set)
      BY <1>7, <1>8, <3>1, OtherServers DEF ListType, Wellformed
    <3>. QED
      BY <1>8, <2>1, <3>1, <3>2 DEF Lists, Shaped, Fields
  <2>2. CASE ~r.servers.given
    BY <1>2, <1>8, <2>2 DEF OptionServers
  <2>. QED
    BY <2>1, <2>2
<1>11. /\ Shaped(d, set) /\ d.scalar = start.scalar /\ d.primary = start.primary
       /\ Lists(d, s.servers, IF r.domains.given THEN r.domains ELSE Unset, Unset, Unset)
  <2>1. CASE r.domains.given
    <3>1. d = SetSearch(s, r.domains.list, "none")
      BY <1>3, <1>9, <1>10, <2>1 DEF OptionDomains, Lists
    <3>2. Shaped(d, set)
      BY <1>10, <3>1, SetSearchShaped
    <3>3. d = [s EXCEPT !.domains = Given(r.domains.list), !.array = r.domains.list # <<>>]
      BY <3>1 DEF SetSearch
    <3>4. Given(r.domains.list) = r.domains
      BY <1>7, <2>1 DEF Wellformed
    <3>. QED
      BY <1>10, <2>1, <3>2, <3>3, <3>4 DEF Lists, Shaped, Fields
  <2>2. CASE ~r.domains.given
    BY <1>3, <1>10, <2>2 DEF OptionDomains, Lists
  <2>. QED
    BY <2>1, <2>2
<1>12. /\ Shaped(l, set) /\ l.scalar = start.scalar /\ l.primary = start.primary
       /\ Lists(l, s.servers, d.domains, IF r.lookups.given THEN r.lookups ELSE Unset, Unset)
  <2>1. CASE r.lookups.given
    <3>1. l = [d EXCEPT !.lookups = r.lookups]
      BY <1>4, <1>9, <1>11, <2>1 DEF OptionLookups, Lists
    <3>2. Shaped(l, set)
      BY <1>11, <3>1, SameServers DEF Fields
    <3>. QED
      BY <1>11, <2>1, <3>1, <3>2 DEF Lists, Shaped, Fields
  <2>2. CASE ~r.lookups.given
    BY <1>4, <1>11, <2>2 DEF OptionLookups, Lists
  <2>. QED
    BY <2>1, <2>2
<1>13. /\ Shaped(t, set) /\ t.scalar = start.scalar /\ t.primary = start.primary
       /\ Lists(t, s.servers, d.domains, l.lookups,
                IF r.sortlist.list # <<>> THEN r.sortlist ELSE Unset)
  <2>1. CASE r.sortlist.list # <<>>
    <3>1. t = [l EXCEPT !.sortlist = r.sortlist]
      BY <1>5, <1>7, <1>9, <1>12, <2>1 DEF OptionSortlist, Lists, Wellformed
    <3>2. Shaped(t, set)
      BY <1>12, <3>1, SameServers DEF Fields
    <3>. QED
      BY <1>12, <2>1, <3>1, <3>2 DEF Lists, Shaped, Fields
  <2>2. CASE ~(r.sortlist.list # <<>>)
    BY <1>5, <1>12, <2>2 DEF OptionSortlist, Lists
  <2>. QED
    BY <2>1, <2>2
<1>14. /\ c.scalar = t.scalar /\ Lists(c, t.servers, t.domains, t.lookups, t.sortlist)
       /\ c.primary = t.primary
       /\ c.optRotate <=> r.scalar["rotate"] # "unset"
  <2>1. PICK b \in BOOLEAN : b = (r.scalar["rotate"] # "unset")
    OBVIOUS
  <2>2. b <=> r.scalar["rotate"] # "unset"
    BY <2>1
  <2>3. c = [t EXCEPT !.optRotate = b]
    BY <1>6, <2>1
  <2>4. /\ c.scalar = t.scalar /\ Lists(c, t.servers, t.domains, t.lookups, t.sortlist)
        /\ c.primary = t.primary /\ c.optRotate = b
    BY <1>13, <2>3 DEF Lists, Shaped, Fields
  <2>. QED
    BY <2>2, <2>4
<1>. QED
  BY <1>8, <1>10, <1>11, <1>12, <1>13, <1>14 DEF Lists

LEMMA AskedOfIs ==
  ASSUME NEW r, Wellformed(r), env \in Environments,
         NEW a, a = ByEnvironment(ByOptions(Blank, r, "none"), env, "none")
  PROVE  /\ Shaped(a, r.scalar)
         /\ \A f \in Scalar :
              a.scalar[f] = IF r.scalar[f] # "unset" THEN r.scalar[f]
                            ELSE IF f \in Textual /\ f \in env.options THEN "environment"
                                 ELSE "unset"
         /\ a.primary <=> r.primary /\ r.scalar["flags"] # "unset"
         /\ a.optRotate <=> r.scalar["rotate"] # "unset"
         /\ Lists(a, IF r.servers.given THEN r.servers ELSE Unset,
                  IF r.domains.given THEN r.domains
                  ELSE IF env.search.given THEN env.search ELSE Unset,
                  IF r.lookups.given THEN r.lookups ELSE Unset,
                  IF r.sortlist.list # <<>> THEN r.sortlist ELSE Unset)
<1>1. PICK c : c = ByOptions(Blank, r, "none")
  OBVIOUS
<1>2. Shaped(c, r.scalar) /\ Shaped(a, r.scalar)
  BY <1>1, ByOptionsShaped, ByEnvironmentShaped
<1>3. /\ \A f \in Scalar : c.scalar[f] = r.scalar[f]
      /\ c.primary <=> r.primary /\ r.scalar["flags"] # "unset"
      /\ c.optRotate <=> r.scalar["rotate"] # "unset"
      /\ Lists(c, IF r.servers.given THEN r.servers ELSE Unset,
               IF r.domains.given THEN r.domains ELSE Unset,
               IF r.lookups.given THEN r.lookups ELSE Unset,
               IF r.sortlist.list # <<>> THEN r.sortlist ELSE Unset)
  BY <1>1, ByOptionsIs
<1>4. PICK d : d = IF ~env.search.given \/ c.domains.given THEN c
                   ELSE SetSearch(c, env.search.list, "none")
  OBVIOUS
<1>5. a = SetOptions(d, env.options, "environment")
  BY <1>1, <1>4 DEF ByEnvironment
<1>6. c.domains.given <=> r.domains.given
  BY <1>3 DEF Lists, Unset
<1>7. /\ Shaped(d, r.scalar) /\ d.scalar = c.scalar
      /\ d.primary = c.primary /\ d.optRotate = c.optRotate
      /\ Lists(d, c.servers, IF r.domains.given THEN r.domains
                             ELSE IF env.search.given THEN env.search ELSE Unset,
               c.lookups, c.sortlist)
  <2>1. CASE ~env.search.given \/ r.domains.given
    BY <1>2, <1>3, <1>4, <1>6, <2>1 DEF Lists
  <2>2. CASE env.search.given /\ ~r.domains.given
    <3>1. d = SetSearch(c, env.search.list, "none")
      BY <1>4, <1>6, <2>2
    <3>2. Shaped(d, r.scalar)
      BY <1>2, <3>1, SetSearchShaped
    <3>3. d = [c EXCEPT !.domains = Given(env.search.list), !.array = env.search.list # <<>>]
      BY <3>1 DEF SetSearch
    <3>4. Given(env.search.list) = env.search
      BY <2>2, InputsAreWords DEF Given
    <3>. QED
      BY <1>2, <2>2, <3>2, <3>3, <3>4 DEF Lists, Shaped, Fields
  <2>. QED
    BY <2>1, <2>2
<1>8. PICK values : values = [f \in Scalar |-> IF f \in env.options \cap Textual THEN "environment"
                                              ELSE "unset"]
  OBVIOUS
<1>9. a = Scalars(d, values)
  BY <1>5, <1>8 DEF SetOptions
<1>10. /\ \A f \in Scalar : a.scalar[f] = IF d.scalar[f] = "unset" THEN values[f] ELSE d.scalar[f]
       /\ \A f \in Fields \ {"scalar"} : a[f] = d[f]
  BY <1>7, <1>9, ScalarsAre
<1>11. /\ Lists(a, d.servers, d.domains, d.lookups, d.sortlist)
       /\ a.primary = d.primary /\ a.optRotate = d.optRotate
  BY <1>10 DEF Lists, Fields
<1>. QED
  BY <1>2, <1>3, <1>7, <1>8, <1>10, <1>11 DEF Lists

\* What the options and the environment make of a channel.
Asked == ByEnvironment(ByOptions(Blank, request, "none"), env, "none")

LEMMA AskedIs ==
  ASSUME request \in Requests, env \in Environments
  PROVE  /\ Shaped(Asked, request.scalar)
         /\ \A f \in Scalar :
              Asked.scalar[f] = IF request.scalar[f] # "unset" THEN request.scalar[f]
                                ELSE IF f \in Textual /\ f \in env.options THEN "environment"
                                     ELSE "unset"
         /\ Asked.optRotate <=> request.scalar["rotate"] # "unset"
         /\ Lists(Asked, IF request.servers.given THEN request.servers ELSE Unset,
                  IF request.domains.given THEN request.domains
                  ELSE IF env.search.given THEN env.search ELSE Unset,
                  IF request.lookups.given THEN request.lookups ELSE Unset,
                  IF request.sortlist.list # <<>> THEN request.sortlist ELSE Unset)
BY RequestsWellformed, AskedOfIs DEF Asked

\* The words of resolv.conf count only if it is read.
LEMMA FileWordsAre ==
  ASSUME system \in Systems, NEW keys
  PROVE  /\ FileWords(keys) = IF FileRead THEN AllWords(system.resolv.lines, keys) ELSE <<>>
         /\ FileWords(keys) \in Seq(Word)
<1>1. PICK lines \in Seq([key : STRING, words : Seq(Word)]) : lines = system.resolv.lines
  BY InputsAreWords
<1>2. ASSUME NEW k
      PROVE  \E g : Collected(lines, k, g, Len(lines)) /\ AllWords(lines, k) = g[Len(lines)]
  BY CollectedIs DEF AllWords
<1>3. Len(lines) \in Nat
  OBVIOUS
<1>4. AllWords(lines, keys) \in Seq(Word)
  BY <1>2, <1>3 DEF Collected
<1>5. CASE FileRead
  <2>1. [i \in DOMAIN lines |-> IF FileRead /\ lines[i].key \in keys THEN lines[i].words ELSE <<>>]
          = [i \in DOMAIN lines |-> WordsOf(lines, keys, i)]
    BY <1>5 DEF WordsOf
  <2>2. FileWords(keys) = AllWords(lines, keys)
    BY <1>1, <2>1, Zenon DEF FileWords, AllWords
  <2>. QED
    BY <1>1, <1>4, <1>5, <2>2
<1>6. CASE ~FileRead
  <2>1. [i \in DOMAIN lines |-> IF FileRead /\ lines[i].key \in keys THEN lines[i].words ELSE <<>>]
          = [i \in DOMAIN lines |-> WordsOf(lines, {}, i)]
    BY <1>6 DEF WordsOf
  <2>2. FileWords(keys) = AllWords(lines, {})
    BY <1>1, <2>1, Zenon DEF FileWords, AllWords
  <2>3. PICK g : Collected(lines, {}, g, Len(lines)) /\ AllWords(lines, {}) = g[Len(lines)]
    BY <1>2
  <2>. DEFINE S == {k \in Nat : g[k] = <<>>}
  <2>4. 0 \in S
    BY <2>3 DEF Collected
  <2>5. ASSUME NEW k \in 0 .. Len(lines), k < Len(lines), k \in S
        PROVE  k + 1 \in S
    <3>1. k + 1 \in 1 .. Len(lines) /\ (k + 1) - 1 = k /\ k + 1 \in Nat
      BY <1>3, <2>5
    <3>2. g[k + 1] = g[k] \o WordsOf(lines, {}, k + 1) /\ WordsOf(lines, {}, k + 1) = <<>>
      BY <2>3, <3>1 DEF Collected, WordsOf
    <3>3. <<>> \o <<>> = <<>>
      OBVIOUS
    <3>. QED
      BY <2>5, <3>1, <3>2, <3>3
  <2>6. \A k \in 0 .. Len(lines) : k \in S /\ k < Len(lines) => k + 1 \in S
    BY <2>5
  <2>7. \A k \in 0 .. Len(lines) : k \in S
    <3>. HIDE DEF S
    <3>. QED BY <1>3, <2>4, <2>6, Upwards
  <2>8. g[Len(lines)] = <<>>
    BY <1>3, <2>7
  <2>9. <<>> \in Seq(Word)
    OBVIOUS
  <2>. QED
    BY <1>6, <2>2, <2>3, <2>8, <2>9
<1>. QED
  BY <1>5, <1>6

\* A file that cannot be opened changes nothing.
LEMMA DeniedFile ==
  ASSUME NEW set, NEW c, Shaped(c, set), NEW file, file.open = "denied",
         file.lines \in Seq([key : STRING, words : Seq(Word)])
  PROVE  ResolvConf(c, file, "none").c = c /\ ResolvConf(c, file, "none").status = "EFILE"
<1>1. PICK len \in Nat : len = Len(file.lines)
  OBVIOUS
<1>2. PICK start : start = Opened(Reader(c), file)
  OBVIOUS
<1>3. /\ DOMAIN start = {"c", "servers", "sortlist", "status"} /\ start = [f \in DOMAIN start |-> start[f]]
      /\ start.c = c /\ start.status = "EFILE"
  <2>1. start = [Reader(c) EXCEPT !.status = "EFILE"]
    BY <1>2 DEF Opened
  <2>. QED
    BY <2>1 DEF Reader
<1>4. \E g : LinesRead(start, file.lines, "none", g, Len(file.lines))
  BY <1>1, LinesCanBeRead
<1>5. PICK g : /\ LinesRead(start, file.lines, "none", g, Len(file.lines))
               /\ ResolvConf(c, file, "none") = AtEnd(g[Len(file.lines)])
  BY <1>2, <1>4, Zenon DEF ResolvConf, LinesRead
<1>. DEFINE S == {k \in Nat : g[k] = start}
<1>6. 0 \in S
  BY <1>1, <1>5 DEF LinesRead
<1>7. ASSUME NEW k \in 0 .. len, k < len, k \in S
      PROVE  k + 1 \in S
  <2>1. k + 1 \in 0 .. len /\ k + 1 # 0 /\ (k + 1) - 1 = k /\ k + 1 \in Nat
    BY <1>7
  <2>2. g[k + 1] = ConfLine(g[k], file.lines[k + 1], "none")
    BY <1>1, <1>5, <2>1 DEF LinesRead
  <2>3. \A line : ConfLine(start, line, "none") = start
    BY <1>3 DEF ConfLine
  <2>. QED
    BY <1>7, <2>1, <2>2, <2>3
<1>8. \A k \in 0 .. len : k \in S /\ k < len => k + 1 \in S
  BY <1>7
<1>9. \A k \in 0 .. len : k \in S
  <2>. HIDE DEF S
  <2>. QED BY <1>6, <1>8, Upwards
<1>10. g[len] = start
  BY <1>9
<1>11. AtEnd(start) = [start EXCEPT !.status = "EFILE"]
  BY <1>3 DEF AtEnd
<1>. QED
  BY <1>1, <1>5, <1>10, <1>11, <1>3

LEMMA SettledIs ==
  ASSUME NEW set, NEW r, Reading(r, set)
  PROVE  /\ r.status # "EOF" => Settled(r) = r.c
         /\ r.status = "EOF" =>
              /\ \A f \in Fields \ {"servers", "sortlist"} : Settled(r)[f] = r.c[f]
              /\ Settled(r).servers = IF r.servers # <<>> THEN Given(r.servers) ELSE r.c.servers
              /\ Settled(r).sortlist = IF r.sortlist # <<>> THEN Given(r.sortlist) ELSE r.c.sortlist
<1>1. Shaped(r.c, set)
  BY DEF Reading
<1>2. r.status # "EOF" => Settled(r) = r.c
  BY DEF Settled
<1>3. ASSUME r.status = "EOF"
      PROVE  /\ \A f \in Fields \ {"servers", "sortlist"} : Settled(r)[f] = r.c[f]
             /\ Settled(r).servers = IF r.servers # <<>> THEN Given(r.servers) ELSE r.c.servers
             /\ Settled(r).sortlist = IF r.sortlist # <<>> THEN Given(r.sortlist) ELSE r.c.sortlist
  BY <1>1, <1>3 DEF Settled, Shaped, Fields
<1>. QED
  BY <1>2, <1>3

\* Where resolv.conf is not read the files change nothing.
LEMMA FilesNotRead ==
  ASSUME NEW set, NEW c, Shaped(c, set), system \in Systems, ~system.android,
         ConfigCheck(c) \/ system.resolv.open = "denied"
  PROVE  Settled(AllFiles(c, system, "none")) = c
<1>1. CASE ConfigCheck(c)
  <2>1. PICK r : r = [Reader(c) EXCEPT !.status = "EOF"]
    OBVIOUS
  <2>2. AllFiles(c, system, "none") = r
    BY <1>1, <2>1 DEF AllFiles
  <2>3. r.c = c /\ r.servers = <<>> /\ r.sortlist = <<>> /\ r.status = "EOF"
    BY <2>1 DEF Reader
  <2>4. Settled(r) = [c EXCEPT !.servers = c.servers, !.sortlist = c.sortlist]
    BY <2>3 DEF Settled, Shaped, Fields
  <2>5. [c EXCEPT !.servers = c.servers, !.sortlist = c.sortlist] = c
    BY DEF Shaped, Fields
  <2>. QED
    BY <2>2, <2>4, <2>5
<1>2. CASE ~ConfigCheck(c)
  <2>1. system.resolv.open = "denied"
    BY <1>2
  <2>2. PICK r : r = ResolvConf(c, system.resolv, "none")
    OBVIOUS
  <2>3. r.c = c /\ r.status = "EFILE"
    BY <2>1, <2>2, InputsAreWords, DeniedFile
  <2>4. \A file, bindch, filech : OrderFile(r, file, bindch, filech, "none") = r
    BY <2>3 DEF OrderFile
  <2>5. AllFiles(c, system, "none") = r
    BY <1>2, <2>2, <2>4 DEF AllFiles
  <2>6. Settled(r) = c
    BY <2>3 DEF Settled
  <2>. QED
    BY <2>5, <2>6
<1>. QED
  BY <1>1, <1>2

\* On Android net.dns1 takes the place of resolv.conf.
LEMMA FilesOnAndroid ==
  ASSUME NEW set, NEW c, Shaped(c, set), system \in Systems, system.android,
         NEW s, s = Settled(AllFiles(c, system, "none")),
         NEW servers, servers = ConfigNameserver(<<>>, system.dns1)
  PROVE  /\ \A f \in Fields \ {"servers"} : s[f] = c[f]
         /\ s.servers = IF servers # <<>> THEN Given(servers) ELSE c.servers
<1>1. PICK r : r = [Reader(c) EXCEPT !.servers = servers, !.status = "EOF"]
  OBVIOUS
<1>2. AllFiles(c, system, "none") = r
  BY <1>1 DEF AllFiles
<1>3. Reading(r, set)
  BY <1>2, AllFilesRead
<1>4. r.c = c /\ r.servers = servers /\ r.sortlist = <<>> /\ r.status = "EOF"
  BY <1>1 DEF Reader
<1>5. /\ \A f \in Fields \ {"servers", "sortlist"} : Settled(r)[f] = c[f]
      /\ Settled(r).servers = IF servers # <<>> THEN Given(servers) ELSE c.servers
      /\ Settled(r).sortlist = c.sortlist
  BY <1>3, <1>4, SettledIs
<1>. QED
  BY <1>2, <1>5

\* A channel with servers and an order of lookups reads resolv.conf, but no
\* file for the order of lookups.
LEMMA FilesReadAgain ==
  ASSUME NEW set, NEW c, Shaped(c, set), system \in Systems, ~system.android,
         system.resolv.open # "denied", ~ConfigCheck(c), c.servers.given, c.lookups.given,
         NEW s, s = Settled(AllFiles(c, system, "none")),
         NEW lines, lines = system.resolv.lines
  PROVE  /\ \A f \in Scalar : s.scalar[f] = Filled(c, f, AllWords(lines, {"options"}))
         /\ s.servers = c.servers /\ s.lookups = c.lookups /\ s.primary = c.primary
         /\ s.domains = ResolvConf(c, system.resolv, "none").c.domains
         /\ AllWords(lines, {"domain", "search"}) = <<>> => s.domains = c.domains
         /\ s.sortlist = IF c.sortlist.given \/ AllWords(lines, {"sortlist"}) = <<>> THEN c.sortlist
                         ELSE Given(AllWords(lines, {"sortlist"}))
<1>1. PICK r : /\ ResolvConf(c, system.resolv, "none") = [r EXCEPT !.status = "EOF"]
               /\ Reading(r, set)
               /\ ReadSoFar(c, r, AllWords(lines, {"nameserver"}), AllWords(lines, {"options"}),
                            AllWords(lines, {"lookup"}), AllWords(lines, {"domain", "search"}),
                            AllWords(lines, {"sortlist"}))
  <2>1. /\ system.resolv.lines \in Seq([key : STRING, words : Seq(Word)])
        /\ \A i \in DOMAIN system.resolv.lines :
             system.resolv.lines[i].key \in {"domain", "search", "lookup"} =>
               system.resolv.lines[i].words # <<>>
    BY InputsAreWords, SystemsAssumption
  <2>. QED
    BY <2>1, ResolvConfSays
<1>2. PICK w : w = [r EXCEPT !.status = "EOF"]
  OBVIOUS
<1>3. /\ Reading(w, set) /\ w.status = "EOF" /\ w.c = r.c
      /\ w.servers = r.servers /\ w.sortlist = r.sortlist
  BY <1>1, <1>2, ReadingKept DEF Reading
<1>4. /\ \A f \in Scalar : r.c.scalar[f] = Filled(c, f, AllWords(lines, {"options"}))
      /\ r.c.servers = c.servers /\ r.c.sortlist = c.sortlist /\ r.servers = <<>>
      /\ r.c.primary = c.primary /\ r.c.lookups = c.lookups
      /\ r.sortlist = IF c.sortlist.given THEN <<>> ELSE AllWords(lines, {"sortlist"})
      /\ AllWords(lines, {"domain", "search"}) = <<>> => r.c.domains = c.domains
  BY <1>1 DEF ReadSoFar
<1>5. \A file, bindch, filech : OrderFile(w, file, bindch, filech, "none") = w
  BY <1>3, <1>4 DEF OrderFile
<1>6. AllFiles(c, system, "none") = w
  BY <1>1, <1>2, <1>5 DEF AllFiles
<1>7. /\ \A f \in Fields \ {"servers", "sortlist"} : s[f] = r.c[f]
      /\ s.servers = r.c.servers
      /\ s.sortlist = IF r.sortlist # <<>> THEN Given(r.sortlist) ELSE r.c.sortlist
  BY <1>3, <1>4, <1>6, SettledIs
<1>8. /\ s.scalar = r.c.scalar /\ s.lookups = r.c.lookups /\ s.primary = r.c.primary
      /\ s.domains = r.c.domains
  BY <1>7 DEF Fields
<1>9. s.domains = ResolvConf(c, system.resolv, "none").c.domains
  BY <1>1, <1>2, <1>3, <1>8
<1>. QED
  BY <1>4, <1>7, <1>8, <1>9

\* What the options, the environment and the files make of a channel.
Sourced == Settled(AllFiles(Asked, system, "none"))

SourcedServers ==
  IF system.android /\ NameServers # <<>> THEN Given(NameServers)
  ELSE IF request.servers.given THEN request.servers
  ELSE IF NameServers = <<>> \/ Unreadable THEN Unset ELSE Given(NameServers)

SourcedSortlist ==
  IF request.sortlist.list # <<>> THEN request.sortlist
  ELSE IF Unreadable \/ FileWords({"sortlist"}) = <<>> THEN Unset
  ELSE Given(FileWords({"sortlist"}))

\* Where resolv.conf is not read.
LEMMA SourcedUnread ==
  ASSUME request \in Requests, env \in Environments, system \in Systems, ~FileRead
  PROVE  /\ \A f \in Fields \ {"servers", "sortlist"} : Sourced[f] = Asked[f]
         /\ Sourced.servers = SourcedServers /\ Sourced.sortlist = SourcedSortlist
<1>1. PICK c : c = Asked
  OBVIOUS
<1>2. /\ Shaped(c, request.scalar)
      /\ c.servers = IF request.servers.given THEN request.servers ELSE Unset
      /\ c.sortlist = IF request.sortlist.list # <<>> THEN request.sortlist ELSE Unset
  BY <1>1, AskedIs DEF Lists
<1>3. ~Unreadable
  BY DEF Unreadable
<1>4. \A keys : FileWords(keys) = <<>>
  BY FileWordsAre
<1>5. NameServers = IF system.android THEN ConfigNameserver(<<>>, system.dns1) ELSE <<>>
  <2>1. <<>> \in Seq(Word)
    OBVIOUS
  <2>2. ConfigNameserver(<<>>, <<>>) = <<>>
    BY <2>1, ReadOnward
  <2>. QED
    BY <1>4, <2>2 DEF NameServers
<1>6. Sourced = Settled(AllFiles(c, system, "none"))
  BY <1>1 DEF Sourced
<1>7. CASE system.android
  <2>1. /\ \A f \in Fields \ {"servers"} : Sourced[f] = c[f]
        /\ Sourced.servers = IF NameServers # <<>> THEN Given(NameServers) ELSE c.servers
    BY <1>2, <1>5, <1>6, <1>7, FilesOnAndroid
  <2>2. Sourced.sortlist = c.sortlist
    BY <2>1 DEF Fields
  <2>. QED
    BY <1>1, <1>2, <1>4, <1>7, <2>1, <2>2 DEF SourcedServers, SourcedSortlist
<1>8. CASE ~system.android
  <2>1. ConfigCheck(c) \/ system.resolv.open = "denied"
    BY <1>1, <1>8 DEF FileRead, Asked
  <2>2. Sourced = c
    BY <1>2, <1>6, <1>8, <2>1, FilesNotRead
  <2>. QED
    BY <1>1, <1>2, <1>4, <1>5, <1>8, <2>2 DEF SourcedServers, SourcedSortlist
<1>. QED
  BY <1>7, <1>8

\* Where it is.
LEMMA SourcedRead ==
  ASSUME request \in Requests, env \in Environments, system \in Systems, FileRead
  PROVE  /\ \A f \in Scalar : Sourced.scalar[f] = Filled(Asked, f, FileWords({"options"}))
         /\ Sourced.servers = SourcedServers /\ Sourced.sortlist = SourcedSortlist
         /\ IF FileWords({"domain", "search"}) = <<>> THEN Sourced.domains = Asked.domains
            ELSE /\ Sourced.domains = Given(Sourced.domains.list)
                 /\ ToSet(Sourced.domains.list) \subseteq ToSet(FileWords({"domain", "search"}))
         /\ Sourced.domains = ResolvConf(Asked, system.resolv, "none").c.domains
         /\ request.lookups.given => Sourced.lookups = request.lookups
         /\ Sourced.optRotate = Asked.optRotate
<1>1. PICK c : c = Asked
  OBVIOUS
<1>2. /\ Shaped(c, request.scalar)
      /\ c.servers = IF request.servers.given THEN request.servers ELSE Unset
      /\ c.sortlist = IF request.sortlist.list # <<>> THEN request.sortlist ELSE Unset
      /\ c.lookups = IF request.lookups.given THEN request.lookups ELSE Unset
  BY <1>1, AskedIs DEF Lists
<1>3. ~system.android /\ system.resolv.open # "denied" /\ ~ConfigCheck(c)
  BY <1>1 DEF FileRead, Asked
<1>4. \A keys : FileWords(keys) = AllWords(system.resolv.lines, keys)
  BY FileWordsAre
<1>5. PICK r : /\ ResolvConf(c, system.resolv, "none") = [r EXCEPT !.status = "EOF"]
               /\ Reading(r, request.scalar)
               /\ ReadSoFar(c, r, FileWords({"nameserver"}), FileWords({"options"}),
                            FileWords({"lookup"}), FileWords({"domain", "search"}),
                            FileWords({"sortlist"}))
  <2>1. /\ system.resolv.lines \in Seq([key : STRING, words : Seq(Word)])
        /\ \A i \in DOMAIN system.resolv.lines :
             system.resolv.lines[i].key \in {"domain", "search", "lookup"} =>
               system.resolv.lines[i].words # <<>>
    BY InputsAreWords, SystemsAssumption
  <2>. QED
    BY <1>2, <1>3, <1>4, <2>1, ResolvConfSays
<1>6. PICK w : w = [r EXCEPT !.status = "EOF"]
  OBVIOUS
<1>7. /\ Reading(w, request.scalar) /\ w.status = "EOF" /\ w.c = r.c
      /\ w.servers = r.servers /\ w.sortlist = r.sortlist
  BY <1>5, <1>6, ReadingKept DEF Reading
<1>8. PICK z : z = OrderFile(OrderFile(OrderFile(w, system.nsswitch, "d", "f", "none"),
                                       system.host, "b", "h", "none"),
                             system.svc, "b", "l", "none")
  OBVIOUS
<1>9. AllFiles(c, system, "none") = z
  BY <1>3, <1>5, <1>6, <1>8 DEF AllFiles
<1>10. /\ Reading(z, request.scalar) /\ AllButLookups(w, z)
       /\ w.c.lookups.given => z = w
       /\ z.status = IF ~w.c.lookups.given /\ OrderDenied THEN "EFILE" ELSE "EOF"
  BY <1>7, <1>8, OrderFilesSay
<1>11. c.lookups.given <=> request.lookups.given
  BY <1>2 DEF Unset
<1>12. /\ c.servers.given <=> request.servers.given
       /\ c.sortlist.given <=> request.sortlist.list # <<>>
  BY <1>2, RequestsAssumption DEF Unset
<1>13. /\ \A f \in Scalar : r.c.scalar[f] = Filled(c, f, FileWords({"options"}))
       /\ r.c.servers = c.servers /\ r.c.sortlist = c.sortlist
       /\ r.servers = IF c.servers.given THEN <<>> ELSE NameServers
       /\ r.sortlist = IF c.sortlist.given THEN <<>> ELSE FileWords({"sortlist"})
       /\ r.c.optRotate = c.optRotate
       /\ IF FileWords({"domain", "search"}) = <<>> THEN r.c.domains = c.domains
          ELSE /\ r.c.domains = Given(r.c.domains.list)
               /\ ToSet(r.c.domains.list) \subseteq ToSet(FileWords({"domain", "search"}))
       /\ IF c.lookups.given \/ FileWords({"lookup"}) = <<>> THEN r.c.lookups = c.lookups
          ELSE r.c.lookups.given
  BY <1>3, <1>5 DEF ReadSoFar, NameServers
<1>14. z.status = IF Unreadable THEN "EFILE" ELSE "EOF"
  BY <1>7, <1>10, <1>11, <1>13 DEF Unreadable
<1>15. PICK s : s = Settled(z) /\ s = Sourced
  BY <1>1, <1>9 DEF Sourced
<1>16. /\ \A f \in Fields \ {"servers", "sortlist"} : s[f] = z.c[f]
       /\ s.servers = IF ~Unreadable /\ z.servers # <<>> THEN Given(z.servers) ELSE z.c.servers
       /\ s.sortlist = IF ~Unreadable /\ z.sortlist # <<>> THEN Given(z.sortlist) ELSE z.c.sortlist
  BY <1>10, <1>14, <1>15, SettledIs DEF Fields
<1>17. /\ z.servers = r.servers /\ z.sortlist = r.sortlist /\ z.c.servers = c.servers
       /\ z.c.sortlist = c.sortlist /\ z.c.domains = r.c.domains /\ z.c.scalar = r.c.scalar
       /\ z.c.optRotate = r.c.optRotate
       /\ request.lookups.given => z.c.lookups = c.lookups
  BY <1>7, <1>10, <1>11, <1>13 DEF AllButLookups, Fields
<1>18. s.servers = SourcedServers
  BY <1>2, <1>3, <1>12, <1>13, <1>16, <1>17 DEF SourcedServers
<1>19. s.sortlist = SourcedSortlist
  BY <1>2, <1>12, <1>13, <1>16, <1>17 DEF SourcedSortlist
<1>20. /\ s.scalar = r.c.scalar /\ s.domains = r.c.domains /\ s.optRotate = r.c.optRotate
       /\ request.lookups.given => s.lookups = request.lookups
  BY <1>2, <1>16, <1>17 DEF Fields
<1>21. s.domains = ResolvConf(c, system.resolv, "none").c.domains
  BY <1>5, <1>6, <1>7, <1>20
<1>. QED
  BY <1>1, <1>13, <1>15, <1>18, <1>19, <1>20, <1>21

LEMMA SourcedIs ==
  ASSUME request \in Requests, env \in Environments, system \in Systems
  PROVE  /\ Shaped(Sourced, request.scalar)
         /\ \A f \in Scalar : Sourced.scalar[f] = Filled(Asked, f, FileWords({"options"}))
         /\ Sourced.servers = SourcedServers /\ Sourced.sortlist = SourcedSortlist
         /\ IF FileWords({"domain", "search"}) = <<>> THEN Sourced.domains = Asked.domains
            ELSE /\ Sourced.domains = Given(Sourced.domains.list)
                 /\ ToSet(Sourced.domains.list) \subseteq ToSet(FileWords({"domain", "search"}))
         /\ request.lookups.given => Sourced.lookups = request.lookups
         /\ Sourced.optRotate = Asked.optRotate
<1>1. Shaped(Sourced, request.scalar)
  BY AskedIs, AllFilesRead, SettledShaped DEF Sourced
<1>2. CASE FileRead
  BY <1>1, <1>2, SourcedRead
<1>3. CASE ~FileRead
  <2>1. /\ \A f \in Fields \ {"servers", "sortlist"} : Sourced[f] = Asked[f]
        /\ Sourced.servers = SourcedServers /\ Sourced.sortlist = SourcedSortlist
    BY <1>3, SourcedUnread
  <2>2. \A keys : FileWords(keys) = <<>>
    BY <1>3, FileWordsAre
  <2>3. ASSUME NEW f \in Scalar
        PROVE  Asked.scalar[f] = Filled(Asked, f, <<>>)
    BY DEF Filled, ToSet
  <2>4. request.lookups.given => Asked.lookups = request.lookups
    BY AskedIs DEF Lists
  <2>5. /\ Sourced.scalar = Asked.scalar /\ Sourced.domains = Asked.domains
        /\ Sourced.lookups = Asked.lookups /\ Sourced.optRotate = Asked.optRotate
    BY <2>1 DEF Fields
  <2>. QED
    BY <1>1, <2>1, <2>2, <2>3, <2>4, <2>5
<1>. QED
  BY <1>2, <1>3

-----------------------------------------------------------------------------
(* What a channel made without a failure has *)

LEMMA ByDefaultsIs ==
  ASSUME NEW set, NEW c, Shaped(c, set), NEW domains, NEW b, b = ByDefaults(c, domains)
  PROVE  /\ \A f \in Scalar :
              b.scalar[f] = IF c.scalar[f] # "unset" THEN c.scalar[f]
                            ELSE IF f \in Undefaulted THEN "unset" ELSE "default"
         /\ Lists(b, IF c.servers.given THEN c.servers ELSE Given(<<"loopback">>),
                  IF c.domains.given THEN c.domains ELSE Given(domains),
                  IF c.lookups.given THEN c.lookups ELSE Given(<<"f", "b">>),
                  IF c.sortlist.given THEN c.sortlist ELSE Given(<<>>))
         /\ b.primary = c.primary /\ b.optRotate = c.optRotate
<1>1. PICK d : d = IF c.domains.given THEN c
                   ELSE [c EXCEPT !.domains = Given(domains), !.array = domains # <<>>]
  OBVIOUS
<1>2. /\ Shaped(d, set) /\ d.domains = IF c.domains.given THEN c.domains ELSE Given(domains)
      /\ \A f \in Fields \ {"domains", "array"} : d[f] = c[f]
  <2>1. CASE c.domains.given
    BY <1>1, <2>1
  <2>2. CASE ~c.domains.given
    <3>1. d = [c EXCEPT !.domains = Given(domains), !.array = domains # <<>>]
      BY <1>1, <2>2
    <3>2. PICK array \in BOOLEAN : array = (domains # <<>>)
      OBVIOUS
    <3>3. d = [c EXCEPT !.domains = Given(domains), !.array = array]
      BY <3>1, <3>2
    <3>4. Given(domains).list # <<>> => array
      BY <3>2 DEF Given
    <3>5. Shaped(d, set)
      BY <3>3, <3>4, OtherDomains
    <3>. QED
      BY <2>2, <3>3, <3>5 DEF Shaped, Fields
  <2>. QED
    BY <2>1, <2>2
<1>3. PICK values : values = [f \in Scalar |-> IF f \in Undefaulted THEN "unset" ELSE "default"]
  OBVIOUS
<1>4. PICK v : v = Scalars(d, values)
  OBVIOUS
<1>5. /\ Shaped(v, set)
      /\ \A f \in Scalar : v.scalar[f] = IF d.scalar[f] = "unset" THEN values[f] ELSE d.scalar[f]
      /\ \A f \in Fields \ {"scalar"} : v[f] = d[f]
  BY <1>2, <1>4, ScalarsAre
<1>6. b = [v EXCEPT !.servers = IF @.given THEN @ ELSE Given(<<"loopback">>),
                    !.sortlist = IF @.given THEN @ ELSE Given(<<>>),
                    !.lookups = IF @.given THEN @ ELSE Given(<<"f", "b">>)]
  BY <1>1, <1>3, <1>4, Zenon DEF ByDefaults
<1>7. /\ b.scalar = v.scalar
      /\ Lists(b, IF v.servers.given THEN v.servers ELSE Given(<<"loopback">>), v.domains,
               IF v.lookups.given THEN v.lookups ELSE Given(<<"f", "b">>),
               IF v.sortlist.given THEN v.sortlist ELSE Given(<<>>))
      /\ b.primary = v.primary /\ b.optRotate = v.optRotate
  BY <1>5, <1>6 DEF Lists, Shaped, Fields
<1>8. /\ Lists(v, c.servers, d.domains, c.lookups, c.sortlist) /\ d.scalar = c.scalar
      /\ v.primary = c.primary /\ v.optRotate = c.optRotate
  BY <1>2, <1>5 DEF Lists, Fields
<1>. QED
  BY <1>2, <1>3, <1>5, <1>7, <1>8 DEF Lists

\* The part of Precedence about a channel made without a failure.
Decided(c) ==
  /\ \A f \in Scalar : c.scalar[f] = Offer(f)
  /\ FileWords({"domain", "search"}) = <<>> /\ request.domains.given => c.domains = request.domains
  /\ FileWords({"domain", "search"}) = <<>> /\ ~request.domains.given /\ env.search.given =>
       c.domains = env.search
  /\ FileWords({"domain", "search"}) # <<>> =>
       ToSet(c.domains.list) \subseteq ToSet(FileWords({"domain", "search"}))
  /\ request.lookups.given => c.lookups = request.lookups
  /\ c.sortlist.list = IF request.sortlist.list # <<>> THEN request.sortlist.list
                       ELSE IF Unreadable THEN <<>> ELSE FileWords({"sortlist"})

\* The servers the stages arrive at: net.dns1 replaces those of the options.
DecidingServers ==
  IF request.servers.given /\ ~(system.android /\ NameServers # <<>>) THEN request.servers.list
  ELSE IF NameServers = <<>> \/ Unreadable THEN <<"loopback">> ELSE NameServers

DecidedServers(c) ==
  c.servers.list = IF c.primary /\ DecidingServers # <<>>
                   THEN <<Head(DecidingServers)>> ELSE DecidingServers

\* What else is known of a channel made without a failure: whether the options
\* gave rotate, that its lists are set, and which domains it has.
Kept(c) ==
  /\ c.optRotate <=> request.scalar["rotate"] # "unset"
  /\ Sourced.domains.given => c.domains = Sourced.domains
  /\ c.domains = Given(c.domains.list)
  /\ c.sortlist.list = <<>> => c.sortlist = Given(<<>>)

LEMMA OfferIs ==
  ASSUME request \in Requests, env \in Environments, NEW f \in Scalar,
         NEW w, w = Filled(Asked, f, FileWords({"options"}))
  PROVE  Offer(f) = IF w # "unset" THEN w ELSE IF f \in Undefaulted THEN "unset" ELSE "default"
<1>1. Asked.scalar[f] = IF request.scalar[f] # "unset" THEN request.scalar[f]
                        ELSE IF f \in Textual /\ f \in env.options THEN "environment" ELSE "unset"
  BY AskedIs
<1>. QED
  BY <1>1 DEF Offer, Filled

LEMMA MadeDecided ==
  ASSUME request \in Requests, env \in Environments, system \in Systems, NEW domains, NEW c,
         c = Trimmed(ByDefaults(Sourced, domains))
  PROVE  Decided(c) /\ DecidedServers(c) /\ Kept(c)
<1>1. PICK s : s = Sourced
  OBVIOUS
<1>2. PICK b : b = ByDefaults(s, domains)
  OBVIOUS
<1>3. /\ Shaped(s, request.scalar)
      /\ \A f \in Scalar : s.scalar[f] = Filled(Asked, f, FileWords({"options"}))
      /\ s.servers = SourcedServers /\ s.sortlist = SourcedSortlist
      /\ IF FileWords({"domain", "search"}) = <<>> THEN s.domains = Asked.domains
         ELSE /\ s.domains = Given(s.domains.list)
              /\ ToSet(s.domains.list) \subseteq ToSet(FileWords({"domain", "search"}))
      /\ request.lookups.given => s.lookups = request.lookups
      /\ s.optRotate = Asked.optRotate
  BY <1>1, SourcedIs
<1>4. /\ \A f \in Scalar : b.scalar[f] = IF s.scalar[f] # "unset" THEN s.scalar[f]
                                         ELSE IF f \in Undefaulted THEN "unset" ELSE "default"
      /\ Lists(b, IF s.servers.given THEN s.servers ELSE Given(<<"loopback">>),
               IF s.domains.given THEN s.domains ELSE Given(domains),
               IF s.lookups.given THEN s.lookups ELSE Given(<<"f", "b">>),
               IF s.sortlist.given THEN s.sortlist ELSE Given(<<>>))
      /\ b.optRotate = s.optRotate
  BY <1>2, <1>3, ByDefaultsIs
<1>5. Shaped(b, request.scalar)
  BY <1>2, <1>3, ByDefaultsShaped
<1>6. c = Trimmed(b)
  BY <1>1, <1>2
<1>7. \A f \in Fields \ {"servers"} : c[f] = b[f]
  BY <1>5, <1>6, TrimmedShaped
<1>8. /\ c.scalar = b.scalar /\ c.domains = b.domains /\ c.lookups = b.lookups
      /\ c.sortlist = b.sortlist /\ c.primary = b.primary /\ c.optRotate = b.optRotate
  BY <1>7 DEF Fields
<1>9. \A f \in Scalar : c.scalar[f] = Offer(f)
  BY <1>3, <1>4, <1>8, OfferIs
<1>10. Asked.domains = IF request.domains.given THEN request.domains
                       ELSE IF env.search.given THEN env.search ELSE Unset
  BY AskedIs DEF Lists
<1>11. \A list : Given(list).given /\ Given(list).list = list
  BY DEF Given
<1>12. ~Unset.given
  BY DEF Unset
<1>13. /\ request.sortlist.list # <<>> => request.sortlist.given
       /\ request.servers \in ListType
  BY RequestsAssumption, InputsAreWords DEF ListType
<1>14. Decided(c)
  <2>1. c.sortlist.list = IF request.sortlist.list # <<>> THEN request.sortlist.list
                          ELSE IF Unreadable THEN <<>> ELSE FileWords({"sortlist"})
    BY <1>3, <1>4, <1>8, <1>11, <1>12, <1>13 DEF Lists, SourcedSortlist
  <2>2. request.lookups.given => c.lookups = request.lookups
    BY <1>3, <1>4, <1>8 DEF Lists
  <2>. QED
    BY <1>3, <1>4, <1>8, <1>9, <1>10, <1>11, <2>1, <2>2 DEF Lists, Decided
<1>15. b.servers.list = DecidingServers
  <2>1. Unreadable => ~system.android
    BY DEF Unreadable, FileRead
  <2>. QED
    BY <1>3, <1>4, <1>11, <1>12, <2>1 DEF Lists, SourcedServers, DecidingServers
<1>16. DecidedServers(c)
  <2>1. b.servers \in ListType
    BY <1>5 DEF Shaped, ListType
  <2>2. PICK l \in Seq(Word) : l = b.servers.list /\ l = DecidingServers
    BY <1>15, <2>1 DEF ListType
  <2>3. CASE b.primary /\ Len(l) > 1
    <3>1. c = [b EXCEPT !.servers.list = <<Head(l)>>]
      BY <1>6, <2>2, <2>3 DEF Trimmed
    <3>2. c.servers.list = <<Head(l)>>
      BY <1>5, <2>1, <3>1 DEF Shaped, ListType, Fields
    <3>3. l # <<>>
      BY <2>3
    <3>. QED
      BY <1>8, <2>2, <2>3, <3>2, <3>3 DEF DecidedServers
  <2>4. CASE ~(b.primary /\ Len(l) > 1)
    <3>1. c = b
      BY <1>6, <2>2, <2>4 DEF Trimmed
    <3>2. ASSUME b.primary, l # <<>> PROVE l = <<Head(l)>>
      <4>1. Len(l) = 1 /\ Head(l) = l[1]
        <5>1. ~(Len(l) > 1)
          BY <2>4, <3>2, Zenon
        <5>2. Len(l) \in Nat /\ Len(l) # 0
          BY <3>2
        <5>3. Head(l) = l[1]
          BY <3>2
        <5>4. PICK n \in Nat : n = Len(l)
          BY <5>2
        <5>5. n # 0 /\ ~(n > 1)
          BY <5>1, <5>2, <5>4
        <5>6. n = 1
          BY <5>5
        <5>. QED
          BY <5>3, <5>4, <5>6
      <4>2. Len(<<Head(l)>>) = 1 /\ <<Head(l)>>[1] = l[1] /\ <<Head(l)>> \in Seq(Word)
        BY <3>2, <4>1
      <4>3. \A i \in 1 .. 1 : l[i] = <<Head(l)>>[i]
        BY <4>1, <4>2
      <4>. QED
        BY <4>1, <4>2, <4>3, SeqEqual
    <3>. QED
      BY <2>2, <3>1, <3>2 DEF DecidedServers
  <2>. QED
    BY <2>3, <2>4
<1>17. Kept(c)
  <2>1. c.optRotate <=> request.scalar["rotate"] # "unset"
    BY <1>3, <1>4, <1>8, AskedIs
  <2>2. c.domains = IF s.domains.given THEN s.domains ELSE Given(domains)
    BY <1>4, <1>8 DEF Lists
  <2>3. /\ request.domains.given => request.domains = Given(request.domains.list)
        /\ env.search.given => env.search = Given(env.search.list)
    BY InputsAreWords DEF Given
  <2>4. s.domains.given => s.domains = Given(s.domains.list)
    BY <1>3, <1>10, <1>12, <2>3
  <2>5. c.domains = Given(c.domains.list)
    BY <1>11, <2>2, <2>4
  <2>6. c.sortlist = IF s.sortlist.given THEN s.sortlist ELSE Given(<<>>)
    BY <1>4, <1>8 DEF Lists
  <2>7. c.sortlist.list = <<>> => c.sortlist = Given(<<>>)
    BY <1>3, <1>11, <1>12, <2>6 DEF SourcedSortlist
  <2>. QED
    BY <1>1, <2>1, <2>2, <2>5, <2>7 DEF Kept
<1>. QED
  BY <1>14, <1>16, <1>17

-----------------------------------------------------------------------------
(* Which source decides *)

LEMMA InputsStay ==
  ASSUME UNCHANGED <<request, env, system>>
  PROVE  /\ Asked' = Asked /\ Sourced' = Sourced
         /\ \A f \in Scalar : Offer(f)' = Offer(f)
         /\ \A keys : FileWords(keys)' = FileWords(keys)
         /\ Unreadable' <=> Unreadable
         /\ DecidingServers' = DecidingServers
<1>1. Asked' = Asked
  BY DEF Asked
<1>2. Sourced' = Sourced
  BY <1>1 DEF Sourced
<1>3. FileRead' <=> FileRead
  BY DEF FileRead
<1>4. ASSUME NEW keys PROVE FileWords(keys)' = FileWords(keys)
  BY <1>3 DEF FileWords
<1>5. OrderDenied' <=> OrderDenied
  BY DEF OrderDenied, OrderFiles
<1>6. NameServers' = NameServers
  BY <1>4 DEF NameServers
<1>7. Unreadable' <=> Unreadable
  BY <1>3, <1>4, <1>5 DEF Unreadable
<1>8. DecidingServers' = DecidingServers
  BY <1>6, <1>7 DEF DecidingServers
<1>9. ASSUME NEW f \in Scalar PROVE Offer(f)' = Offer(f)
  BY <1>4 DEF Offer
<1>. QED
  BY <1>1, <1>2, <1>4, <1>7, <1>8, <1>9

\* Failures that no stage of ares_init_options meets.
Harmless == {"none", "set servers", "csv entry"}

\* While a channel is made without a failure it is what the stages so far make
\* of Blank; in use it is decided, but for servers set later.
SourcesInv ==
  oom \in Harmless =>
    /\ phase = "environment" => channel = ByOptions(Blank, request, "none")
    /\ phase = "file" => channel = Asked
    /\ phase = "defaults" => channel = Sourced
    /\ phase = "key" => \E domains \in HostDomains(system.hostname) :
                          channel = ByDefaults(Sourced, domains)
    /\ phase = "open" =>
         Decided(channel) /\ Kept(channel) /\ (~wanted.given => DecidedServers(channel))

\* A channel in use changes its servers only.
LEMMA OpenSteps ==
  ASSUME ServersInv, Next, phase = "open", phase' = "open"
  PROVE  /\ \A f \in Fields \ {"servers"} : channel'[f] = channel[f]
         /\ ~wanted'.given => channel' = channel /\ wanted' = wanted
         /\ UNCHANGED <<request, env, system, oom>>
<1>1. Shaped(channel, request.scalar)
  BY DEF ServersInv, ShapeKept, Shaping
<1>2. ASSUME NEW list, NEW result, Replace(list, result)
      PROVE  /\ \A f \in Fields \ {"servers"} : channel'[f] = channel[f]
             /\ UNCHANGED <<request, env, system, oom>>
  BY <1>1, <1>2 DEF Replace, inputs, Shaped, Fields
<1>3. CASE Send \/ AresDup \/ AresDestroy
  BY <1>3 DEF Send, AresDup, AresDestroy, inputs
<1>4. ASSUME NEW i \in 1 .. MaxSends, Finish(i)
      PROVE  channel' = channel /\ wanted' = wanted /\ UNCHANGED <<request, env, system, oom>>
  BY <1>4 DEF Finish, inputs
<1>5. ASSUME NEW list \in NewServers, AresSetServers(list)
      PROVE  /\ \A f \in Fields \ {"servers"} : channel'[f] = channel[f]
             /\ wanted'.given /\ UNCHANGED <<request, env, system, oom>>
  BY <1>2, <1>5 DEF AresSetServers, Wanted
<1>6. ASSUME NEW entries \in Csvs, AresSetServersCsv(entries)
      PROVE  /\ \A f \in Fields \ {"servers"} : channel'[f] = channel[f]
             /\ wanted'.given /\ UNCHANGED <<request, env, system, oom>>
  BY <1>2, <1>6 DEF AresSetServersCsv, Wanted
<1>7. ~Making
  BY DEF Making, Begin, InitByOptions, InitByEnvironment, InitByResolvConf, InitByDefaults,
         DefaultsFail, InitIdKey
<1>. QED
  BY <1>3, <1>4, <1>5, <1>6, <1>7 DEF Next, Making

\* The lines of a file are read in one way only.
LEMMA LinesReadOnce ==
  ASSUME NEW start, NEW lines, NEW o, NEW len \in Nat, NEW g, NEW h,
         LinesRead(start, lines, o, g, len), LinesRead(start, lines, o, h, len)
  PROVE  g[len] = h[len]
<1>. DEFINE S == {n \in Nat : g[n] = h[n]}
<1>1. 0 \in S
  BY DEF LinesRead
<1>2. ASSUME NEW n \in 0 .. len, n < len, n \in S
      PROVE  n + 1 \in S
  <2>1. n + 1 \in 0 .. len /\ n + 1 # 0 /\ (n + 1) - 1 = n /\ n + 1 \in Nat
    BY <1>2
  <2>2. /\ g[n + 1] = ConfLine(g[n], lines[n + 1], o)
        /\ h[n + 1] = ConfLine(h[n], lines[n + 1], o)
    BY <2>1 DEF LinesRead
  <2>. QED
    BY <1>2, <2>1, <2>2
<1>3. \A n \in 0 .. len : n \in S /\ n < len => n + 1 \in S
  BY <1>2
<1>4. \A n \in 0 .. len : n \in S
  <2>. HIDE DEF S
  <2>. QED BY <1>1, <1>3, Upwards
<1>. QED
  BY <1>4

LEMMA HarmlessLine ==
  ASSUME NEW o \in Harmless, NEW r, NEW line
  PROVE  ConfLine(r, line, o) = ConfLine(r, line, "none")
<1>1. o \notin {"file search", "file lookup", "file servers", "file sortlist"}
  BY DEF Harmless
<1>. QED
  BY <1>1 DEF ConfLine

LEMMA HarmlessFile ==
  ASSUME NEW o \in Harmless, NEW c, NEW file,
         file.lines \in Seq([key : STRING, words : Seq(Word)])
  PROVE  ResolvConf(c, file, o) = ResolvConf(c, file, "none")
<1>1. PICK len \in Nat : len = Len(file.lines)
  OBVIOUS
<1>2. PICK start : start = Opened(Reader(c), file)
  OBVIOUS
<1>3. ASSUME NEW any
      PROVE  \E g : /\ LinesRead(start, file.lines, any, g, len)
                    /\ ResolvConf(c, file, any) = AtEnd(g[len])
  <2>1. \E g : LinesRead(start, file.lines, any, g, Len(file.lines))
    BY <1>1, LinesCanBeRead
  <2>2. PICK g : /\ LinesRead(start, file.lines, any, g, Len(file.lines))
                 /\ ResolvConf(c, file, any) = AtEnd(g[Len(file.lines)])
    BY <1>2, <2>1, Zenon DEF ResolvConf, LinesRead
  <2>. QED
    BY <1>1, <2>2
<1>4. PICK g : /\ LinesRead(start, file.lines, o, g, len)
               /\ ResolvConf(c, file, o) = AtEnd(g[len])
  BY <1>3
<1>5. PICK h : /\ LinesRead(start, file.lines, "none", h, len)
               /\ ResolvConf(c, file, "none") = AtEnd(h[len])
  BY <1>3
<1>6. \A r, line : ConfLine(r, line, o) = ConfLine(r, line, "none")
  BY HarmlessLine
<1>7. LinesRead(start, file.lines, "none", g, len)
  BY <1>4, <1>6 DEF LinesRead
<1>8. g[len] = h[len]
  BY <1>5, <1>7, LinesReadOnce
<1>. QED
  BY <1>4, <1>5, <1>8

LEMMA NoFailure ==
  ASSUME NEW o \in Harmless, NEW r, NEW c, NEW e
  PROVE  /\ OptionFailure(r, o) = "none" /\ EnvironmentFailure(c, e, o) = "none"
         /\ system \in Systems => AllFiles(c, system, o) = AllFiles(c, system, "none")
<1>1. o \notin {"opt servers", "opt array", "opt item", "opt lookups", "opt sortlist",
                "env array", "env item", "file servers", "file lookup"}
  BY DEF Harmless
<1>2. OptionFailure(r, o) = "none" /\ EnvironmentFailure(c, e, o) = "none"
  BY <1>1 DEF OptionFailure, EnvironmentFailure
<1>3. ASSUME system \in Systems PROVE AllFiles(c, system, o) = AllFiles(c, system, "none")
  <2>1. ResolvConf(c, system.resolv, o) = ResolvConf(c, system.resolv, "none")
    BY <1>3, InputsAreWords, HarmlessFile
  <2>2. \A x, file, bindch, filech :
          OrderFile(x, file, bindch, filech, o) = OrderFile(x, file, bindch, filech, "none")
    BY <1>1 DEF OrderFile
  <2>3. CASE system.android
    BY <1>1, <2>3 DEF AllFiles
  <2>4. CASE ~system.android /\ ConfigCheck(c)
    BY <2>4, Zenon DEF AllFiles
  <2>5. CASE ~system.android /\ ~ConfigCheck(c)
    <3>1. \A x : AllFiles(c, system, x)
                  = OrderFile(OrderFile(OrderFile(ResolvConf(c, system.resolv, x),
                                                  system.nsswitch, "d", "f", x),
                                        system.host, "b", "h", x),
                              system.svc, "b", "l", x)
      BY <2>5, Zenon DEF AllFiles
    <3>2. PICK u : u = OrderFile(ResolvConf(c, system.resolv, "none"), system.nsswitch, "d", "f", o)
      OBVIOUS
    <3>3. PICK v : v = OrderFile(u, system.host, "b", "h", o)
      OBVIOUS
    <3>4. AllFiles(c, system, o) = OrderFile(v, system.svc, "b", "l", o)
      BY <2>1, <3>1, <3>2, <3>3
    <3>5. /\ u = OrderFile(ResolvConf(c, system.resolv, "none"), system.nsswitch, "d", "f", "none")
          /\ v = OrderFile(u, system.host, "b", "h", "none")
          /\ AllFiles(c, system, o) = OrderFile(v, system.svc, "b", "l", "none")
      BY <2>2, <3>2, <3>3, <3>4
    <3>. QED
      BY <3>1, <3>5
  <2>. QED
    BY <2>3, <2>4, <2>5
<1>. QED
  BY <1>2, <1>3

LEMMA SourcesStep == ASSUME ServersInv, SourcesInv, Next PROVE SourcesInv'
<1>. SUFFICES ASSUME oom' \in Harmless PROVE SourcesInv'
  BY DEF SourcesInv
<1>1. request \in Requests /\ env \in Environments /\ system \in Systems
  BY DEF ServersInv, ShapeKept
<1>2. CASE Making
  <2>1. MadeSo
    BY <1>2, MakingSteps DEF ServersInv
  <2>2. UNCHANGED <<request, env, system, oom, wanted>>
    BY <2>1 DEF MadeSo
  <2>3. /\ oom \in Harmless /\ oom # "key" /\ Asked' = Asked /\ Sourced' = Sourced
        /\ \A r : OptionFailure(r, oom) = "none"
        /\ \A c, e : EnvironmentFailure(c, e, oom) = "none"
        /\ \A c : AllFiles(c, system, oom) = AllFiles(c, system, "none")
    <3>1. oom \in Harmless /\ Asked' = Asked /\ Sourced' = Sourced
      BY <2>2, InputsStay
    <3>. QED
      BY <1>1, <3>1, NoFailure DEF Harmless
  <2>4. CASE Begin
    BY <2>4 DEF Begin, Enter, SourcesInv
  <2>5. CASE InitByOptions
    <3>1. channel = Blank
      BY <2>5 DEF InitByOptions, ServersInv, ShapeKept
    <3>2. phase' = "environment" /\ channel' = ByOptions(Blank, request, "none")
      BY <2>3, <2>5, <3>1 DEF InitByOptions, Enter
    <3>. QED
      BY <2>2, <3>2 DEF SourcesInv
  <2>6. CASE InitByEnvironment
    <3>1. phase' = "file" /\ channel' = Asked
      BY <2>3, <2>6 DEF InitByEnvironment, Enter, Asked, SourcesInv
    <3>. QED
      BY <2>3, <3>1 DEF SourcesInv
  <2>7. CASE InitByResolvConf
    <3>1. phase' = "defaults" /\ channel' = Sourced
      BY <2>3, <2>7 DEF InitByResolvConf, Enter, Sourced, SourcesInv
    <3>. QED
      BY <2>3, <3>1 DEF SourcesInv
  <2>8. CASE InitByDefaults
    <3>1. phase' = "key" /\ \E domains \in HostDomains(system.hostname) :
                              channel' = ByDefaults(Sourced, domains)
      BY <2>3, <2>8 DEF InitByDefaults, Enter, SourcesInv
    <3>. QED
      BY <2>2, <2>3, <3>1 DEF SourcesInv
  <2>9. CASE DefaultsFail
    BY <2>9 DEF DefaultsFail, SourcesInv
  <2>10. CASE InitIdKey
    <3>1. phase' = "open" /\ channel' = Trimmed(channel)
      BY <2>3, <2>10 DEF InitIdKey, KeyStatus, Enter
    <3>2. PICK domains : channel = ByDefaults(Sourced, domains)
      BY <2>3, <2>10 DEF InitIdKey, SourcesInv
    <3>3. Decided(channel') /\ DecidedServers(channel') /\ Kept(channel')
      BY <1>1, <3>1, <3>2, MadeDecided
    <3>4. Decided(channel)'
      BY <2>2, <3>3, InputsStay DEF Decided
    <3>5. DecidedServers(channel)'
      BY <2>2, <3>3, InputsStay DEF DecidedServers
    <3>6. Kept(channel)'
      BY <2>2, <2>3, <3>3 DEF Kept
    <3>. QED
      BY <3>1, <3>4, <3>5, <3>6 DEF SourcesInv
  <2>. QED
    BY <1>2, <2>4, <2>5, <2>6, <2>7, <2>8, <2>9, <2>10 DEF Making
<1>3. CASE ~Making
  <2>1. phase = "open"
    BY <1>3 DEF Next, Making, Send, AresDup, AresDestroy, Finish, AresSetServers, AresSetServersCsv
  <2>2. phase' \in {"open", "crashed", "aborted", "destroyed"}
    BY <1>3, <2>1 DEF Next, Making, Send, AresDup, AresDestroy, Finish, AresSetServers,
                      AresSetServersCsv, Replace
  <2>3. CASE phase' = "open"
    <3>1. /\ \A f \in Fields \ {"servers"} : channel'[f] = channel[f]
          /\ ~wanted'.given => channel' = channel /\ wanted' = wanted
          /\ UNCHANGED <<request, env, system, oom>>
      BY <2>1, <2>3, OpenSteps
    <3>2. Decided(channel) /\ Kept(channel) /\ (~wanted.given => DecidedServers(channel))
      BY <2>1, <3>1 DEF SourcesInv
    <3>3. /\ channel'.scalar = channel.scalar /\ channel'.domains = channel.domains
          /\ channel'.lookups = channel.lookups /\ channel'.sortlist = channel.sortlist
          /\ channel'.optRotate = channel.optRotate
      BY <3>1 DEF Fields
    <3>4. Decided(channel)'
      BY <3>1, <3>2, <3>3, InputsStay DEF Decided
    <3>5. ASSUME ~wanted'.given PROVE DecidedServers(channel)'
      BY <3>1, <3>2, <3>5, InputsStay DEF DecidedServers
    <3>6. Kept(channel)'
      BY <3>1, <3>2, <3>3, InputsStay DEF Kept
    <3>. QED
      BY <2>3, <3>4, <3>5, <3>6 DEF SourcesInv
  <2>4. CASE phase' \in {"crashed", "aborted", "destroyed"}
    BY <2>4 DEF SourcesInv
  <2>. QED
    BY <2>2, <2>3, <2>4
<1>. QED
  BY <1>2, <1>3

LEMMA SourcesAlways == Spec => []SourcesInv
<1>1. Init => SourcesInv
  BY DEF Init, SourcesInv
<1>2. ServersInv /\ SourcesInv /\ [Next]_vars => SourcesInv'
  <2>. SUFFICES ASSUME ServersInv, SourcesInv, [Next]_vars PROVE SourcesInv'
    OBVIOUS
  <2>1. CASE Next
    BY <2>1, SourcesStep
  <2>2. CASE UNCHANGED vars
    <3>1. UNCHANGED <<phase, channel, wanted, oom, request, env, system>>
      BY <2>2 DEF vars, inputs, running
    <3>2. /\ Asked' = Asked /\ Sourced' = Sourced
          /\ Decided(channel)' <=> Decided(channel)
          /\ Kept(channel)' <=> Kept(channel)
          /\ DecidedServers(channel)' <=> DecidedServers(channel)
      BY <3>1, InputsStay DEF Decided, DecidedServers, Kept
    <3>. QED
      BY <3>1, <3>2 DEF SourcesInv
  <2>. QED
    BY <2>1, <2>2
<1>. QED
  BY <1>1, <1>2, ServersAlways, PTL DEF Spec

\* Precedence: the source with the highest precedence decides each value of a
\* channel (ares_init.c:200), where code and documents agree on which that is,
\* and a channel in use has a value for everything, whatever fails.
THEOREM SourcesDecide == Spec => []Precedence
<1>1. ServersInv /\ SourcesInv => Precedence
  <2>. SUFFICES ASSUME ServersInv, SourcesInv PROVE Precedence
    OBVIOUS
  <2>1. ASSUME phase = "open"
        PROVE  /\ ~wanted.given => ConfigCheck(channel)
               /\ channel.domains.list # <<>> => channel.array
               /\ \A f \in Scalar : request.scalar[f] # "unset" => channel.scalar[f] = request.scalar[f]
    BY <2>1 DEF ServersInv, ShapeKept, Shaping, Shaped
  <2>2. ASSUME phase = "open", oom = "none"
        PROVE  Decided(channel) /\ (~wanted.given => DecidedServers(channel))
    BY <2>2 DEF SourcesInv, Harmless
  <2>3. ~Overridden => DecidingServers = OfferedServers
    BY DEF Overridden, DecidingServers, OfferedServers
  <2>4. ASSUME phase = "open", oom = "none", ~wanted.given, ~Overridden
        PROVE  channel.servers.list = IF channel.primary /\ OfferedServers # <<>>
                                      THEN <<Head(OfferedServers)>> ELSE OfferedServers
    BY <2>2, <2>3, <2>4 DEF DecidedServers
  <2>. QED
    BY <2>1, <2>2, <2>4, Zenon DEF Precedence, Decided, Searched
<1>. QED
  BY <1>1, ServersAlways, SourcesAlways, PTL

-----------------------------------------------------------------------------
(* Copying a channel *)

\* What ares_dup asks for: all that the channel has but the options that
\* ares_save_options does not save.
LEMMA SavedIs ==
  ASSUME NEW c, ConfigCheck(c), Kept(c), c.servers \in ListType, NEW r, r = Saved(c)
  PROVE  /\ Wellformed(r)
         /\ \A f \in Scalar : r.scalar[f] = IF f \in Undefaulted \/ (f = "rotate" /\ ~c.optRotate)
                                            THEN "unset" ELSE c.scalar[f]
         /\ r.primary = c.primary /\ r.servers.given
         /\ Lists(r, r.servers, c.domains, c.lookups, c.sortlist)
         /\ ToSet(c.servers.list) \cap V6Servers = {} => r.servers = c.servers
<1>1. PICK l \in Seq(Word) : l = c.servers.list /\ c.servers = Given(l)
  BY DEF ListType, Given, ConfigCheck
<1>2. PICK kept \in Seq(Word) : /\ kept = Appended(<<>>, l, V6Servers)
                                /\ ToSet(l) \cap V6Servers = {} => kept = l
  <2>1. <<>> \in Seq(Word)
    OBVIOUS
  <2>2. Appended(<<>>, l, V6Servers) \in Seq(Word)
    BY <2>1, AppendedReads
  <2>. QED
    BY <2>2, AllKept
<1>. DEFINE scalar == [f \in Scalar |-> IF f \in Undefaulted \/ (f = "rotate" /\ ~c.optRotate)
                                        THEN "unset" ELSE c.scalar[f]]
<1>s. \A f \in Scalar : scalar[f] = IF f \in Undefaulted \/ (f = "rotate" /\ ~c.optRotate)
                                    THEN "unset" ELSE c.scalar[f]
  BY Zenon
<1>r. r = [scalar |-> scalar, primary |-> c.primary, servers |-> Given(kept), domains |-> c.domains,
           lookups |-> c.lookups, sortlist |-> c.sortlist]
  <2>1. Given(Appended(<<>>, c.servers.list, V6Servers)) = Given(kept)
    BY <1>1, <1>2
  <2>2. r = [scalar |-> scalar, primary |-> c.primary,
             servers |-> Given(Appended(<<>>, c.servers.list, V6Servers)), domains |-> c.domains,
             lookups |-> c.lookups, sortlist |-> c.sortlist]
    BY Zenon DEF Saved
  <2>. QED
    BY <2>1, <2>2, Zenon
<1>. HIDE DEF scalar
<1>3. /\ r.scalar = scalar /\ r.primary = c.primary /\ r.servers = Given(kept)
      /\ r.domains = c.domains /\ r.lookups = c.lookups /\ r.sortlist = c.sortlist
  BY <1>r
<1>4. r.servers \in ListType /\ r.servers.given
  BY <1>2, <1>3 DEF Given, ListType
<1>5. Wellformed(r)
  BY <1>3, <1>4 DEF Wellformed, Kept, ConfigCheck
<1>6. Lists(r, r.servers, c.domains, c.lookups, c.sortlist)
  BY <1>3 DEF Lists
<1>7. ToSet(c.servers.list) \cap V6Servers = {} => r.servers = c.servers
  BY <1>1, <1>2, <1>3
<1>8. \A f \in Scalar : r.scalar[f] = IF f \in Undefaulted \/ (f = "rotate" /\ ~c.optRotate)
                                     THEN "unset" ELSE c.scalar[f]
  BY <1>s, <1>3, Zenon
<1>. QED
  BY <1>3, <1>4, <1>5, <1>6, <1>7, <1>8, Zenon

\* What the environment makes of it.
LEMMA AskedAgain ==
  ASSUME NEW c, ConfigCheck(c), Kept(c), c.servers \in ListType, env \in Environments,
         NEW a, a = ByEnvironment(ByOptions(Blank, Saved(c), "none"), env, "none")
  PROVE  /\ \E set : Shaped(a, set)
         /\ \A f \in Scalar \ (Undefaulted \cup {"rotate"}) :
              c.scalar[f] # "unset" => a.scalar[f] = c.scalar[f]
         /\ a.scalar["rotate"] = IF c.optRotate /\ c.scalar["rotate"] # "unset"
                                 THEN c.scalar["rotate"]
                                 ELSE IF "rotate" \in env.options THEN "environment" ELSE "unset"
         /\ a.primary => c.primary
         /\ a.servers.given /\ a.domains = c.domains /\ a.lookups = c.lookups
         /\ ToSet(c.servers.list) \cap V6Servers = {} => a.servers = c.servers
         /\ a.sortlist = IF c.sortlist.list # <<>> THEN c.sortlist ELSE Unset
<1>1. PICK r : r = Saved(c)
  OBVIOUS
<1>2. /\ Wellformed(r)
      /\ \A f \in Scalar : r.scalar[f] = IF f \in Undefaulted \/ (f = "rotate" /\ ~c.optRotate)
                                         THEN "unset" ELSE c.scalar[f]
      /\ r.primary = c.primary /\ r.servers.given
      /\ Lists(r, r.servers, c.domains, c.lookups, c.sortlist)
      /\ ToSet(c.servers.list) \cap V6Servers = {} => r.servers = c.servers
  BY <1>1, SavedIs
<1>3. a = ByEnvironment(ByOptions(Blank, r, "none"), env, "none")
  BY <1>1
<1>4. /\ Shaped(a, r.scalar)
      /\ \A f \in Scalar :
           a.scalar[f] = IF r.scalar[f] # "unset" THEN r.scalar[f]
                         ELSE IF f \in Textual /\ f \in env.options THEN "environment"
                              ELSE "unset"
      /\ a.primary <=> r.primary /\ r.scalar["flags"] # "unset"
      /\ Lists(a, IF r.servers.given THEN r.servers ELSE Unset,
               IF r.domains.given THEN r.domains
               ELSE IF env.search.given THEN env.search ELSE Unset,
               IF r.lookups.given THEN r.lookups ELSE Unset,
               IF r.sortlist.list # <<>> THEN r.sortlist ELSE Unset)
  BY <1>2, <1>3, AskedOfIs
<1>5. c.domains.given /\ c.lookups.given
  BY DEF ConfigCheck
<1>6. "rotate" \in Scalar /\ "rotate" \in Textual /\ "rotate" \notin Undefaulted
  BY DEF Scalar, Textual, Undefaulted
<1>7. /\ r.scalar["rotate"] = IF c.optRotate THEN c.scalar["rotate"] ELSE "unset"
      /\ a.scalar["rotate"] = IF r.scalar["rotate"] # "unset" THEN r.scalar["rotate"]
                              ELSE IF "rotate" \in env.options THEN "environment" ELSE "unset"
  BY <1>2, <1>4, <1>6
<1>8. ASSUME NEW f \in Scalar \ (Undefaulted \cup {"rotate"}), c.scalar[f] # "unset"
      PROVE  a.scalar[f] = c.scalar[f]
  BY <1>2, <1>4, <1>8
<1>. QED
  BY <1>2, <1>4, <1>5, <1>7, <1>8 DEF Lists

\* The file is read again where it was read, unless the sort list is complete.
LEMMA ReadAgain ==
  ASSUME request \in Requests, env \in Environments, NEW c, ConfigCheck(c), Decided(c),
         NEW a, a.servers.given, a.domains = c.domains, a.lookups = c.lookups,
         \A f \in {"ndots", "timeout", "tries"} : a.scalar[f] # "unset",
         a.sortlist = IF c.sortlist.list # <<>> THEN c.sortlist ELSE Unset
  PROVE  /\ c.sortlist.list # <<>> => ConfigCheck(a)
         /\ c.sortlist.list = <<>> =>
              /\ ~ConfigCheck(a)
              /\ FileRead <=> ~system.android /\ system.resolv.open # "denied"
<1>1. /\ c.domains.given /\ c.lookups.given /\ c.sortlist.given
      /\ ~Unset.given
  BY DEF ConfigCheck, Unset
<1>2. c.sortlist.list # <<>> => ConfigCheck(a)
  BY <1>1 DEF ConfigCheck
<1>3. ASSUME c.sortlist.list = <<>>
      PROVE  /\ ~ConfigCheck(a)
             /\ FileRead <=> ~system.android /\ system.resolv.open # "denied"
  <2>1. ~ConfigCheck(a)
    BY <1>1, <1>3 DEF ConfigCheck
  <2>2. request.sortlist.list = <<>>
    BY <1>3 DEF Decided
  <2>3. Asked.sortlist = Unset
    BY <2>2, AskedIs DEF Lists
  <2>4. ~ConfigCheck(Asked)
    BY <1>1, <2>3 DEF ConfigCheck
  <2>. QED
    BY <2>1, <2>4 DEF FileRead, Asked
<1>. QED
  BY <1>2, <1>3

\* What the files make of it: what they made of the source before, but for the
\* sort list of a source that could not read them to the end.
LEMMA FilesForCopy ==
  ASSUME request \in Requests, env \in Environments, system \in Systems,
         NEW c, ConfigCheck(c), Decided(c), Kept(c),
         NEW set, NEW a, Shaped(a, set), a.servers.given, a.domains = c.domains, a.lookups = c.lookups,
         \A f \in {"ndots", "timeout", "tries"} : a.scalar[f] # "unset",
         a.sortlist = IF c.sortlist.list # <<>> THEN c.sortlist ELSE Unset,
         NEW s, s = Settled(AllFiles(a, system, "none"))
  PROVE  /\ \A f \in Scalar : s.scalar[f] = IF c.sortlist.list = <<>>
                                            THEN Filled(a, f, FileWords({"options"}))
                                            ELSE a.scalar[f]
         /\ s.domains = c.domains /\ s.lookups = c.lookups /\ s.primary = a.primary
         /\ s.servers = a.servers \/ (system.android /\ system.dns1 # <<>>)
         /\ s.sortlist = IF c.sortlist.list = <<>> /\ FileWords({"sortlist"}) # <<>>
                         THEN Given(FileWords({"sortlist"})) ELSE a.sortlist
<1>1. /\ c.sortlist.list # <<>> => ConfigCheck(a)
      /\ c.sortlist.list = <<>> =>
           /\ ~ConfigCheck(a)
           /\ FileRead <=> ~system.android /\ system.resolv.open # "denied"
  BY ReadAgain
<1>2. ASSUME NEW f \in Scalar PROVE Filled(a, f, <<>>) = a.scalar[f]
  BY DEF Filled, ToSet
<1>3. ~FileRead => \A keys : FileWords(keys) = <<>>
  BY FileWordsAre
<1>4. CASE system.android
  <2>1. PICK servers : servers = ConfigNameserver(<<>>, system.dns1)
    OBVIOUS
  <2>2. /\ \A f \in Fields \ {"servers"} : s[f] = a[f]
        /\ s.servers = IF servers # <<>> THEN Given(servers) ELSE a.servers
    BY <1>4, <2>1, FilesOnAndroid
  <2>3. /\ s.scalar = a.scalar /\ s.domains = a.domains /\ s.lookups = a.lookups
        /\ s.primary = a.primary /\ s.sortlist = a.sortlist
    BY <2>2 DEF Fields
  <2>4. ConfigNameserver(<<>>, <<>>) = <<>>
    <3>1. <<>> \in Seq(Word)
      OBVIOUS
    <3>. QED
      BY <3>1, ReadOnward
  <2>5. s.servers = a.servers \/ (system.android /\ system.dns1 # <<>>)
    BY <1>4, <2>1, <2>2, <2>4
  <2>6. ~FileRead
    BY <1>4 DEF FileRead
  <2>. QED
    BY <1>2, <1>3, <2>3, <2>5, <2>6
<1>5. CASE ~system.android /\ (ConfigCheck(a) \/ system.resolv.open = "denied")
  <2>1. s = a
    BY <1>5, FilesNotRead
  <2>2. c.sortlist.list = <<>> => ~FileRead
    BY <1>1, <1>5
  <2>. QED
    BY <1>2, <1>3, <2>1, <2>2
<1>6. CASE ~system.android /\ ~ConfigCheck(a) /\ system.resolv.open # "denied"
  <2>1. c.sortlist.list = <<>> /\ FileRead /\ a.sortlist = Unset
    BY <1>1, <1>6
  <2>2. PICK lines : lines = system.resolv.lines
    OBVIOUS
  <2>3. \A keys : FileWords(keys) = AllWords(lines, keys)
    BY <2>1, <2>2, FileWordsAre
  <2>4. a.lookups.given
    BY DEF ConfigCheck
  <2>5. /\ \A f \in Scalar : s.scalar[f] = Filled(a, f, AllWords(lines, {"options"}))
        /\ s.servers = a.servers /\ s.lookups = a.lookups /\ s.primary = a.primary
        /\ s.domains = ResolvConf(a, system.resolv, "none").c.domains
        /\ AllWords(lines, {"domain", "search"}) = <<>> => s.domains = a.domains
        /\ s.sortlist = IF a.sortlist.given \/ AllWords(lines, {"sortlist"}) = <<>> THEN a.sortlist
                        ELSE Given(AllWords(lines, {"sortlist"}))
    BY <1>6, <2>2, <2>4, FilesReadAgain
  <2>6. s.domains = c.domains
    <3>1. CASE AllWords(lines, {"domain", "search"}) = <<>>
      BY <2>5, <3>1
    <3>2. CASE AllWords(lines, {"domain", "search"}) # <<>>
      <4>1. PICK file : /\ file = system.resolv /\ file.open # "denied"
                        /\ file.lines \in Seq([key : STRING, words : Seq(Word)])
                        /\ \A i \in DOMAIN file.lines :
                             file.lines[i].key \in {"domain", "search", "lookup"} =>
                               file.lines[i].words # <<>>
        BY <1>6, InputsAreWords, SystemsAssumption
      <4>2. PICK b : b = Asked
        OBVIOUS
      <4>3. PICK other : Shaped(b, other)
        BY <4>2, AskedIs
      <4>f. AllWords(file.lines, {"domain", "search"}) # <<>>
        BY <2>2, <3>2, <4>1
      <4>4. ResolvConf(a, file, "none").c.domains = ResolvConf(b, file, "none").c.domains
        <5>1. \/ ResolvConf(a, file, "none").c.domains = ResolvConf(b, file, "none").c.domains
              \/ AllWords(file.lines, {"domain", "search"}) = <<>>
          BY <4>1, <4>3, SameDomains, ZenonT(40)
        <5>. QED
          BY <4>f, <5>1
      <4>5. /\ Sourced.domains = ResolvConf(b, system.resolv, "none").c.domains
            /\ Sourced.domains = Given(Sourced.domains.list)
        BY <2>1, <2>3, <3>2, <4>2, SourcedRead
      <4>6. Sourced.domains.given
        BY <4>5 DEF Given
      <4>. QED
        BY <2>5, <4>1, <4>4, <4>5, <4>6 DEF Kept
    <3>. QED
      BY <3>1, <3>2
  <2>7. ~Unset.given
    BY DEF Unset
  <2>. QED
    BY <2>1, <2>3, <2>5, <2>6, <2>7
<1>. QED
  BY <1>4, <1>5, <1>6

LEMMA OfferGiven ==
  ASSUME NEW f \in Scalar \ Undefaulted
  PROVE  Offer(f) # "unset"
BY DEF Offer

\* What a copy has of its source.
LEMMA CopyIs ==
  ASSUME request \in Requests, env \in Environments, system \in Systems,
         NEW c, ConfigCheck(c), Decided(c), Kept(c), c.servers \in ListType,
         NEW new, new = InitOptions(Saved(c), env, system, <<>>)
  PROVE  /\ \A f \in Scalar \ (Undefaulted \cup {"rotate"}) : new.scalar[f] = c.scalar[f]
         /\ new.scalar["rotate"] # c.scalar["rotate"] =>
              c.scalar["rotate"] = "file" /\ c.sortlist.list # <<>>
         /\ ToSet(c.servers.list) \cap V6Servers = {} /\ new.servers # c.servers =>
              \/ c.primary /\ Len(c.servers.list) > 1
              \/ system.android /\ system.dns1 # <<>>
         /\ new.domains = c.domains /\ new.lookups = c.lookups
         /\ new.sortlist # c.sortlist => c.sortlist.list = <<>> /\ OrderDenied
         /\ \A v : [new EXCEPT !.servers = v].servers = v
                  /\ \A f \in Fields \ {"servers"} : [new EXCEPT !.servers = v][f] = new[f]
<1>1. PICK a : a = ByEnvironment(ByOptions(Blank, Saved(c), "none"), env, "none")
  OBVIOUS
<1>2. /\ \E set : Shaped(a, set)
      /\ \A f \in Scalar \ (Undefaulted \cup {"rotate"}) :
           c.scalar[f] # "unset" => a.scalar[f] = c.scalar[f]
      /\ a.scalar["rotate"] = IF c.optRotate /\ c.scalar["rotate"] # "unset"
                              THEN c.scalar["rotate"]
                              ELSE IF "rotate" \in env.options THEN "environment" ELSE "unset"
      /\ a.primary => c.primary
      /\ a.servers.given /\ a.domains = c.domains /\ a.lookups = c.lookups
      /\ ToSet(c.servers.list) \cap V6Servers = {} => a.servers = c.servers
      /\ a.sortlist = IF c.sortlist.list # <<>> THEN c.sortlist ELSE Unset
  BY <1>1, AskedAgain
<1>3. PICK set : Shaped(a, set)
  BY <1>2
<1>4. /\ \A f \in Scalar \ Undefaulted : c.scalar[f] = Offer(f) /\ c.scalar[f] # "unset"
      /\ "rotate" \in Scalar \ Undefaulted /\ "rotate" \in Textual
      /\ {"ndots", "timeout", "tries"} \subseteq Scalar \ (Undefaulted \cup {"rotate"})
  BY OfferGiven DEF Decided, Scalar, Undefaulted, Textual
<1>5. \A f \in {"ndots", "timeout", "tries"} : a.scalar[f] # "unset"
  BY <1>2, <1>4
<1>6. PICK s : s = Settled(AllFiles(a, system, "none"))
  OBVIOUS
<1>7. /\ \A f \in Scalar : s.scalar[f] = IF c.sortlist.list = <<>>
                                         THEN Filled(a, f, FileWords({"options"}))
                                         ELSE a.scalar[f]
      /\ s.domains = c.domains /\ s.lookups = c.lookups /\ s.primary = a.primary
      /\ s.servers = a.servers \/ (system.android /\ system.dns1 # <<>>)
      /\ s.sortlist = IF c.sortlist.list = <<>> /\ FileWords({"sortlist"}) # <<>>
                      THEN Given(FileWords({"sortlist"})) ELSE a.sortlist
  BY <1>2, <1>3, <1>5, <1>6, FilesForCopy
<1>8. Shaped(s, set)
  BY <1>3, <1>6, AllFilesRead, SettledShaped
<1>9. PICK b : b = ByDefaults(s, <<>>)
  OBVIOUS
<1>10. /\ \A f \in Scalar : b.scalar[f] = IF s.scalar[f] # "unset" THEN s.scalar[f]
                                          ELSE IF f \in Undefaulted THEN "unset" ELSE "default"
       /\ Lists(b, IF s.servers.given THEN s.servers ELSE Given(<<"loopback">>),
                IF s.domains.given THEN s.domains ELSE Given(<<>>),
                IF s.lookups.given THEN s.lookups ELSE Given(<<"f", "b">>),
                IF s.sortlist.given THEN s.sortlist ELSE Given(<<>>))
       /\ b.primary = s.primary
  BY <1>8, <1>9, ByDefaultsIs
<1>11. Shaped(b, set)
  BY <1>8, <1>9, ByDefaultsShaped
<1>12. new = Trimmed(b)
  BY <1>1, <1>6, <1>9 DEF InitOptions
<1>13. /\ Shaped(new, set)
       /\ \A f \in Fields \ {"servers"} : new[f] = b[f]
  BY <1>11, <1>12, TrimmedShaped
<1>14. /\ new.scalar = b.scalar /\ new.domains = b.domains /\ new.lookups = b.lookups
       /\ new.sortlist = b.sortlist
  BY <1>13 DEF Fields
<1>15. \A list : Given(list).given /\ Given(list).list = list
  BY DEF Given
<1>16. ~Unset.given
  BY DEF Unset
<1>17. ASSUME NEW f \in Scalar \ (Undefaulted \cup {"rotate"})
       PROVE  new.scalar[f] = c.scalar[f]
  <2>1. a.scalar[f] = c.scalar[f] /\ a.scalar[f] # "unset"
    BY <1>2, <1>4
  <2>2. s.scalar[f] = a.scalar[f]
    BY <1>7, <2>1 DEF Filled
  <2>. QED
    BY <1>10, <1>14, <2>1, <2>2
<1>18. ASSUME new.scalar["rotate"] # c.scalar["rotate"]
       PROVE  c.scalar["rotate"] = "file" /\ c.sortlist.list # <<>>
  <2>1. new.scalar["rotate"] = IF s.scalar["rotate"] # "unset" THEN s.scalar["rotate"] ELSE "default"
    BY <1>4, <1>10, <1>14
  <2>2. s.scalar["rotate"] = IF c.sortlist.list = <<>> THEN Filled(a, "rotate", FileWords({"options"}))
                             ELSE a.scalar["rotate"]
    BY <1>4, <1>7
  <2>3. ~c.optRotate
    <3>1. ASSUME c.optRotate PROVE FALSE
      <4>1. a.scalar["rotate"] = c.scalar["rotate"] /\ a.scalar["rotate"] # "unset"
        BY <1>2, <1>4, <3>1
      <4>2. s.scalar["rotate"] = a.scalar["rotate"]
        BY <2>2, <4>1 DEF Filled
      <4>. QED
        BY <1>18, <2>1, <4>1, <4>2
    <3>. QED
      BY <3>1
  <2>4. request.scalar["rotate"] = "unset"
    BY <2>3 DEF Kept
  <2>5. a.scalar["rotate"] = IF "rotate" \in env.options THEN "environment" ELSE "unset"
    BY <1>2, <2>3
  <2>6. c.scalar["rotate"] = IF "rotate" \in env.options THEN "environment"
                             ELSE IF "rotate" \in ToSet(FileWords({"options"})) THEN "file" ELSE "default"
    <3>1. Offer("rotate") = IF "rotate" \in env.options THEN "environment"
                            ELSE IF "rotate" \in ToSet(FileWords({"options"})) THEN "file" ELSE "default"
      BY <1>4, <2>4 DEF Offer
    <3>. QED
      BY <1>4, <3>1
  <2>7. "rotate" \notin env.options
    <3>1. ASSUME "rotate" \in env.options PROVE FALSE
      <4>1. a.scalar["rotate"] = "environment"
        BY <2>5, <3>1
      <4>2. s.scalar["rotate"] = "environment"
        BY <2>2, <4>1 DEF Filled
      <4>. QED
        BY <1>18, <2>1, <2>6, <3>1, <4>2
    <3>. QED
      BY <3>1
  <2>8. c.sortlist.list # <<>>
    <3>1. ASSUME c.sortlist.list = <<>> PROVE FALSE
      <4>1. s.scalar["rotate"] = IF "rotate" \in ToSet(FileWords({"options"})) THEN "file" ELSE "unset"
        BY <1>4, <2>2, <2>5, <2>7, <3>1 DEF Filled
      <4>. QED
        BY <1>18, <2>1, <2>6, <2>7, <4>1
    <3>. QED
      BY <3>1
  <2>9. s.scalar["rotate"] = "unset"
    BY <2>2, <2>5, <2>7, <2>8
  <2>. QED
    BY <1>18, <2>1, <2>6, <2>7, <2>8, <2>9
<1>19. ASSUME ToSet(c.servers.list) \cap V6Servers = {}, new.servers # c.servers
       PROVE  \/ c.primary /\ Len(c.servers.list) > 1
              \/ system.android /\ system.dns1 # <<>>
  <2>. SUFFICES ASSUME ~(system.android /\ system.dns1 # <<>>)
                PROVE  c.primary /\ Len(c.servers.list) > 1
    OBVIOUS
  <2>1. b.servers = c.servers
    BY <1>2, <1>7, <1>10, <1>19 DEF Lists
  <2>2. b.primary /\ Len(b.servers.list) > 1
    BY <1>12, <1>19, <2>1 DEF Trimmed
  <2>. QED
    BY <1>2, <1>7, <1>10, <2>1, <2>2
<1>20. new.domains = c.domains /\ new.lookups = c.lookups
  <2>1. c.domains.given /\ c.lookups.given
    BY DEF ConfigCheck
  <2>. QED
    BY <1>7, <1>10, <1>14, <2>1 DEF Lists
<1>21. ASSUME new.sortlist # c.sortlist
       PROVE  c.sortlist.list = <<>> /\ OrderDenied
  <2>1. new.sortlist = IF s.sortlist.given THEN s.sortlist ELSE Given(<<>>)
    BY <1>10, <1>14 DEF Lists
  <2>2. c.sortlist.given /\ (c.sortlist.list = <<>> => c.sortlist = Given(<<>>))
    BY DEF ConfigCheck, Kept
  <2>3. c.sortlist.list = <<>>
    BY <1>2, <1>7, <1>21, <2>1, <2>2
  <2>4. FileWords({"sortlist"}) # <<>>
    BY <1>2, <1>7, <1>16, <1>21, <2>1, <2>2, <2>3
  <2>5. Unreadable
    BY <2>3, <2>4 DEF Decided
  <2>. QED
    BY <2>3, <2>5 DEF Unreadable
<1>22. ASSUME NEW v
       PROVE  /\ [new EXCEPT !.servers = v].servers = v
              /\ \A f \in Fields \ {"servers"} : [new EXCEPT !.servers = v][f] = new[f]
  BY <1>13 DEF Shaped, Fields
<1>. QED
  BY <1>17, <1>18, <1>19, <1>20, <1>21, <1>22

\* DupFaithful: a copy that ares_dup makes without an error of a channel made
\* without one has what the source has, but for the sizes of socket buffers and
\* the four exceptions of servers, rotation and sort list (ares_init.c:283).
THEOREM CopiesAgree == Spec => DupFaithful
<1>. DEFINE Agrees ==
       copy = Blank /\ copy' # Blank /\ status' = "SUCCESS" /\ oom \in Harmless =>
         /\ \A f \in Scalar \ (Undefaulted \cup {"rotate"}) : copy'.scalar[f] = channel.scalar[f]
         /\ copy'.scalar["rotate"] # channel.scalar["rotate"] =>
              channel.scalar["rotate"] = "file" /\ channel.sortlist.list # <<>>
         /\ copy'.servers # channel.servers =>
              /\ ToSet(Servers) \cap V6Servers = {}
              /\ \/ channel.primary /\ wanted.given
                 \/ system.android /\ system.dns1 # <<>>
         /\ copy'.domains = channel.domains
         /\ copy'.lookups = channel.lookups
         /\ copy'.sortlist # channel.sortlist => channel.sortlist.list = <<>> /\ OrderDenied
<1>1. ASSUME ServersInv, SourcesInv, Next PROVE Agrees
  <2>. SUFFICES ASSUME copy = Blank, copy' # Blank, status' = "SUCCESS", oom \in Harmless
                PROVE  Agrees
    OBVIOUS
  <2>1. AresDup
    BY <1>1 DEF Next, Begin, InitByOptions, InitByEnvironment, InitByResolvConf, InitByDefaults,
                DefaultsFail, InitIdKey, Send, AresDestroy, Finish, AresSetServers,
                AresSetServersCsv, Replace, Enter, running
  <2>2. PICK c : c = channel
    OBVIOUS
  <2>3. PICK new : new = InitOptions(Saved(c), env, system, <<>>)
    OBVIOUS
  <2>4. ConfigCheck(c) /\ copy' = Duplicate(c, env, system)
    <3>1. status' = "SUCCESS" => ConfigCheck(channel) /\ copy' = Duplicate(channel, env, system)
      BY <2>1 DEF AresDup
    <3>. QED
      BY <2>2, <3>1
  <2>5. /\ phase = "open" /\ request \in Requests /\ env \in Environments /\ system \in Systems
        /\ Decided(c) /\ Kept(c) /\ (~wanted.given => DecidedServers(c))
        /\ c.servers \in ListType
    BY <1>1, <2>1, <2>2 DEF AresDup, SourcesInv, ServersInv, ShapeKept, Shaping, Shaped, ListType
  <2>6. /\ \A f \in Scalar \ (Undefaulted \cup {"rotate"}) : new.scalar[f] = c.scalar[f]
        /\ new.scalar["rotate"] # c.scalar["rotate"] =>
             c.scalar["rotate"] = "file" /\ c.sortlist.list # <<>>
        /\ ToSet(c.servers.list) \cap V6Servers = {} /\ new.servers # c.servers =>
             \/ c.primary /\ Len(c.servers.list) > 1
             \/ system.android /\ system.dns1 # <<>>
        /\ new.domains = c.domains /\ new.lookups = c.lookups
        /\ new.sortlist # c.sortlist => c.sortlist.list = <<>> /\ OrderDenied
        /\ \A v : [new EXCEPT !.servers = v].servers = v
                 /\ \A f \in Fields \ {"servers"} : [new EXCEPT !.servers = v][f] = new[f]
    BY <2>3, <2>4, <2>5, CopyIs
  <2>7. CASE ToSet(c.servers.list) \cap V6Servers = {}
    <3>1. copy' = new
      BY <2>3, <2>4, <2>7, Zenon DEF Duplicate
    <3>2. ASSUME c.primary, Len(c.servers.list) > 1 PROVE wanted.given
      <4>1. ASSUME DecidedServers(c) PROVE FALSE
        <5>1. c.servers.list = <<Head(DecidingServers)>> \/ c.servers.list = <<>>
          BY <3>2, <4>1 DEF DecidedServers
        <5>2. Len(<<Head(DecidingServers)>>) = 1
          <6>1. \A x : Len(<<x>>) = 1
            OBVIOUS
          <6>. QED
            BY <6>1, Zenon
        <5>3. Len(c.servers.list) = 1 \/ Len(c.servers.list) = 0
          <6>1. CASE c.servers.list = <<Head(DecidingServers)>>
            BY <5>2, <6>1
          <6>2. CASE c.servers.list = <<>>
            BY <6>2
          <6>. QED
            BY <5>1, <6>1, <6>2
        <5>4. PICK n : n = Len(c.servers.list)
          OBVIOUS
        <5>5. n = 1 \/ n = 0
          BY <5>3, <5>4
        <5>6. n > 1
          BY <3>2, <5>4
        <5>. QED
          BY <5>5, <5>6
      <4>. QED
        BY <2>5, <4>1
    <3>3. ASSUME copy'.servers # channel.servers
          PROVE  /\ ToSet(Servers) \cap V6Servers = {}
                 /\ \/ channel.primary /\ wanted.given
                    \/ system.android /\ system.dns1 # <<>>
      <4>1. \/ c.primary /\ Len(c.servers.list) > 1
            \/ system.android /\ system.dns1 # <<>>
        BY <2>2, <2>6, <2>7, <3>1, <3>3
      <4>2. ToSet(Servers) \cap V6Servers = {}
        BY <2>2, <2>7 DEF Servers
      <4>. QED
        BY <2>2, <3>2, <4>1, <4>2
    <3>4. \A f \in Scalar \ (Undefaulted \cup {"rotate"}) : copy'.scalar[f] = channel.scalar[f]
      BY <2>2, <2>6, <3>1
    <3>5. copy'.scalar["rotate"] # channel.scalar["rotate"] =>
            channel.scalar["rotate"] = "file" /\ channel.sortlist.list # <<>>
      BY <2>2, <2>6, <3>1
    <3>6. /\ copy'.domains = channel.domains
          /\ copy'.lookups = channel.lookups
          /\ copy'.sortlist # channel.sortlist => channel.sortlist.list = <<>> /\ OrderDenied
      BY <2>2, <2>6, <3>1
    <3>. QED
      BY <3>3, <3>4, <3>5, <3>6
  <2>8. CASE ToSet(c.servers.list) \cap V6Servers # {}
    <3>1. copy' = [new EXCEPT !.servers = Given(c.servers.list)]
      BY <2>3, <2>4, <2>8, Zenon DEF Duplicate, AresGetServers
    <3>2. Given(c.servers.list) = c.servers
      BY <2>4, <2>5 DEF Given, ListType, ConfigCheck
    <3>3. copy'.servers = c.servers /\ \A f \in Fields \ {"servers"} : copy'[f] = new[f]
      BY <2>6, <3>1, <3>2
    <3>4. /\ copy'.scalar = new.scalar /\ copy'.domains = new.domains
          /\ copy'.lookups = new.lookups /\ copy'.sortlist = new.sortlist
      BY <3>3 DEF Fields
    <3>. QED
      BY <2>2, <2>6, <3>3, <3>4
  <2>. QED
    BY <2>7, <2>8
<1>2. ServersInv /\ SourcesInv /\ [Next]_vars => [Agrees]_vars
  BY <1>1
<1>3. DupFaithful <=> [][Agrees]_vars
  BY DEF DupFaithful, Harmless
<1>. QED
  BY <1>2, <1>3, ServersAlways, SourcesAlways, PTL DEF Spec
=============================================================================
