----------------------------- MODULE AresConfig -----------------------------
(***************************************************************************)
(* How a channel gets its configuration, copies it and loses it:           *)
(* ares_init_options with its four sources, ares_save_options and ares_dup *)
(* (ares_init.c), ares_get_servers and ares_set_servers* (ares_options.c), *)
(* and the release of what it allocated (ares_destroy.c).                  *)
(*                                                                         *)
(* A scalar option is worth the name of the source that gave it.  A file   *)
(* is a sequence of lines, a line a keyword and what follows it, already   *)
(* split into words.  One allocation may fail, the one named oom.          *)
(***************************************************************************)
EXTENDS Integers, Sequences, SequencesExt

CONSTANTS
  Requests,      \* the options an application may pass to ares_init_options
  Environments,  \* LOCALDOMAIN and RES_OPTIONS
  Systems,       \* the files of the host, net.dns1 and its host name
  Failures,      \* what may fail: an allocation, or the library is not initialised
  V6Servers,     \* which addresses are not IPv4
  NewServers,    \* the lists passed to ares_set_servers
  Csvs,          \* the entries of the strings passed to ares_set_servers_csv
  MaxSends       \* bound: queries in flight

\* What is not an address is the word "junk"; ares_set_servers takes addresses;
\* a line of resolv.conf with a keyword but nothing behind it is no such line.
ASSUME RequestsAssumption ==
  \A r \in Requests : /\ {r.servers, r.domains} \subseteq [given : BOOLEAN, list : Seq(STRING)]
                      /\ r.sortlist.list # <<>> => r.sortlist.given
ASSUME EnvironmentsAssumption ==
  \A e \in Environments : e.search \in [given : BOOLEAN, list : Seq(STRING)]
ASSUME SystemsAssumption ==
  \A s \in Systems :
    /\ s.dns1 \in Seq(STRING)
    /\ s.resolv.lines \in Seq([key : STRING, words : Seq(STRING)])
    /\ \A i \in DOMAIN s.resolv.lines :
         s.resolv.lines[i].key \in {"domain", "search", "lookup"} => s.resolv.lines[i].words # <<>>
ASSUME ListsAssumption ==
  /\ NewServers \cup Csvs \subseteq Seq(STRING)
  /\ \A list \in NewServers : "junk" \notin ToSet(list)

Scalar == {"flags", "timeout", "tries", "ndots", "rotate", "udp_port", "tcp_port",
           "send_buffer", "receive_buffer"}

\* What set_options understands, and what has no default.
Textual == {"timeout", "tries", "ndots", "rotate"}
Undefaulted == {"send_buffer", "receive_buffer"}

\* A list that may be unset (its count is -1).
Unset == [given |-> FALSE, list |-> <<>>]
Given(list) == [given |-> TRUE, list |-> list]

\* Nothing has been set.  array says whether domains points to an array.
Blank == [scalar |-> [f \in Scalar |-> "unset"], primary |-> FALSE, optRotate |-> FALSE,
          servers |-> Unset, domains |-> Unset, array |-> FALSE, lookups |-> Unset,
          sortlist |-> Unset]

VARIABLES
  phase,      \* how far ares_init_options is, or what became of the channel
  request,    \* options and optmask
  env,
  system,
  oom,        \* the allocation that fails, or "none"
  status,     \* the status of the last stage
  channel,    \* struct ares_channeldata
  lastServer, \* channel->last_server
  inflight,   \* queries under way: the index of their server and its address
  wanted,     \* history: the last list passed to ares_set_servers*, and if it was a text
  copy,       \* the result of ares_dup, or Blank
  freed       \* how often each block was passed to free

inputs == <<request, env, system, oom>>
running == <<lastServer, inflight, wanted, copy, freed>>
vars == <<phase, inputs, status, channel, running>>

Block == {"channel", "servers", "array", "domain", "sortlist", "lookups"}

-----------------------------------------------------------------------------
(* Values from one source *)

\* Each scalar is set only if nothing set it before.
Scalars(c, values) ==
  [c EXCEPT !.scalar = [f \in Scalar |-> IF @[f] = "unset" THEN values[f] ELSE @[f]]]

\* Mutant: an option of the text sources replaces what was set before.
LateTextOptions(c, fields, source) ==
  [c EXCEPT !.scalar = [f \in Scalar |-> IF f \in fields THEN source ELSE @[f]]]

\* set_options: the words of RES_OPTIONS or of an options line.
SetOptions(c, fields, source) ==
  Scalars(c, [f \in Scalar |-> IF f \in fields \cap Textual THEN source ELSE "unset"])

\* set_search frees the domains there are, whoever set them, and copies the
\* words; if a copy fails the domains before it stay.
SetSearch(c, words, fails) ==
  [c EXCEPT !.domains = IF fails = "array" /\ words # <<>> THEN Unset
                        ELSE IF fails = "item" THEN Given(Front(words))
                        ELSE Given(words),
            !.array = words # <<>> /\ fails # "array"]

\* config_lookup: the first two words that begin with one of the letters.
ConfigLookup(words, bindch, filech) ==
  LET known == SelectSeq(words, LAMBDA w : w \in {bindch, filech})
  IN  Given([i \in 1 .. (IF Len(known) > 2 THEN 2 ELSE Len(known)) |->
               IF known[i] = bindch THEN "b" ELSE "f"])

\* A list and behind it the words that are not left out.
Appended(list, words, out) ==
  LET read[n \in 0 .. Len(words)] ==
        IF n = 0 THEN list
        ELSE IF words[n] \in out THEN read[n - 1] ELSE Append(read[n - 1], words[n])
  IN  read[Len(words)]

\* config_nameserver ignores what is not an address.
ConfigNameserver(list, words) == Appended(list, words, {"junk"})

\* ARES_CONFIG_CHECK
ConfigCheck(c) ==
  /\ c.lookups.given /\ c.sortlist.given /\ c.servers.given /\ c.domains.given
  /\ \A f \in {"ndots", "timeout", "tries"} : c.scalar[f] # "unset"

-----------------------------------------------------------------------------
(* The stages of ares_init_options *)

\* The lists of init_by_options; a list without entries allocates nothing,
\* and a sort list without entries is no sort list.
OptionServers(c, r) ==
  IF r.servers.given /\ ~c.servers.given THEN [c EXCEPT !.servers = r.servers] ELSE c

OptionDomains(c, r, fails) ==
  IF ~r.domains.given \/ c.domains.given THEN c
  ELSE SetSearch(c, r.domains.list, fails)

OptionLookups(c, r) ==
  IF r.lookups.given /\ ~c.lookups.given THEN [c EXCEPT !.lookups = r.lookups] ELSE c

OptionSortlist(c, r) ==
  IF r.sortlist.given /\ ~c.sortlist.given /\ r.sortlist.list # <<>>
  THEN [c EXCEPT !.sortlist = r.sortlist] ELSE c

\* Which allocation of init_by_options fails, if it comes to that.
OptionFailure(r, o) ==
  IF \/ o = "opt servers" /\ r.servers.given /\ r.servers.list # <<>>
     \/ o \in {"opt array", "opt item"} /\ r.domains.given /\ r.domains.list # <<>>
     \/ o = "opt lookups" /\ r.lookups.given
     \/ o = "opt sortlist" /\ r.sortlist.given /\ r.sortlist.list # <<>>
  THEN o ELSE "none"

\* init_by_options: the steps up to the one that fails.
ByOptions(c, r, fails) ==
  LET start == [Scalars(c, r.scalar) EXCEPT
                  !.primary = r.primary /\ r.scalar["flags"] # "unset"]
      s == OptionServers(start, r)
      d == OptionDomains(s, r, "none")
      l == OptionLookups(d, r)
  IN  CASE fails = "opt servers"  -> start
        [] fails = "opt array"    -> s
        [] fails = "opt item"     -> OptionDomains(s, r, "item")
        [] fails = "opt lookups"  -> d
        [] fails = "opt sortlist" -> l
        [] OTHER -> [OptionSortlist(l, r) EXCEPT !.optRotate = r.scalar["rotate"] # "unset"]

\* init_by_environment
EnvironmentFailure(c, e, o) ==
  IF o \in {"env array", "env item"} /\ e.search.given /\ ~c.domains.given
     /\ e.search.list # <<>>
  THEN o ELSE "none"

ByEnvironment(c, e, fails) ==
  LET d == IF ~e.search.given \/ c.domains.given THEN c
           ELSE SetSearch(c, e.search.list, IF fails = "env array" THEN "array"
                                            ELSE IF fails = "env item" THEN "item" ELSE "none")
  IN  IF fails # "none" THEN d ELSE SetOptions(d, e.options, "environment")

\* The state of init_by_resolv_conf: the channel, its local servers and sort
\* list, and its status.
Reader(c) == [c |-> c, servers |-> <<>>, sortlist |-> <<>>, status |-> "SUCCESS"]

\* One line of resolv.conf, in the order of its tests; a line whose test
\* fails because the value is set already falls through to the others, which
\* do not match its keyword.
ConfLine(r, line, o) ==
  IF r.status # "SUCCESS" THEN r
  ELSE CASE line.key = "domain" /\ o = "file search" ->
              [r EXCEPT !.c = SetSearch(@, <<Head(line.words)>>, "array"), !.status = "ENOMEM"]
         [] line.key = "domain" /\ o # "file search" ->
              [r EXCEPT !.c = SetSearch(@, <<Head(line.words)>>, "none")]
         [] line.key = "search" /\ o = "file search" ->
              [r EXCEPT !.c = SetSearch(@, line.words, "item"), !.status = "ENOMEM"]
         [] line.key = "search" /\ o # "file search" ->
              [r EXCEPT !.c = SetSearch(@, line.words, "none")]
         [] line.key = "lookup" /\ ~r.c.lookups.given ->
              IF o = "file lookup" THEN [r EXCEPT !.status = "ENOMEM"]
              ELSE [r EXCEPT !.c.lookups = ConfigLookup(line.words, "b", "f")]
         [] line.key = "nameserver" /\ ~r.c.servers.given ->
              IF o = "file servers" /\ line.words # <<"junk">> THEN [r EXCEPT !.status = "ENOMEM"]
              ELSE [r EXCEPT !.servers = ConfigNameserver(@, line.words)]
         [] line.key = "sortlist" /\ ~r.c.sortlist.given ->
              IF o = "file sortlist" THEN [r EXCEPT !.status = "ENOMEM"]
              ELSE [r EXCEPT !.sortlist = @ \o line.words]
         [] line.key = "options" -> [r EXCEPT !.c = SetOptions(@, ToSet(line.words), "file")]
         [] OTHER -> r

\* Reading a file to its end: a missing file is an empty one, any other
\* failure to open it an error.
Opened(r, file) == IF file.open = "denied" THEN [r EXCEPT !.status = "EFILE"] ELSE r

AtEnd(r) == [r EXCEPT !.status = IF @ = "SUCCESS" THEN "EOF" ELSE @]

ResolvConf(c, file, o) ==
  LET read[n \in 0 .. Len(file.lines)] ==
        IF n = 0 THEN Opened(Reader(c), file) ELSE ConfLine(read[n - 1], file.lines[n], o)
  IN  AtEnd(read[Len(file.lines)])

\* One of the files that name the order of lookups; errors of config_lookup
\* are ignored, the next line is tried.
OrderFile(r, file, bindch, filech, o) ==
  IF r.status # "EOF" \/ r.c.lookups.given THEN r
  ELSE IF file.open = "denied" THEN [r EXCEPT !.status = "EFILE"]
  ELSE IF file.lines = <<>> \/ o = "file lookup" THEN r
  ELSE [r EXCEPT !.c.lookups = ConfigLookup(file.lines[1].words, bindch, filech)]

\* What was read is only used if every file could be read to its end.
Settled(r) ==
  IF r.status # "EOF" THEN r.c
  ELSE [r.c EXCEPT !.servers = IF r.servers # <<>> THEN Given(r.servers) ELSE @,
                   !.sortlist = IF r.sortlist # <<>> THEN Given(r.sortlist) ELSE @]

AllFiles(c, s, o) ==
  IF s.android
  THEN IF o = "file servers" /\ s.dns1 # <<"junk">> /\ s.dns1 # <<>>
       THEN [Reader(c) EXCEPT !.status = "ENOMEM"]
       ELSE [Reader(c) EXCEPT !.servers = ConfigNameserver(<<>>, s.dns1), !.status = "EOF"]
  ELSE IF ConfigCheck(c) THEN [Reader(c) EXCEPT !.status = "EOF"]
  ELSE OrderFile(
         OrderFile(
           OrderFile(ResolvConf(c, s.resolv, o), s.nsswitch, "d", "f", o),
           s.host, "b", "h", o),
         s.svc, "b", "l", o)

\* init_by_defaults.  A host name too long for the buffer leaves the buffer
\* it is read from unwritten: it may show a domain or not.
HostDomains(name) ==
  CASE name = "dotted" -> {<<"hostdomain">>}
    [] name = "plain"  -> {<<>>}
    [] name = "long"   -> {<<>>, <<"junk">>}
    [] OTHER           -> {<<>>}

ByDefaults(c, domains) ==
  LET d == IF c.domains.given THEN c
           ELSE [c EXCEPT !.domains = Given(domains), !.array = domains # <<>>]
      v == Scalars(d, [f \in Scalar |-> IF f \in Undefaulted THEN "unset" ELSE "default"])
  IN  [v EXCEPT !.servers = IF @.given THEN @ ELSE Given(<<"loopback">>),
                !.sortlist = IF @.given THEN @ ELSE Given(<<>>),
                !.lookups = IF @.given THEN @ ELSE Given(<<"f", "b">>)]

\* Whether init_by_defaults fails, and the channel at that point.
DefaultFailure(c, s, o) ==
  CASE o = "def servers" /\ ~c.servers.given -> "servers"
    [] s.hostname = "unknown" /\ ~c.domains.given -> "hostname"
    [] o = "def hostname" /\ ~c.domains.given -> "hostname"
    [] o = "def array" /\ ~c.domains.given /\ s.hostname = "dotted" -> "array"
    [] o = "def domain" /\ ~c.domains.given /\ s.hostname = "dotted" -> "domain"
    [] o = "def lookups" /\ ~c.lookups.given -> "lookups"
    [] OTHER -> "none"

\* PRIMARY keeps the first server only, when the channel is made.
Trimmed(c) ==
  IF c.primary /\ Len(c.servers.list) > 1
  THEN [c EXCEPT !.servers.list = <<Head(@)>>] ELSE c

\* ares_init_options without a failure; a request of ares_dup among others.
InitOptions(r, e, s, domains) ==
  Trimmed(ByDefaults(Settled(AllFiles(ByEnvironment(ByOptions(Blank, r, "none"), e, "none"),
                                      s, "none")), domains))

-----------------------------------------------------------------------------
(* Copying and releasing *)

\* ares_save_options: IPv4 servers only, rotate only if the options gave it.
Saved(c) ==
  [scalar |-> [f \in Scalar |->
                 IF f \in Undefaulted \/ (f = "rotate" /\ ~c.optRotate) THEN "unset"
                 ELSE c.scalar[f]],
   primary |-> c.primary,
   servers |-> Given(Appended(<<>>, c.servers.list, V6Servers)),
   domains |-> c.domains, lookups |-> c.lookups, sortlist |-> c.sortlist]

\* ares_get_servers; without a list there is none to copy.
AresGetServers(c) == c.servers.list

\* Mutant: the servers that are not IPv4 are not copied a second time.
OnlySaved(c, e, s) == InitOptions(Saved(c), e, s, <<>>)

\* ares_dup: the saved options, and all servers again if some are not IPv4.
\* The host name is not asked for, there are domains.
Duplicate(c, e, s) ==
  LET new == InitOptions(Saved(c), e, s, <<>>)
  IN  IF ToSet(c.servers.list) \cap V6Servers = {} THEN new
      ELSE [new EXCEPT !.servers = Given(AresGetServers(c))]

\* What the pointers of a channel reach.
Owned(c) ==
  {"channel"} \cup (IF c.servers.list # <<>> THEN {"servers"} ELSE {})
              \cup (IF c.array THEN {"array"} ELSE {})
              \cup (IF c.array /\ c.domains.list # <<>> THEN {"domain"} ELSE {})
              \cup (IF c.sortlist.list # <<>> THEN {"sortlist"} ELSE {})
              \cup (IF c.lookups.given THEN {"lookups"} ELSE {})

\* Mutant: the sort list is forgotten.
CleanUpButSortlist(c) == [b \in Block |-> IF b \in Owned(c) \ {"sortlist"} THEN 1 ELSE 0]

\* The clean-up of ares_init_options and of ares_destroy.
CleanUp(c) == [b \in Block |-> IF b \in Owned(c) THEN 1 ELSE 0]

\* The clean-up of init_by_defaults, which leaves the pointers as they are,
\* followed by the one of its caller.
CleanUpTwice(c) ==
  [b \in Block |-> CleanUp(c)[b] + IF b \in {"channel", "sortlist"} THEN 0 ELSE CleanUp(c)[b]]

\* Where init_by_defaults stops.
Stopped(c, fails, domains) ==
  LET all == ByDefaults(c, domains)
  IN  CASE fails = "servers"             -> [all EXCEPT !.servers = Unset, !.domains = c.domains,
                                               !.array = c.array, !.sortlist = c.sortlist,
                                               !.lookups = c.lookups]
        [] fails \in {"hostname", "array", "domain"} ->
             [all EXCEPT !.domains = Given(<<>>), !.array = (fails = "domain"),
                         !.sortlist = c.sortlist, !.lookups = c.lookups]
        [] fails = "lookups"             -> [all EXCEPT !.lookups = Unset]

-----------------------------------------------------------------------------
(* Making a channel *)

NoneWanted == [given |-> FALSE, list |-> <<>>, text |-> FALSE]
Wanted(list, text) == [given |-> TRUE, list |-> list, text |-> text]

Init ==
  /\ phase = "start" /\ status = "SUCCESS" /\ channel = Blank
  /\ request \in Requests /\ env \in Environments /\ system \in Systems /\ oom \in Failures
  /\ lastServer = 0 /\ inflight = <<>> /\ wanted = NoneWanted /\ copy = Blank
  /\ freed = [b \in Block |-> 0]

Enter(stage, result, c) ==
  /\ phase' = stage /\ status' = result /\ channel' = c
  /\ UNCHANGED <<inputs, running>>

\* A stage that fails is followed by the defaults, whatever comes between.
Begin ==
  /\ phase = "start"
  /\ CASE oom = "library" -> Enter("refused", "ENOTINITIALIZED", Blank)
       [] oom = "channel" -> Enter("refused", "ENOMEM", Blank)
       [] OTHER           -> Enter("options", "SUCCESS", Blank)

InitByOptions ==
  /\ phase = "options"
  /\ LET fails == OptionFailure(request, oom)
     IN  IF fails = "none" THEN Enter("environment", "SUCCESS", ByOptions(channel, request, fails))
         ELSE Enter("defaults", "ENOMEM", ByOptions(channel, request, fails))

InitByEnvironment ==
  /\ phase = "environment"
  /\ LET fails == EnvironmentFailure(channel, env, oom)
     IN  IF fails = "none" THEN Enter("file", "SUCCESS", ByEnvironment(channel, env, fails))
         ELSE Enter("defaults", "ENOMEM", ByEnvironment(channel, env, fails))

InitByResolvConf ==
  /\ phase = "file"
  /\ LET r == AllFiles(channel, system, oom)
     IN  Enter("defaults", IF r.status = "EOF" THEN "SUCCESS" ELSE r.status, Settled(r))

InitByDefaults ==
  /\ phase = "defaults"
  /\ DefaultFailure(channel, system, oom) = "none"
  /\ \E domains \in HostDomains(system.hostname) :
       Enter("key", "SUCCESS", ByDefaults(channel, domains))

\* init_by_defaults cleans up what it finds, and ares_init_options again.
DefaultsFail ==
  LET fails == DefaultFailure(channel, system, oom)
  IN  /\ phase = "defaults" /\ fails # "none"
      /\ \E domains \in HostDomains(system.hostname) :
           channel' = Stopped(channel, fails, domains)
      /\ phase' = "failed" /\ freed' = CleanUpTwice(channel')
      /\ status' = IF fails = "hostname" /\ oom # "def hostname" THEN "EBADNAME" ELSE "ENOMEM"
      /\ UNCHANGED <<inputs, lastServer, inflight, wanted, copy>>

\* init_id_key: what the key is worth does not matter here.
KeyStatus == IF oom = "key" THEN "ENOMEM" ELSE "SUCCESS"

InitIdKey ==
  /\ phase = "key"
  /\ IF KeyStatus # "SUCCESS"
     THEN /\ phase' = "failed" /\ status' = KeyStatus /\ freed' = CleanUp(channel)
          /\ UNCHANGED <<inputs, channel, lastServer, inflight, wanted, copy>>
     ELSE Enter("open", "SUCCESS", Trimmed(channel))

-----------------------------------------------------------------------------
(* A channel in use *)

Servers == channel.servers.list

\* ares_send: without a list the size of server_info is negative and the
\* allocation fails; an index beyond the list, or no server at all, is
\* memory the channel does not have.
Send ==
  /\ phase = "open" /\ Len(inflight) < MaxSends
  /\ channel.servers.given
  /\ IF lastServer < Len(Servers)
     THEN /\ inflight' = Append(inflight, [index |-> lastServer, address |-> Servers[lastServer + 1]])
          /\ phase' = phase
     ELSE phase' = "crashed" /\ inflight' = inflight
  /\ lastServer' = IF channel.scalar["rotate"] # "default" /\ Servers # <<>>
                   THEN (lastServer + 1) % Len(Servers) ELSE lastServer
  /\ UNCHANGED <<inputs, status, channel, wanted, copy, freed>>

\* A query ends, by its answer or otherwise.
Finish(i) ==
  /\ phase = "open" /\ i \in DOMAIN inflight
  /\ inflight' = RemoveAt(inflight, i)
  /\ UNCHANGED <<phase, inputs, status, channel, lastServer, wanted, copy, freed>>

\* Mutant: the servers are replaced under the queries that use them.
ReplaceAnyway(list, result) ==
  /\ phase' = phase /\ status' = result
  /\ channel' = [channel EXCEPT !.servers = IF list # <<>> /\ result = "SUCCESS"
                                            THEN Given(list) ELSE Unset]
  /\ UNCHANGED <<inputs, lastServer, inflight, copy, freed>>

\* ares__destroy_servers_state: the program ends where a server still has
\* queries.
Replace(list, result) ==
  /\ IF inflight # <<>> THEN phase' = "aborted" /\ UNCHANGED <<status, channel>>
     ELSE /\ phase' = phase /\ status' = result
          /\ channel' = [channel EXCEPT !.servers = IF list # <<>> /\ result = "SUCCESS"
                                                    THEN Given(list) ELSE Unset]
  /\ UNCHANGED <<inputs, lastServer, inflight, copy, freed>>

AresSetServers(list) ==
  /\ phase = "open"
  /\ wanted' = Wanted(list, FALSE)
  /\ Replace(list, IF oom = "set servers" /\ list # <<>> THEN "ENOMEM" ELSE "SUCCESS")

\* Mutant: every entry replaces the one before it.
OnlyTail(entries) == IF entries = <<>> THEN <<>> ELSE <<Last(entries)>>

\* The tail of the list of entries stays at its first node.
Listed(entries) ==
  IF Len(entries) > 2 THEN <<Head(entries), Last(entries)>> ELSE entries

AresSetServersCsv(entries) ==
  /\ phase = "open"
  /\ wanted' = Wanted(entries, TRUE)
  /\ Replace(Listed(entries),
             CASE "junk" \in ToSet(entries) -> "EBADSTR"
               [] "junk" \notin ToSet(entries) /\ entries # <<>>
                    /\ oom \in {"set servers", "csv entry"} -> "ENOMEM"
               [] OTHER -> "SUCCESS")

\* ares_dup.  A failure after the new channel exists leaves it to the caller,
\* without its servers if they were lost.
AresDup ==
  /\ phase = "open" /\ copy = Blank
  /\ LET again == ToSet(Servers) \cap V6Servers # {}
         new == Duplicate(channel, env, system)
     IN  CASE ~ConfigCheck(channel) -> status' = "ENODATA" /\ copy' = copy
           [] ConfigCheck(channel) /\ oom = "save" -> status' = "ENOMEM" /\ copy' = copy
           [] ConfigCheck(channel) /\ again /\ oom = "get servers" ->
                status' = "ENOMEM" /\ copy' = InitOptions(Saved(channel), env, system, <<>>)
           [] ConfigCheck(channel) /\ again /\ oom = "set servers" ->
                status' = "ENOMEM" /\ copy' = [new EXCEPT !.servers = Unset]
           [] OTHER -> status' = "SUCCESS" /\ copy' = new
  /\ UNCHANGED <<phase, inputs, channel, lastServer, inflight, wanted, freed>>

\* ares_destroy ends the queries first.
AresDestroy ==
  /\ phase = "open"
  /\ phase' = "destroyed" /\ inflight' = <<>> /\ freed' = CleanUp(channel)
  /\ UNCHANGED <<inputs, status, channel, lastServer, wanted, copy>>

Next ==
  \/ Begin \/ InitByOptions \/ InitByEnvironment \/ InitByResolvConf
  \/ InitByDefaults \/ DefaultsFail \/ InitIdKey
  \/ Send \/ AresDup \/ AresDestroy
  \/ \E i \in 1 .. MaxSends : Finish(i)
  \/ \E list \in NewServers : AresSetServers(list)
  \/ \E entries \in Csvs : AresSetServersCsv(entries)

Spec == Init /\ [][Next]_vars

-----------------------------------------------------------------------------
(* Properties *)

TypeOK ==
  /\ phase \in {"start", "refused", "options", "environment", "file", "defaults", "key",
                "open", "failed", "crashed", "aborted", "destroyed"}
  /\ status \in {"SUCCESS", "ENOMEM", "EBADNAME", "EFILE", "EBADSTR", "ENODATA",
                 "ENOTINITIALIZED"}
  /\ lastServer \in Nat /\ Len(inflight) <= MaxSends
  /\ freed \in [Block -> 0 .. 2]

\* What each source offers, and the stages in between, stated independently.
FileRead == ~ system.android /\ system.resolv.open # "denied"
            /\ ~ ConfigCheck(ByEnvironment(ByOptions(Blank, request, "none"), env, "none"))
\* A file for the order of lookups is opened unless one before it has a line.
OrderFiles == <<system.nsswitch, system.host, system.svc>>
OrderDenied == \E i \in DOMAIN OrderFiles : /\ OrderFiles[i].open = "denied"
                                            /\ \A k \in 1 .. i - 1 : OrderFiles[k].lines = <<>>
FileWords(keys) ==
  FlattenSeq([i \in DOMAIN system.resolv.lines |->
                IF FileRead /\ system.resolv.lines[i].key \in keys
                THEN system.resolv.lines[i].words ELSE <<>>])
NameServers ==
  ConfigNameserver(<<>>, IF system.android THEN system.dns1 ELSE FileWords({"nameserver"}))
Offer(f) ==
  CASE request.scalar[f] # "unset" -> request.scalar[f]
    [] request.scalar[f] = "unset" /\ f \in Textual \cap env.options -> "environment"
    [] request.scalar[f] = "unset" /\ f \in (Textual \ env.options) \cap ToSet(FileWords({"options"})) ->
         "file"
    [] OTHER -> IF f \in Undefaulted THEN "unset" ELSE "default"

\* The file for the order of lookups that costs what resolv.conf says.
Unreadable == /\ FileRead /\ ~ request.lookups.given /\ FileWords({"lookup"}) = <<>>
              /\ OrderDenied
OfferedServers ==
  IF request.servers.given THEN request.servers.list
  ELSE IF NameServers = <<>> \/ Unreadable THEN <<"loopback">> ELSE NameServers

\* A file that says where to search, and net.dns1, although options or
\* LOCALDOMAIN take precedence (PrecedenceKept has what should come of it).
Searched == FileWords({"domain", "search"}) # <<>>
Overridden == request.servers.given /\ system.android /\ NameServers # <<>>

\* The source with the highest precedence decides each value (ares_init.c:200)
\* when nothing fails; but a file for the order of lookups that cannot be
\* opened costs the servers and the sort list of resolv.conf.  Whatever fails,
\* a channel in use has a value for everything, the scalars the application
\* gave among them, and as many domains as it counts.  Nothing is said of
\* domains that a file gives as well as options or LOCALDOMAIN, and of servers
\* that net.dns1 gives as well as options.
Precedence ==
  /\ phase = "open" =>
       /\ ~ wanted.given => ConfigCheck(channel)
       /\ channel.domains.list # <<>> => channel.array
       /\ \A f \in Scalar : request.scalar[f] # "unset" => channel.scalar[f] = request.scalar[f]
  /\ phase = "open" /\ oom = "none" =>
       /\ \A f \in Scalar : channel.scalar[f] = Offer(f)
       /\ ~ wanted.given /\ ~ Overridden =>
            channel.servers.list = IF channel.primary /\ OfferedServers # <<>>
                                   THEN <<Head(OfferedServers)>> ELSE OfferedServers
       /\ ~ Searched /\ request.domains.given => channel.domains = request.domains
       /\ ~ Searched /\ ~ request.domains.given /\ env.search.given =>
            channel.domains = env.search
       /\ Searched /\ ~ request.domains.given /\ ~ env.search.given =>
            ToSet(channel.domains.list) \subseteq ToSet(FileWords({"domain", "search"}))
       /\ request.lookups.given => channel.lookups = request.lookups
       /\ channel.sortlist.list =
            IF request.sortlist.list # <<>> THEN request.sortlist.list
            ELSE IF Unreadable THEN <<>> ELSE FileWords({"sortlist"})

\* The servers in use are the ones last set, whatever was set before and
\* whatever failed: all that ares_set_servers was given, in its order; no list
\* is a mixture of two, none holds what is not an address, and after a failure
\* there are none.  Of a text of three entries and more (ares_options.c:222)
\* no more is said than that the servers are among them and the ends are kept;
\* ListComplete has what should be true of it.
ServersAsListed ==
  phase \in {"open", "crashed"} /\ wanted.given =>
    /\ "junk" \notin ToSet(Servers)
    /\ channel.servers.given =>
         /\ ~ wanted.text \/ Len(wanted.list) <= 2 => Servers = wanted.list
         /\ ToSet(Servers) \subseteq ToSet(wanted.list)
         /\ {Head(wanted.list), Last(wanted.list)} = {Head(Servers), Last(Servers)}
    /\ ~ channel.servers.given =>
         \/ wanted.list = <<>>
         \/ "junk" \in ToSet(wanted.list)
         \/ oom # "none"

\* A query in flight never refers to another server than the one it was given,
\* although it keeps an index and lists are replaced (ares_options.c:100); and
\* an index outside the list, from last_server, takes a channel that rotates
\* and a list replaced by a shorter one, or a list without entries.
ServersInUse ==
  /\ phase = "open" =>
       \A i \in DOMAIN inflight :
         /\ inflight[i].index < Len(Servers)
         /\ Servers[inflight[i].index + 1] = inflight[i].address
  /\ phase = "crashed" =>
       \/ Servers = <<>>
       \/ channel.scalar["rotate"] # "default" /\ wanted.given /\ lastServer < Len(Servers)

\* A copy made without an error of a channel made without one has what the
\* source has although it reads the environment and the files again.  Nothing
\* is said of the sizes of socket buffers, and of: rotation that only
\* resolv.conf asked for, when the saved options are complete and the file is
\* not read again; IPv4 servers set later on a channel that keeps its first
\* server only, or where net.dns1 is read again; the sort list of resolv.conf,
\* which the source lost because a file for the order of lookups could not be
\* opened and which the copy does not open.  CopyExact has what should be true.
DupFaithful ==
  [][copy = Blank /\ copy' # Blank /\ status' = "SUCCESS" /\ oom \in {"none", "set servers", "csv entry"} =>
       /\ \A f \in Scalar \ (Undefaulted \cup {"rotate"}) :
            (copy'.scalar[f] = channel.scalar[f])
       /\ copy'.scalar["rotate"] # channel.scalar["rotate"] =>
            channel.scalar["rotate"] = "file" /\ channel.sortlist.list # <<>>
       /\ copy'.servers # channel.servers =>
            /\ ToSet(Servers) \cap V6Servers = {}
            /\ \/ channel.primary /\ wanted.given
               \/ system.android /\ system.dns1 # <<>>
       /\ copy'.domains = channel.domains
       /\ copy'.lookups = channel.lookups
       /\ copy'.sortlist # channel.sortlist =>
            channel.sortlist.list = <<>> /\ OrderDenied]_vars

\* A channel that ends, or cannot be made, leaves nothing behind and releases
\* nothing twice, whichever stage allocated it and however often lists were
\* replaced; but what a failing init_by_defaults releases its caller releases
\* again (ares_init.c:1266), all but the sort list and the channel.
Released ==
  LET ended == phase \in {"destroyed", "failed"}
      \* how often is what init_by_defaults releases as well released
      times == IF phase = "destroyed" THEN {1}
               ELSE IF oom # "key" THEN {2}
               ELSE IF system.hostname = "unknown" THEN {1, 2} ELSE {1}
      Frees(b, held, often) == IF ended /\ held THEN freed[b] \in often ELSE freed[b] = 0
  IN  /\ Frees("channel", TRUE, {1})
      /\ Frees("sortlist", channel.sortlist.list # <<>>, {1})
      /\ Frees("servers", Servers # <<>>, times)
      /\ Frees("array", channel.array, times)
      /\ Frees("domain", channel.array /\ channel.domains.list # <<>>, times)
      /\ Frees("lookups", channel.lookups.given, times)

-----------------------------------------------------------------------------
(* What the documents say beyond that *)

\* "The domains to search, instead of the domains specified in resolv.conf"
\* (ares_init.3:106), and the sources go "from highest precedence to lowest"
\* (ares_init.c:200): the options decide.
PrecedenceKept ==
  /\ request.domains.given => channel.domains = request.domains
  /\ request.servers.given /\ ~ wanted.given => ToSet(Servers) \subseteq ToSet(request.servers.list)

\* "replaces any potentially previously configured name servers with the ones
\* given" (ares_set_servers.3:38), in the text form "host[:port][,host[:port]]..."
\* too (ares_options.c:134).
ListComplete == wanted.given /\ channel.servers.given => Servers = wanted.list

\* "with additional options set exactly as the source channel has them
\* configured" (ares_dup.3:32).
CopyExact == copy.scalar = channel.scalar

\* Of the options, the list of servers and the copy of a channel in use, none
\* of whose allocations failed, one at least is as the documents say.  Where
\* it fails, each of the three promises is broken.
ConfigAsDocumented ==
  phase = "open" /\ oom = "none" /\ copy # Blank => PrecedenceKept \/ ListComplete \/ CopyExact

=============================================================================
