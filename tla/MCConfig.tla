------------------------------ MODULE MCConfig ------------------------------
(* Small sets of options, environments, hosts and lists for AresConfig. *)
EXTENDS AresConfig

MCScalars(fields) == [f \in Scalar |-> IF f \in fields THEN "options" ELSE "unset"]

MCNoOptions == [scalar |-> MCScalars({}), primary |-> FALSE, servers |-> Unset,
                domains |-> Unset, lookups |-> Unset, sortlist |-> Unset]

\* Everything but the sort list decides whether the files are read.
MCAllOptions == [scalar |-> MCScalars({"flags", "timeout", "tries", "ndots", "udp_port", "send_buffer"}),
                 primary |-> TRUE,
                 servers |-> Given(<<"s1", "s2">>), domains |-> Given(<<"d1", "d2">>),
                 lookups |-> Given(<<"b">>), sortlist |-> Given(<<"n1">>)]

MCRequests == {
  MCNoOptions,
  [MCNoOptions EXCEPT !.scalar = MCScalars({"flags", "rotate", "timeout"}), !.domains = Given(<<"d1">>)],
  MCAllOptions,
  [MCAllOptions EXCEPT !.sortlist = Unset, !.primary = FALSE, !.servers = Given(<<>>)],
  [MCNoOptions EXCEPT !.servers = Given(<<"s1", "s2">>), !.sortlist = Given(<<>>)]}

MCEnvironments == {
  [search |-> Unset, options |-> {}],
  [search |-> Given(<<"e1">>), options |-> {"ndots", "rotate", "other"}],
  [search |-> Given(<<>>), options |-> {"timeout", "tries"}]}

MCLine(key, words) == [key |-> key, words |-> words]
MCFile(lines) == [open |-> "found", lines |-> lines]
MCAbsent == [open |-> "absent", lines |-> <<>>]
MCDenied == [open |-> "denied", lines |-> <<>>]

MCHost == [android |-> FALSE, dns1 |-> <<>>, hostname |-> "dotted",
           resolv |-> MCFile(<<MCLine("nameserver", <<"s1">>), MCLine("nameserver", <<"junk">>),
                               MCLine("nameserver", <<"v6">>), MCLine("search", <<"f1", "f2">>),
                               MCLine("options", <<"tries", "rotate">>)>>),
           nsswitch |-> MCAbsent, host |-> MCAbsent, svc |-> MCAbsent]

MCSystems == {
  MCHost,
  [MCHost EXCEPT !.resolv = MCFile(<<MCLine("sortlist", <<"n1">>), MCLine("sortlist", <<"n2">>),
                                     MCLine("lookup", <<"f", "x", "b", "b">>),
                                     MCLine("comment", <<>>),
                                     MCLine("options", <<"rotate">>),
                                     MCLine("nameserver", <<"s2">>)>>),
                 !.hostname = "long"],
  [MCHost EXCEPT !.nsswitch = MCFile(<<MCLine("hosts:", <<"f", "d">>)>>), !.hostname = "plain"],
  [MCHost EXCEPT !.host = MCDenied,
                 !.resolv.lines = @ \o <<MCLine("sortlist", <<"n1">>), MCLine("domain", <<"f3">>)>>],
  [MCHost EXCEPT !.resolv = MCDenied, !.hostname = "unknown"],
  [MCHost EXCEPT !.resolv = MCAbsent, !.host = MCFile(<<MCLine("order", <<"h">>)>>)],
  [MCHost EXCEPT !.android = TRUE, !.dns1 = <<"s3">>, !.hostname = "plain"],
  [MCHost EXCEPT !.android = TRUE, !.hostname = "dotted"]}

MCFailures == {"none", "library", "channel", "opt servers", "opt array", "opt item",
               "opt lookups", "opt sortlist", "env array", "env item", "file search",
               "file lookup", "file servers", "file sortlist", "def servers", "def hostname",
               "def array", "def domain", "def lookups", "key", "set servers", "csv entry",
               "save", "get servers"}

MCNewServers == {<<>>, <<"s1", "s2">>, <<"v6", "s2">>, <<"s1", "v6", "s2">>}
MCCsvs == {<<>>, <<"s1", "s2">>, <<"s1", "junk">>, <<"s1", "v6", "s2">>, <<"s2">>}
=============================================================================
