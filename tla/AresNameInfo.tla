---------------------------- MODULE AresNameInfo ----------------------------
(***************************************************************************)
(* The name and the service of an address: ares_getnameinfo,               *)
(* nameinfo_callback and lookup_service, the ares_gethostbyaddr they look  *)
(* the name up with, ares_getservbyport over its table of ports, and       *)
(* getnameinfo of the resolver replacement.                                *)
(*                                                                         *)
(* A request is [family, length, address, port, flags]: length says        *)
(* whether the caller's is that of the family, address is a sequence of    *)
(* parts, one for IPv4 and the two halves for IPv6.  What a lookup meets   *)
(* is [lookups, hosts, dns, reply, failAt, memory]: the channel's order,   *)
(* the hosts file, how the query ends and with which message, the          *)
(* allocation that fails, and what the allocated memory held before.       *)
(***************************************************************************)
EXTENDS AresReplies

CONSTANT IanaPorts      \* a sequence of [name, port, proto]

NoName == [kind |-> "none", text |-> <<>>]
NameOf(id) == [kind |-> "name", text |-> id]
Numeric(address) == [kind |-> "address", text |-> address]

Answer(status, node, service) == [status |-> status, node |-> node, service |-> service]

-----------------------------------------------------------------------------
(* Services *)

\* The first entry of the table with that port, of that protocol if one is
\* given.
GetServByPort(port, proto) ==
  LET fit == {i \in DOMAIN IanaPorts : /\ IanaPorts[i].port = port
                                       /\ proto \in {"any", IanaPorts[i].proto}}
  IN  IF proto \notin {"any", "tcp", "udp", "sctp", "dccp"} THEN "EFAULT"
      ELSE IF fit = {} THEN "ENODATA" ELSE IanaPorts[Min(fit)].name

Protocol(flags) ==
  CASE "UDP" \in flags -> "udp"
    [] flags \cap {"UDP", "SCTP"} = {"SCTP"} -> "sctp"
    [] flags \cap {"UDP", "SCTP", "DCCP"} = {"DCCP"} -> "dccp"
    [] OTHER -> "tcp"

\* Mutant: a port that is not in the table has no service.
NoNumber(port, flags) ==
  LET name == IF "NUMERICSERV" \in flags THEN "ENODATA" ELSE GetServByPort(port, Protocol(flags))
  IN  IF port = 0 \/ name = "ENODATA" THEN NoName ELSE NameOf(name)

\* NULL for port 0, else a name or the number.
LookupService(port, flags) ==
  LET name == IF "NUMERICSERV" \in flags THEN "ENODATA" ELSE GetServByPort(port, Protocol(flags))
  IN  IF port = 0 THEN NoName ELSE IF name = "ENODATA" THEN Numeric(port) ELSE NameOf(name)

Service(req) == IF "LOOKUPSERVICE" \in req.flags THEN LookupService(req.port, req.flags) ELSE NoName

-----------------------------------------------------------------------------
(* ares_gethostbyaddr *)

\* One lookup of next_lookup; addr_callback ends the query with whatever the
\* reply parses to, and goes on after every failure but a destruction.
AddressLookup(a, kind, req, world) ==
  LET file == FileLookupByAddress(world.hosts, req.family, req.address, 0)
      reply == ParsePtr(world.reply, 0)
  IN  IF a.done THEN a
      ELSE IF kind = "f"
      THEN IF file.status # "SUCCESS" THEN a
           ELSE [done |-> TRUE, status |-> "SUCCESS", name |-> file.host.names[1]]
      ELSE IF world.dns = "SUCCESS"
      THEN [done |-> TRUE, status |-> reply.status, name |-> reply.name]
      ELSE IF world.dns = "EDESTRUCTION" THEN [a EXCEPT !.done = TRUE, !.status = world.dns]
      ELSE a

\* Two blocks are allocated: the query of ares_getnameinfo, then its own.
GetHostByAddr(req, world) ==
  LET none == [done |-> FALSE, status |-> "ENOTFOUND", name |-> Garbled]
  IN  IF world.failAt = 2 THEN [none EXCEPT !.status = "ENOMEM"]
      ELSE FoldLeft(LAMBDA a, kind : AddressLookup(a, kind, req, world), none, world.lookups)

-----------------------------------------------------------------------------
(* ares_getnameinfo *)

\* The copy of the caller's address: of the socket address only as many bytes
\* as an address has are copied (ares_getnameinfo.c:192 and 200), the port and
\* half an IPv6 address; the rest is what the memory held.
Kept(req, world) ==
  IF req.family = "v4" THEN world.memory ELSE <<req.address[1], world.memory[2]>>

\* A name that was found is given as it is: with ARES_NI_NOFQDN too, since
\* ares_striendstr finds no end in any name.
NameInfoCallback(req, world, found) ==
  CASE found.status = "SUCCESS" -> Answer("SUCCESS", NameOf(found.name.id), Service(req))
    [] found.status = "ENOTFOUND" /\ "NAMEREQD" \notin req.flags ->
         Answer("SUCCESS", Numeric(Kept(req, world)), Service(req))
    [] OTHER -> Answer(found.status, NoName, NoName)

NameInfo(req, world) ==
  LET host == "LOOKUPHOST" \in req.flags \/ "LOOKUPSERVICE" \notin req.flags
      numeric == "NUMERICHOST" \in req.flags
  IN  CASE req.family \notin {"v4", "v6"} \/ ~ req.length -> Answer("ENOTIMP", NoName, NoName)
        [] OTHER ->
             IF ~ host THEN Answer("SUCCESS", NoName, Service(req))
             ELSE IF numeric /\ "NAMEREQD" \in req.flags THEN Answer("EBADFLAGS", NoName, NoName)
             ELSE IF numeric THEN Answer("SUCCESS", Numeric(req.address), Service(req))
             ELSE IF world.failAt = 1 THEN Answer("ENOMEM", NoName, NoName)
             ELSE NameInfoCallback(req, world, GetHostByAddr(req, world))

\* getnameinfo of the replacement combines the flags with & into 0: the host is
\* looked up whatever was asked, and a service never is.
FakeNameInfo(req, world) ==
  LET r == NameInfo([req EXCEPT !.flags = {}], world)
  IN  [ret |-> IF r.status = "SUCCESS" THEN "0" ELSE "EAI_FAIL", host |-> r.node, serv |-> r.service]

-----------------------------------------------------------------------------
(* What the functions promise *)

\* A lookup that knows the address: the hosts file has a line with it, or a
\* reply names its PTR record.
Knows(kind, req, world) ==
  IF kind = "b" THEN world.dns = "SUCCESS"
  ELSE world.hosts.open = "yes" /\ \E k \in DOMAIN world.hosts.lines :
         LET line == world.hosts.lines[k]
         IN  line.family = req.family /\ line.address = req.address /\ line.names # <<>>

\* The lookup that decides is the first that knows the address, or a query that
\* ended with the channel.
Deciding(req, world) ==
  LET stops == {k \in DOMAIN world.lookups :
                  \/ Knows(world.lookups[k], req, world)
                  \/ world.lookups[k] = "b" /\ world.dns = "EDESTRUCTION"}
  IN  IF stops = {} THEN "none"
      ELSE IF Knows(world.lookups[Min(stops)], req, world) THEN world.lookups[Min(stops)]
      ELSE "end"

\* A name is one the deciding lookup gave.  Without one the address stands in,
\* unless a name is required.  The service comes with a host or an address, not
\* with an error, and is a name of the table for the protocol asked, else the
\* number.  The replacement never has a service.
SuitsRequest(r, f, req, world, by) ==
  LET asked == "LOOKUPHOST" \in req.flags \/ "LOOKUPSERVICE" \notin req.flags
      reply == ParsePtr(world.reply, 0)
      listed == {e \in ToSet(IanaPorts) : e.port = req.port /\ e.proto = Protocol(req.flags)}
  IN  /\ r.node.kind = "name" =>
           \/ by = "b" /\ r.node.text = Last(reply.labels).id
           \/ by = "f" /\ \E k \in DOMAIN world.hosts.lines :
                /\ world.hosts.lines[k].address = req.address
                /\ r.node.text = Head(world.hosts.lines[k].names).id
      /\ r.node.kind = "address" => "NAMEREQD" \notin req.flags /\ asked
      /\ r.status = "SUCCESS" /\ asked /\ "NUMERICHOST" \notin req.flags =>
           (r.node.kind = "name" <=> by \in {"b", "f"})
      /\ r.status # "SUCCESS" => r.node = NoName /\ r.service = NoName
      /\ r.status = "SUCCESS" /\ "LOOKUPSERVICE" \in req.flags /\ req.port # 0 =>
           IF "NUMERICSERV" \in req.flags \/ listed = {} THEN r.service = Numeric(req.port)
           ELSE \E e \in listed : r.service = NameOf(e.name)
      /\ r.status = "SUCCESS" /\ ~ asked => r.node = NoName
      /\ f.serv = NoName /\ (f.host.kind = "name" => by \in {"b", "f"})

AnswersRequest(req, world) ==
  SuitsRequest(NameInfo(req, world), FakeNameInfo(req, world), req, world, Deciding(req, world))

\* Where no name is found the address shown is the one asked about: "We
\* couldn't find the host, but it's OK, we can use the IP"
\* (ares_getnameinfo.c:253).  It does not hold.
ShowsAddress(req, world) ==
  LET r == NameInfo(req, world) IN r.node.kind = "address" => r.node.text = req.address
=============================================================================
