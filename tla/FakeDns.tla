------------------------------- MODULE FakeDns -------------------------------
(***************************************************************************)
(* fakedns.c: the resolver functions of the C library, replaced by calls   *)
(* of c-ares.  Every call opens a channel of its own, runs it until the    *)
(* callback was invoked and destroys it; what the calls of several threads *)
(* share is the static hostent he and the flag aresInitDone.               *)
(*                                                                         *)
(* The channel below is its promise: the callback is invoked once, before  *)
(* ares_destroy returns.  A hostent is modelled by whose answer it holds.  *)
(***************************************************************************)
EXTENDS Integers

CONSTANTS
  Thread,       \* threads of the application
  NoCall,       \* no call of any thread
  MaxCalls,     \* bound: calls of one thread
  MaxAddrs,     \* bound: addresses in one answer
  ALEN          \* entries of an address list, its NULL included

ASSUME NoCallAssumption == NoCall \notin Thread \X Nat
ASSUME BoundAssumption == MaxCalls \in Nat /\ MaxAddrs \in Nat
ASSUME ALENAssumption == ALEN \in Nat \ {0}

VARIABLES
  aresInitDone,  \* static int aresInitDone
  he,            \* static struct hostent he, with f_addrbuf
  call,          \* the call each thread is in, or its last one
  list,          \* the addrinfo pointer of each thread: the call that set it
  allocated,     \* the addrinfo lists that exist
  held,          \* the call whose &he the application may still read
  early,         \* history: the calls that ran beside the initialisation of c-ares
  crashed        \* the process has followed a pointer that points nowhere

vars == <<aresInitDone, he, call, list, allocated, held, early, crashed>>

\* gethostbyname, gethostbyname2 and gethostbyaddr return &he; their _r
\* variants fill a hostent of the caller.
Function == {"hostent", "hostent_r", "getaddrinfo", "getnameinfo"}
CallId == Thread \X (1 .. MaxCalls)
Unset == [named |-> FALSE, full |-> FALSE, from |-> NoCall, count |-> 0]

\* named: h_name points to a buffer.  full: h_length is not 0.  heard and
\* naddrs are history: what the callback was told.
Idle == [at |-> "idle", f |-> "none", k |-> 0, out |-> Unset, said |-> "none",
         heard |-> "nothing", naddrs |-> 0]

Init ==
  /\ aresInitDone = FALSE
  /\ he = Unset
  /\ call = [t \in Thread |-> Idle]
  /\ list = [t \in Thread |-> NoCall]
  /\ allocated = {}
  /\ held = NoCall
  /\ early = {}
  /\ crashed = FALSE

Id(t) == <<t, call[t].k>>
Outside(t) == call[t].at = "idle"
InCall == {t \in Thread : ~Outside(t)}

\* c-ares is initialised and no thread is still busy with that.
Ready == aresInitDone /\ \A t \in Thread : call[t].at \notin {"library", "fields"}

-----------------------------------------------------------------------------
(* A call is made *)

\* The application's part: functions that return &he are called one at a time.
MayCall(f) == f = "hostent" => \A u \in InCall : call[u].f # "hostent"

\* The next call of t; initHostent lets the hostent of a _r function point into
\* the caller's buffer.
NewCall(t, f, at, said) ==
  [at |-> at, f |-> f, k |-> call[t].k + 1, said |-> said,
   out |-> [named |-> f = "hostent_r", full |-> FALSE, from |-> NoCall, count |-> 0],
   heard |-> IF said = "ok" THEN "answer" ELSE "nothing",
   naddrs |-> IF said = "ok" THEN 1 ELSE 0]

Begin(t) ==
  /\ Outside(t) /\ call[t].k < MaxCalls
  /\ \E f \in Function :
       /\ MayCall(f)
       /\ call' = [call EXCEPT ![t] = NewCall(t, f, "entered", "none")]
       /\ held' = IF f = "hostent" THEN NoCall ELSE held
  /\ early' = IF Ready \/ InCall = {} THEN early
              ELSE early \cup {Id(u) : u \in InCall} \cup {<<t, call[t].k + 1>>}
  /\ UNCHANGED <<aresInitDone, he, list, allocated, crashed>>

\* The buffer of a _r function is too small: ERANGE, and nothing was looked up.
TooSmall(t) ==
  /\ Outside(t) /\ call[t].k < MaxCalls
  /\ call' = [call EXCEPT ![t] = NewCall(t, "hostent_r", "idle", "range")]
  /\ UNCHANGED <<aresInitDone, he, list, allocated, held, early, crashed>>

\* The name of getaddrinfo is an address already.
Literal(t) ==
  /\ Outside(t) /\ call[t].k < MaxCalls
  /\ call' = [call EXCEPT ![t] = NewCall(t, "getaddrinfo", "idle", "ok")]
  /\ list' = [list EXCEPT ![t] = <<t, call[t].k + 1>>]
  /\ allocated' = allocated \cup {<<t, call[t].k + 1>>}
  /\ UNCHANGED <<aresInitDone, he, held, early, crashed>>

\* freeaddrinfo: the application's pointer keeps its value.
Free(t) ==
  /\ Outside(t) /\ list[t] \in allocated
  /\ allocated' = allocated \ {list[t]}
  /\ UNCHANGED <<aresInitDone, he, call, list, held, early, crashed>>

-----------------------------------------------------------------------------
(* aresInit *)

TestInitDone(t) ==
  /\ call[t].at = "entered"
  /\ call' = [call EXCEPT ![t].at = IF aresInitDone THEN "open" ELSE "library"]
  /\ UNCHANGED <<aresInitDone, he, list, allocated, held, early, crashed>>

LibraryInit(t) ==
  /\ call[t].at = "library"
  /\ aresInitDone' = TRUE
  /\ call' = [call EXCEPT ![t].at = "fields"]
  /\ UNCHANGED <<he, list, allocated, held, early, crashed>>

SetFields(t) ==
  /\ call[t].at = "fields"
  /\ he' = [he EXCEPT !.named = TRUE, !.full = FALSE]
  /\ call' = [call EXCEPT ![t].at = "open"]
  /\ UNCHANGED <<aresInitDone, list, allocated, held, early, crashed>>

\* The result of ares_init is not looked at: after a failure the channel is
\* whatever the stack held.
OpenChannel(t) ==
  /\ call[t].at = "open"
  /\ \/ call' = [call EXCEPT ![t].at = "lookup"] /\ UNCHANGED crashed
     \/ crashed' = TRUE /\ UNCHANGED call
  /\ UNCHANGED <<aresInitDone, he, list, allocated, held, early>>

-----------------------------------------------------------------------------
(* The callback, from inside the loop over ares_process or ares_destroy *)

\* Mutant: the NULL at the end of the address list is not counted.
AllAddrs(n) == IF n <= ALEN THEN n ELSE ALEN

\* The addresses that fit before the NULL.
Copied(n) == IF n < ALEN THEN n ELSE ALEN - 1

\* Mutant: the length of an earlier answer is kept.
KeptLength(h) == [named |-> h.named, full |-> h.full, from |-> NoCall, count |-> 0]

\* gethostbyname_callback with a failure.
Cleared(h) == [named |-> h.named, full |-> FALSE, from |-> NoCall, count |-> 0]

Filled(h, t, n) == [named |-> h.named, full |-> TRUE, from |-> Id(t), count |-> Copied(n)]

\* Mutant: the callback always fills the static hostent.
AlwaysStatic(t) == TRUE

\* harg->host is &he.
IntoStatic(t) == call[t].f = "hostent"

GethostbynameCallback(t, heard, n) ==
  LET target == IF IntoStatic(t) THEN he ELSE call[t].out
      filled == IF heard = "answer" THEN Filled(target, t, n) ELSE Cleared(target)
      heardIt == [call EXCEPT ![t].at = "close", ![t].heard = heard, ![t].naddrs = n]
  IN
  /\ call[t].f \in {"hostent", "hostent_r"}
  /\ crashed' = ~target.named
  /\ IF IntoStatic(t) THEN /\ he' = IF target.named THEN filled ELSE he
                           /\ call' = heardIt
                      ELSE /\ call' = [heardIt EXCEPT ![t].out = filled]
                           /\ UNCHANGED he
  /\ UNCHANGED <<list, allocated>>

\* Mutant: a failure leaves the caller's pointer alone.
ListKept(t) == list[t]

\* getaddrinfo_callback with a failure: *out = NULL.
ListFailed(t) == NoCall

\* An answer without addresses leaves *out as it was.
GetaddrinfoCallback(t, heard, n) ==
  /\ call[t].f = "getaddrinfo"
  /\ list' = [list EXCEPT ![t] = IF heard # "answer" THEN ListFailed(t)
                                 ELSE IF n > 0 THEN Id(t) ELSE list[t]]
  /\ allocated' = IF heard = "answer" /\ n > 0 THEN allocated \cup {Id(t)} ELSE allocated
  /\ call' = [call EXCEPT ![t].at = "close", ![t].heard = heard, ![t].naddrs = n]
  /\ UNCHANGED <<he, crashed>>

GetnameinfoCallback(t, heard) ==
  /\ call[t].f = "getnameinfo"
  /\ call' = [call EXCEPT ![t].at = "close", ![t].heard = heard,
                          ![t].said = IF heard = "answer" THEN "ok" ELSE "fail"]
  /\ UNCHANGED <<he, list, allocated, crashed>>

Callback(t) ==
  /\ call[t].at = "lookup"
  /\ \E heard \in {"answer", "failure"}, n \in 0 .. MaxAddrs :
       /\ heard = "failure" => n = 0
       /\ \/ GethostbynameCallback(t, heard, n)
          \/ GetaddrinfoCallback(t, heard, n)
          \/ n = 0 /\ GetnameinfoCallback(t, heard)
  /\ UNCHANGED <<aresInitDone, held, early>>

-----------------------------------------------------------------------------
(* The call returns, after ares_destroy *)

ReturnHostent(t) ==
  /\ call[t].f = "hostent"
  /\ call' = [call EXCEPT ![t].at = "idle", ![t].said = IF he.full THEN "ok" ELSE "fail"]
  /\ held' = IF he.full THEN Id(t) ELSE NoCall

\* he.h_length, of the static hostent, decides whether NULL and HOST_NOT_FOUND
\* are stored; __result_buf and 0 are stored over them.
ReturnHostentR(t) ==
  /\ call[t].f = "hostent_r"
  /\ call' = [call EXCEPT ![t].at = "idle", ![t].said = "ok"]
  /\ UNCHANGED held

ReturnAddrinfo(t) ==
  /\ call[t].f = "getaddrinfo"
  /\ call' = [call EXCEPT ![t].at = "idle",
                          ![t].said = IF list[t] = NoCall THEN "fail" ELSE "ok"]
  /\ UNCHANGED held

ReturnNameinfo(t) ==
  /\ call[t].f = "getnameinfo"
  /\ call' = [call EXCEPT ![t].at = "idle"]
  /\ UNCHANGED held

Return(t) ==
  /\ call[t].at = "close"
  /\ \/ ReturnHostent(t) \/ ReturnHostentR(t)
     \/ ReturnAddrinfo(t) \/ ReturnNameinfo(t)
  /\ UNCHANGED <<aresInitDone, he, list, allocated, early, crashed>>

-----------------------------------------------------------------------------
Step(t) ==
  \/ Begin(t) \/ TooSmall(t) \/ Literal(t) \/ Free(t)
  \/ TestInitDone(t) \/ LibraryInit(t) \/ SetFields(t) \/ OpenChannel(t)
  \/ Callback(t) \/ Return(t)

Next == ~crashed /\ \E t \in Thread : Step(t)

Spec == Init /\ [][Next]_vars

-----------------------------------------------------------------------------
(* Properties *)

Hostent == [named : BOOLEAN, full : BOOLEAN, from : CallId \cup {NoCall}, count : 0 .. ALEN - 1]

CallRecord ==
  [at : {"idle", "entered", "library", "fields", "open", "lookup", "close"},
   f : Function \cup {"none"}, k : 0 .. MaxCalls, out : Hostent,
   said : {"none", "ok", "fail", "range"},
   heard : {"nothing", "answer", "failure"}, naddrs : 0 .. MaxAddrs \cup {1}]

\* Types; in particular an address list always has room for its NULL entry.
TypeOK ==
  /\ aresInitDone \in BOOLEAN
  /\ he \in Hostent
  /\ call \in [Thread -> CallRecord]
  /\ list \in [Thread -> CallId \cup {NoCall}]
  /\ allocated \subseteq CallId
  /\ held \in CallId \cup {NoCall}
  /\ early \subseteq CallId
  /\ crashed \in BOOLEAN

Done(t, f) == Outside(t) /\ call[t].f = f

\* The functions that return a static hostent: as long as the application may
\* read it, until its next such call, it holds the answer of that call, whatever
\* the other threads look up; and NULL is returned exactly after a failure.  A
\* call that ran beside the initialisation of c-ares may lose its answer.
StaticAnswer ==
  /\ held # NoCall /\ held \notin early =>
       /\ he.full /\ he.from = held
       /\ he.count = Copied(call[held[1]].naddrs) \/ call[held[1]].k # held[2]
  /\ \A t \in Thread : Done(t, "hostent") /\ Id(t) \notin early =>
       (call[t].said = "ok" <=> call[t].heard = "answer")

\* The _r functions: the caller's own buffer holds the answer of its own call,
\* and is marked empty after a failure.
OwnBuffer ==
  \A t \in Thread :
    Done(t, "hostent_r") /\ call[t].said = "ok" =>
      /\ call[t].out.full <=> call[t].heard = "answer"
      /\ call[t].out.full => call[t].out.from = Id(t)

\* getaddrinfo: it reports success exactly when it was answered, and the list is
\* then a new one of its own; an answer without addresses is left out here.
ListAnswer ==
  \A t \in Thread :
    Done(t, "getaddrinfo") /\ (call[t].heard = "answer" => call[t].naddrs > 0) =>
      /\ call[t].said = "ok" <=> call[t].heard = "answer"
      /\ call[t].said = "ok" => list[t] = Id(t)

\* fakedns.c:3, "calls that work": what is reported as found was found.
FailureIsTold ==
  \A t \in Thread : Outside(t) /\ call[t].said = "ok" => call[t].heard = "answer"
=============================================================================
