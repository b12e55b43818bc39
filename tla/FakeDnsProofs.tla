---------------------------- MODULE FakeDnsProofs ----------------------------
(***************************************************************************)
(* The results of the replaced resolver functions are the caller's own,    *)
(* for any number of threads, calls and addresses.  The argument for the   *)
(* static hostent: a call that is not early runs alone until c-ares is     *)
(* ready, and is read when it is; from then on only the one running call   *)
(* that returns &he writes it.                                             *)
(***************************************************************************)
EXTENDS FakeDns, TLAPS

OnTime(t) == Id(t) \notin early

\* Only early calls meet an initialisation that another call has begun.
AloneUntilReady ==
  /\ \A t \in Thread : ~Outside(t) /\ OnTime(t) =>
       Ready \/ \A u \in Thread : ~Outside(u) => u = t
  /\ held # NoCall /\ held \notin early => Ready
  /\ Ready => he.named
  /\ \A t \in Thread : call[t].at \in {"fields", "open", "lookup", "close"} => aresInitDone

\* One call at a time uses he, and none while the application reads it.
OneUserOfHe ==
  \A t \in Thread : ~Outside(t) /\ call[t].f = "hostent" =>
    /\ held = NoCall
    /\ \A u \in Thread : ~Outside(u) /\ call[u].f = "hostent" => u = t

\* What is in he between the callback and the return, and after it.
HeIsAnswer ==
  /\ \A t \in Thread : call[t].at = "close" /\ call[t].f = "hostent" /\ OnTime(t) =>
       /\ he.full <=> call[t].heard = "answer"
       /\ he.full => he.from = Id(t) /\ he.count = Copied(call[t].naddrs)
  /\ held # NoCall /\ held \notin early =>
       /\ he.full /\ he.from = held
       /\ \/ call[held[1]].k > held[2]
          \/ /\ Outside(held[1]) /\ call[held[1]].k = held[2]
             /\ he.count = Copied(call[held[1]].naddrs)
  /\ \A t \in Thread : Done(t, "hostent") /\ OnTime(t) =>
       (call[t].said = "ok" <=> call[t].heard = "answer")

\* The answers that are kept in the memory of the caller.
OwnAnswers ==
  \A t \in Thread :
    /\ call[t].f = "hostent_r" /\ (call[t].at = "close" \/ (Outside(t) /\ call[t].said = "ok")) =>
         /\ call[t].out.full <=> call[t].heard = "answer"
         /\ call[t].out.full => call[t].out.from = Id(t)
    /\ call[t].f = "getaddrinfo" /\ call[t].at \in {"close", "idle"} =>
         /\ call[t].heard \in {"answer", "failure"}
         /\ call[t].heard = "failure" => list[t] = NoCall
         /\ call[t].heard = "answer" /\ call[t].naddrs > 0 => list[t] = Id(t)
    /\ Done(t, "getaddrinfo") => (call[t].said = "ok" <=> list[t] # NoCall)
    /\ Done(t, "getaddrinfo") => call[t].said \in {"ok", "fail"}

Numbered == \A t \in Thread : ~Outside(t) => call[t].k > 0

IInv == TypeOK /\ Numbered /\ AloneUntilReady /\ OneUserOfHe /\ HeIsAnswer /\ OwnAnswers

-----------------------------------------------------------------------------
LEMMA Bounds == MaxCalls \in Nat /\ MaxAddrs \in Nat /\ ALEN \in Nat \ {0}
BY BoundAssumption, ALENAssumption

\* A call has a name, and an address list leaves room for its NULL.
LEMMA CallNames == NoCall \notin CallId
BY NoCallAssumption, Bounds DEF CallId

LEMMA CopiedFits == \A n \in Nat : Copied(n) \in 0 .. ALEN - 1
BY Bounds DEF Copied

LEMMA UnsetType == Unset \in Hostent
<1>1. 0 \in 0 .. ALEN - 1
  BY Bounds
<1>. QED
  BY <1>1 DEF Unset, Hostent

LEMMA NewCallType ==
  ASSUME TypeOK, NEW t \in Thread, call[t].k < MaxCalls, NEW f \in Function,
         NEW at \in {"entered", "idle"}, NEW said \in {"none", "range", "ok"}
  PROVE  NewCall(t, f, at, said) \in CallRecord /\ call[t].k + 1 \in Nat \ {0}
<1>1. call[t].k + 1 \in 0 .. MaxCalls /\ call[t].k + 1 \in Nat \ {0}
  BY Bounds DEF TypeOK, CallRecord
<1>2. [named |-> f = "hostent_r", full |-> FALSE, from |-> NoCall, count |-> 0] \in Hostent
  <2>1. 0 \in 0 .. ALEN - 1
    BY Bounds
  <2>. QED
    BY <2>1 DEF Hostent
<1>. QED
  BY <1>1, <1>2, Bounds DEF NewCall, CallRecord

LEMMA InitIInv == Init => IInv
<1>. SUFFICES ASSUME Init PROVE IInv
  OBVIOUS
<1>1. TypeOK
  <2>1. Idle \in CallRecord
    BY UnsetType, Bounds DEF CallRecord, Idle
  <2>. QED
    BY <2>1, UnsetType DEF Init, TypeOK, CallRecord
<1>2. AloneUntilReady /\ Numbered
  BY DEF Init, AloneUntilReady, Ready, Idle, Outside, Numbered
<1>3. OneUserOfHe
  BY DEF Init, OneUserOfHe, Idle, Outside
<1>4. HeIsAnswer
  BY DEF Init, HeIsAnswer, Idle, Done, Outside
<1>5. OwnAnswers
  BY DEF Init, OwnAnswers, Idle, Done, Outside
<1>. QED
  BY <1>1, <1>2, <1>3, <1>4, <1>5 DEF IInv

-----------------------------------------------------------------------------
(* Types *)

LEMMA StepType ==
  ASSUME TypeOK, Numbered, NEW t \in Thread, Step(t)
  PROVE  TypeOK' /\ Numbered'
<1>. USE Bounds
<1>1. CASE Begin(t)
  <2>1. PICK f \in Function : call' = [call EXCEPT ![t] = NewCall(t, f, "entered", "none")]
    BY <1>1 DEF Begin
  <2>2. NewCall(t, f, "entered", "none") \in CallRecord /\ call[t].k + 1 > 0
    BY <1>1, NewCallType DEF Begin
  <2>3. call' \in [Thread -> CallRecord]
    BY <2>1, <2>2 DEF TypeOK
  <2>4. Numbered'
    BY <2>1, <2>2 DEF TypeOK, Numbered, Outside, NewCall
  <2>5. early' \subseteq CallId
    <3>1. <<t, call[t].k + 1>> \in CallId
      BY <1>1, <2>2 DEF Begin, TypeOK, CallId, CallRecord
    <3>2. \A u \in InCall : Id(u) \in CallId
      BY DEF InCall, Outside, Numbered, Id, CallId, TypeOK, CallRecord
    <3>. QED
      BY <1>1, <3>1, <3>2 DEF Begin, TypeOK
  <2>. QED
    BY <1>1, <2>3, <2>4, <2>5 DEF Begin, TypeOK
<1>2. CASE TooSmall(t)
  <2>1. NewCall(t, "hostent_r", "idle", "range") \in CallRecord
    BY <1>2, NewCallType DEF TooSmall, Function
  <2>2. call' \in [Thread -> CallRecord]
    BY <1>2, <2>1 DEF TooSmall, TypeOK
  <2>3. Numbered'
    BY <1>2 DEF TooSmall, TypeOK, Numbered, Outside, NewCall
  <2>. QED
    BY <1>2, <2>2, <2>3 DEF TooSmall, TypeOK
<1>3. CASE Literal(t)
  <2>1. NewCall(t, "getaddrinfo", "idle", "ok") \in CallRecord
    BY <1>3, NewCallType DEF Literal, Function
  <2>2. call' \in [Thread -> CallRecord]
    BY <1>3, <2>1 DEF Literal, TypeOK
  <2>3. Numbered'
    BY <1>3 DEF Literal, TypeOK, Numbered, Outside, NewCall
  <2>4. <<t, call[t].k + 1>> \in CallId
    BY <1>3 DEF Literal, TypeOK, CallId, CallRecord
  <2>. QED
    BY <1>3, <2>2, <2>3, <2>4 DEF Literal, TypeOK
<1>4. CASE Free(t)
  BY <1>4 DEF Free, TypeOK, Numbered, Outside
<1>5. CASE TestInitDone(t) \/ LibraryInit(t) \/ SetFields(t) \/ OpenChannel(t)
  <2>1. call' \in [Thread -> CallRecord]
    BY <1>5 DEF TestInitDone, LibraryInit, SetFields, OpenChannel, TypeOK, CallRecord
  <2>2. Numbered'
    BY <1>5 DEF TestInitDone, LibraryInit, SetFields, OpenChannel, TypeOK, CallRecord,
                Numbered, Outside
  <2>3. he' \in Hostent
    BY <1>5 DEF TestInitDone, LibraryInit, SetFields, OpenChannel, TypeOK, Hostent
  <2>. QED
    BY <1>5, <2>1, <2>2, <2>3 DEF TestInitDone, LibraryInit, SetFields, OpenChannel, TypeOK
<1>6. CASE Callback(t)
  <2>1. Id(t) \in CallId
    BY <1>6 DEF Callback, TypeOK, CallRecord, Numbered, Outside, Id, CallId
  <2>2. PICK heard \in {"answer", "failure"}, n \in 0 .. MaxAddrs :
          GethostbynameCallback(t, heard, n) \/ GetaddrinfoCallback(t, heard, n)
            \/ GetnameinfoCallback(t, heard)
    BY <1>6 DEF Callback
  <2>3. call[t].at = "lookup" /\ UNCHANGED <<aresInitDone, held, early>>
    BY <1>6 DEF Callback
  <2>4. CASE GethostbynameCallback(t, heard, n)
    <3>1. he \in Hostent /\ call[t].out \in Hostent /\ n \in Nat
      BY DEF TypeOK, CallRecord
    <3>2. \A h \in Hostent : Filled(h, t, n) \in Hostent
      BY <2>1, <3>1, CopiedFits DEF Filled, Hostent
    <3>3. \A h \in Hostent : Cleared(h) \in Hostent
      BY UnsetType DEF Cleared, Hostent, Unset
    <3>4. he' \in Hostent /\ crashed' \in BOOLEAN
      BY <2>4, <3>1, <3>2, <3>3 DEF GethostbynameCallback, Hostent, TypeOK
    <3>5. call' \in [Thread -> CallRecord]
      BY <2>4, <3>1, <3>2, <3>3 DEF GethostbynameCallback, TypeOK, CallRecord
    <3>6. Numbered'
      BY <2>3, <2>4 DEF GethostbynameCallback, TypeOK, CallRecord, Numbered, Outside
    <3>. QED
      BY <2>3, <2>4, <3>4, <3>5, <3>6 DEF GethostbynameCallback, TypeOK
  <2>5. CASE GetaddrinfoCallback(t, heard, n) \/ GetnameinfoCallback(t, heard)
    <3>1. call' \in [Thread -> CallRecord]
      BY <2>5 DEF GetaddrinfoCallback, GetnameinfoCallback, TypeOK, CallRecord
    <3>2. Numbered'
      BY <2>3, <2>5 DEF GetaddrinfoCallback, GetnameinfoCallback, TypeOK, CallRecord,
                        Numbered, Outside
    <3>3. list' \in [Thread -> CallId \cup {NoCall}] /\ allocated' \subseteq CallId
      BY <2>1, <2>5 DEF GetaddrinfoCallback, GetnameinfoCallback, TypeOK, ListFailed
    <3>. QED
      BY <2>3, <2>5, <3>1, <3>2, <3>3 DEF GetaddrinfoCallback, GetnameinfoCallback, TypeOK
  <2>. QED
    BY <2>2, <2>4, <2>5
<1>7. CASE Return(t)
  <2>1. Id(t) \in CallId
    BY <1>7 DEF Return, TypeOK, CallRecord, Numbered, Outside, Id, CallId
  <2>. QED
    BY <1>7, <2>1 DEF Return, ReturnHostent, ReturnHostentR, ReturnAddrinfo, ReturnNameinfo,
                      TypeOK, CallRecord, Numbered, Outside
<1>. QED
  BY <1>1, <1>2, <1>3, <1>4, <1>5, <1>6, <1>7 DEF Step

-----------------------------------------------------------------------------
(* What a step of t does to the records of the calls *)

LEMMA OthersKeep ==
  ASSUME TypeOK, NEW t \in Thread, Step(t)
  PROVE  /\ DOMAIN call' = Thread /\ DOMAIN list' = Thread
         /\ \A u \in Thread \ {t} : call'[u] = call[u] /\ list'[u] = list[u]
BY DEF Step, Begin, TooSmall, Literal, Free, TestInitDone, LibraryInit, SetFields, OpenChannel,
       Callback, GethostbynameCallback, GetaddrinfoCallback, GetnameinfoCallback,
       Return, ReturnHostent, ReturnHostentR, ReturnAddrinfo, ReturnNameinfo, TypeOK

\* The calls that were not early before the step are not after it, unless they
\* overlap the initialisation.
LEMMA EarlyGrows ==
  ASSUME NEW t \in Thread, Step(t)
  PROVE  early \subseteq early' /\ (Ready => early' = early)
BY DEF Step, Begin, TooSmall, Literal, Free, TestInitDone, LibraryInit, SetFields, OpenChannel,
       Callback, Return

\* What the initialisation does to he, nobody sees whose call was on time.
LEMMA OnlyCaller ==
  ASSUME AloneUntilReady, NEW t \in Thread, ~Outside(t), ~Ready
  PROVE  /\ held = NoCall \/ held \in early
         /\ \A u \in Thread \ {t} : ~Outside(u) => ~OnTime(u)
BY DEF AloneUntilReady

LEMMA CallbackMoves ==
  ASSUME TypeOK, NEW t \in Thread, Callback(t)
  PROVE  /\ call[t].at = "lookup" /\ call'[t].at = "close"
         /\ call'[t].f = call[t].f /\ call'[t].k = call[t].k
         /\ he'.named = he.named /\ UNCHANGED <<aresInitDone, held>>
<1>1. PICK heard \in {"answer", "failure"}, n \in 0 .. MaxAddrs :
        GethostbynameCallback(t, heard, n) \/ GetaddrinfoCallback(t, heard, n)
          \/ GetnameinfoCallback(t, heard)
  BY DEF Callback
<1>2. call[t].at = "lookup" /\ UNCHANGED <<aresInitDone, held>>
  BY DEF Callback
<1>3. CASE GethostbynameCallback(t, heard, n)
  <2>1. he'.named = he.named
    BY <1>3 DEF GethostbynameCallback, Filled, Cleared
  <2>2. call'[t].at = "close" /\ call'[t].f = call[t].f /\ call'[t].k = call[t].k
    BY <1>3 DEF GethostbynameCallback, TypeOK, CallRecord
  <2>. QED
    BY <1>2, <2>1, <2>2
<1>4. CASE GetaddrinfoCallback(t, heard, n) \/ GetnameinfoCallback(t, heard)
  BY <1>2, <1>4 DEF GetaddrinfoCallback, GetnameinfoCallback, TypeOK, CallRecord
<1>. QED
  BY <1>1, <1>3, <1>4

LEMMA ReturnMoves ==
  ASSUME TypeOK, NEW t \in Thread, Return(t)
  PROVE  /\ call[t].at = "close" /\ call'[t].at = "idle"
         /\ call'[t].f = call[t].f /\ call'[t].k = call[t].k /\ call'[t].out = call[t].out
         /\ call'[t].heard = call[t].heard /\ call'[t].naddrs = call[t].naddrs
         /\ IF call[t].f = "hostent"
            THEN held' = (IF he.full THEN Id(t) ELSE NoCall)
                 /\ call'[t].said = IF he.full THEN "ok" ELSE "fail"
            ELSE held' = held
         /\ call[t].f = "getaddrinfo" =>
              call'[t].said = IF list[t] = NoCall THEN "fail" ELSE "ok"
         /\ UNCHANGED <<aresInitDone, he, list>>
<1>1. call[t].at = "close" /\ UNCHANGED <<aresInitDone, he, list>>
  BY DEF Return
<1>2. CASE ReturnHostent(t)
  BY <1>1, <1>2 DEF ReturnHostent, TypeOK, CallRecord
<1>3. CASE ReturnHostentR(t)
  BY <1>1, <1>3 DEF ReturnHostentR, TypeOK, CallRecord
<1>4. CASE ReturnAddrinfo(t)
  BY <1>1, <1>4 DEF ReturnAddrinfo, TypeOK, CallRecord
<1>5. CASE ReturnNameinfo(t)
  BY <1>1, <1>5 DEF ReturnNameinfo, TypeOK, CallRecord
<1>. QED
  BY <1>2, <1>3, <1>4, <1>5 DEF Return

\* A call that is on time after a step was so before, unless the step began it.
LEMMA OnTimeBefore ==
  ASSUME TypeOK, NEW t \in Thread, Step(t), NEW u \in Thread, OnTime(u)',
         u = t => call'[t].k = call[t].k
  PROVE  OnTime(u)
BY OthersKeep, EarlyGrows DEF OnTime, Id

\* A call that has no channel yet, or has one, leaves c-ares as ready as it was.
LEMMA ReadyAlike ==
  ASSUME NEW t \in Thread, TypeOK, Step(t), UNCHANGED aresInitDone,
         \/ ~aresInitDone
         \/ call[t].at \notin {"library", "fields"} /\ call'[t].at \notin {"library", "fields"}
  PROVE  Ready' <=> Ready
BY OthersKeep DEF Ready

LEMMA StepAlone ==
  ASSUME IInv, NEW t \in Thread, Step(t)
  PROVE  AloneUntilReady'
<1>. USE OthersKeep DEF IInv
<1>1. CASE Begin(t)
  <2>1. /\ call[t].at = "idle" /\ call'[t].at = "entered" /\ call'[t].k = call[t].k + 1
        /\ UNCHANGED <<aresInitDone, he>> /\ held' \in {held, NoCall}
    BY <1>1 DEF Begin, TypeOK, NewCall, Outside
  <2>2. Ready' <=> Ready
    BY <2>1, ReadyAlike
  <2>3. \A u \in Thread : ~Outside(u)' /\ OnTime(u)' =>
          Ready' \/ \A w \in Thread : ~Outside(w)' => w = u
    <3>1. CASE Ready
      BY <2>2, <3>1
    <3>2. CASE InCall = {}
      BY <3>2 DEF InCall, Outside
    <3>3. CASE ~Ready /\ InCall # {}
      <4>1. early' = early \cup {Id(u) : u \in InCall} \cup {<<t, call[t].k + 1>>}
        BY <1>1, <3>3 DEF Begin
      <4>2. Id(t)' \in early'
        BY <2>1, <4>1 DEF Id
      <4>3. \A u \in Thread \ {t} : ~Outside(u)' => Id(u)' \in early'
        BY <4>1 DEF Id, InCall, Outside
      <4>. QED
        BY <4>2, <4>3 DEF OnTime
    <3>. QED
      BY <3>1, <3>2, <3>3
  <2>4. held' # NoCall /\ held' \notin early' => Ready'
    BY <2>1, <2>2, EarlyGrows DEF AloneUntilReady
  <2>. QED
    BY <2>1, <2>2, <2>3, <2>4 DEF AloneUntilReady
<1>2. CASE TooSmall(t) \/ Literal(t) \/ Free(t)
  <2>1. call'[t].at = "idle" /\ call[t].at = "idle" /\ UNCHANGED <<aresInitDone, he, held, early>>
    BY <1>2 DEF TooSmall, Literal, Free, TypeOK, NewCall, Outside
  <2>2. Ready' <=> Ready
    BY <2>1, ReadyAlike
  <2>. QED
    BY <2>1, <2>2, OnTimeBefore DEF AloneUntilReady, Outside
<1>3. CASE TestInitDone(t)
  <2>1. /\ call[t].at = "entered" /\ UNCHANGED <<aresInitDone, he, held>>
        /\ call'[t].at = (IF aresInitDone THEN "open" ELSE "library") /\ call'[t].k = call[t].k
    BY <1>3 DEF TestInitDone, TypeOK, CallRecord
  <2>2. Ready' <=> Ready
    BY <2>1, ReadyAlike
  <2>. QED
    BY <2>1, <2>2, OnTimeBefore, EarlyGrows DEF AloneUntilReady, Outside
<1>4. CASE LibraryInit(t) \/ SetFields(t)
  <2>1. /\ call[t].at \in {"library", "fields"} /\ call'[t].at \in {"fields", "open"}
        /\ call'[t].k = call[t].k /\ UNCHANGED held
        /\ aresInitDone \/ LibraryInit(t) => aresInitDone'
    BY <1>4 DEF LibraryInit, SetFields, TypeOK, CallRecord
  <2>2. ~Ready /\ ~Outside(t)
    BY <2>1 DEF Ready, Outside
  <2>3. aresInitDone'
    BY <1>4, <2>1 DEF SetFields, AloneUntilReady
  <2>4. Ready' => he'.named
    <3>1. CASE LibraryInit(t)
      BY <3>1 DEF LibraryInit, Ready, TypeOK
    <3>2. CASE SetFields(t)
      BY <3>2 DEF SetFields, TypeOK, Hostent
    <3>. QED
      BY <1>4, <3>1, <3>2
  <2>5. held # NoCall => held \in early'
    BY <2>2, OnlyCaller, EarlyGrows
  <2>6. \A u \in Thread : OnTime(u)' => OnTime(u)
    BY <2>1, OnTimeBefore
  <2>7. \A u \in Thread : Outside(u)' <=> Outside(u)
    BY <2>1 DEF Outside
  <2>. QED
    BY <2>1, <2>2, <2>3, <2>4, <2>5, <2>6, <2>7, OnlyCaller DEF AloneUntilReady
<1>5. CASE OpenChannel(t) \/ Callback(t) \/ Return(t)
  <2>1. /\ call[t].at \in {"open", "lookup", "close"} /\ UNCHANGED aresInitDone
        /\ call'[t].at \in {"open", "lookup", "close", "idle"}
        /\ held' = held \/ (Return(t) /\ held' \in {Id(t), NoCall})
        /\ he'.named = he.named /\ call'[t].k = call[t].k
    <3>1. CASE OpenChannel(t)
      BY <3>1 DEF OpenChannel, TypeOK, CallRecord
    <3>2. CASE Callback(t)
      BY <3>2, CallbackMoves
    <3>3. CASE Return(t)
      BY <3>3, ReturnMoves
    <3>. QED
      BY <1>5, <3>1, <3>2, <3>3
  <2>2. aresInitDone /\ ~Outside(t)
    BY <2>1 DEF AloneUntilReady, Outside
  <2>3. Ready' <=> Ready
    BY <2>1, ReadyAlike
  <2>4. OnTime(t) => Ready
    BY <2>1, <2>2 DEF AloneUntilReady, Ready, Outside
  <2>5. held' # NoCall /\ held' \notin early' => Ready'
    BY <2>1, <2>3, <2>4, EarlyGrows DEF AloneUntilReady, OnTime
  <2>6. \A u \in Thread : OnTime(u)' => OnTime(u)
    BY <2>1, OnTimeBefore
  <2>7. \A u \in Thread : ~Outside(u)' => ~Outside(u)
    BY <2>1 DEF Outside
  <2>. QED
    BY <2>1, <2>2, <2>3, <2>5, <2>6, <2>7 DEF AloneUntilReady
<1>. QED
  BY <1>1, <1>2, <1>3, <1>4, <1>5 DEF Step

LEMMA StepOneUser ==
  ASSUME IInv, NEW t \in Thread, Step(t)
  PROVE  OneUserOfHe'
<1>. USE OthersKeep DEF IInv
<1>1. CASE Begin(t)
  <2>1. PICK f \in Function :
          /\ MayCall(f) /\ call' = [call EXCEPT ![t] = NewCall(t, f, "entered", "none")]
          /\ held' = IF f = "hostent" THEN NoCall ELSE held
    BY <1>1 DEF Begin
  <2>2. call'[t].f = f
    BY <2>1 DEF TypeOK, NewCall
  <2>. QED
    BY <1>1, <2>1, <2>2 DEF OneUserOfHe, MayCall, InCall, Outside, Begin
<1>2. CASE TooSmall(t) \/ Literal(t) \/ Free(t)
  <2>1. call'[t].at = "idle" /\ UNCHANGED held
    BY <1>2 DEF TooSmall, Literal, Free, TypeOK, NewCall, Outside
  <2>. QED
    BY <2>1 DEF OneUserOfHe, Outside
<1>3. CASE TestInitDone(t) \/ LibraryInit(t) \/ SetFields(t) \/ OpenChannel(t)
  <2>1. call[t].at # "idle" /\ call'[t].f = call[t].f /\ UNCHANGED held
    BY <1>3 DEF TestInitDone, LibraryInit, SetFields, OpenChannel, TypeOK, CallRecord
  <2>. QED
    BY <2>1 DEF OneUserOfHe, Outside
<1>4. CASE Callback(t)
  BY <1>4, CallbackMoves DEF OneUserOfHe, Outside
<1>5. CASE Return(t)
  BY <1>5, ReturnMoves DEF OneUserOfHe, Outside
<1>. QED
  BY <1>1, <1>2, <1>3, <1>4, <1>5 DEF Step

LEMMA StepHe ==
  ASSUME IInv, NEW t \in Thread, Step(t)
  PROVE  HeIsAnswer'
<1>. USE OthersKeep DEF IInv
<1>h. held # NoCall => held[1] \in Thread /\ held[2] \in Nat
  BY DEF TypeOK, CallId
<1>e. /\ held \notin early' => held \notin early
      /\ \A u \in Thread \ {t} : OnTime(u)' => OnTime(u)
      /\ \A u \in Thread \ {t} : Id(u)' = Id(u)
  BY EarlyGrows, OnTimeBefore DEF Id
<1>1. CASE Begin(t) \/ TooSmall(t) \/ Literal(t)
  <2>1. /\ call'[t].k = call[t].k + 1 /\ UNCHANGED he /\ call[t].at = "idle"
        /\ call'[t].at \in {"entered", "idle"} /\ held' \in {held, NoCall}
        /\ call'[t].at = "idle" => call'[t].f # "hostent"
    BY <1>1 DEF Begin, TooSmall, Literal, TypeOK, CallRecord, NewCall, Outside
  <2>2. call[t].k \in Nat
    BY Bounds DEF TypeOK, CallRecord
  <2>. QED
    BY <1>h, <1>e, <2>1, <2>2 DEF HeIsAnswer, Outside, Done
<1>2. CASE Free(t)
  BY <1>h, <1>2 DEF Free, HeIsAnswer, Outside, Done, Id, OnTime
<1>3. CASE TestInitDone(t) \/ LibraryInit(t) \/ OpenChannel(t)
  <2>1. /\ call'[t].at \notin {"close", "idle"} /\ call[t].at # "idle"
        /\ call'[t].k = call[t].k /\ UNCHANGED <<he, held>>
    BY <1>3 DEF TestInitDone, LibraryInit, OpenChannel, TypeOK, CallRecord
  <2>. QED
    BY <1>h, <1>e, <2>1 DEF HeIsAnswer, Outside, Done
<1>4. CASE SetFields(t)
  <2>1. call[t].at = "fields" /\ call'[t].at = "open" /\ UNCHANGED held
    BY <1>4 DEF SetFields, TypeOK, CallRecord
  <2>2. ~Ready /\ ~Outside(t)
    BY <2>1 DEF Ready, Outside
  <2>3. (held = NoCall \/ held \in early) /\ \A u \in Thread \ {t} : ~Outside(u) => ~OnTime(u)
    BY <2>2, OnlyCaller
  <2>. QED
    BY <1>e, <2>1, <2>3 DEF HeIsAnswer, Outside, Done
<1>5. CASE Callback(t)
  <2>1. call[t].at = "lookup" /\ call'[t].at = "close" /\ UNCHANGED held
        /\ call'[t].f = call[t].f /\ call'[t].k = call[t].k
    BY <1>5, CallbackMoves
  <2>2. CASE call[t].f = "hostent"
    <3>1. PICK heard \in {"answer", "failure"}, n \in 0 .. MaxAddrs :
            GethostbynameCallback(t, heard, n)
      BY <1>5, <2>2 DEF Callback, GetaddrinfoCallback, GetnameinfoCallback
    <3>2. held = NoCall /\ \A u \in Thread \ {t} : ~Outside(u) => call[u].f # "hostent"
      BY <2>1, <2>2 DEF OneUserOfHe, Outside
    <3>3. OnTime(t)' => he.named
      BY <2>1, OnTimeBefore DEF AloneUntilReady, Outside, Ready
    <3>4. he.named => he' = (IF heard = "answer" THEN Filled(he, t, n) ELSE Cleared(he))
      BY <2>2, <3>1 DEF GethostbynameCallback, IntoStatic
    <3>5. call'[t].heard = heard /\ call'[t].naddrs = n
      BY <2>2, <3>1 DEF GethostbynameCallback, IntoStatic, TypeOK, CallRecord
    <3>6. Id(t)' = Id(t)
      BY <2>1 DEF Id
    <3>. QED
      BY <1>e, <2>1, <2>2, <3>2, <3>3, <3>4, <3>5, <3>6
      DEF HeIsAnswer, Outside, Done, Filled, Cleared
  <2>3. CASE call[t].f # "hostent"
    <3>1. UNCHANGED he
      BY <1>5, <2>3 DEF Callback, GethostbynameCallback, GetaddrinfoCallback,
                        GetnameinfoCallback, IntoStatic
    <3>. QED
      BY <1>h, <1>e, <2>1, <2>3, <3>1 DEF HeIsAnswer, Outside, Done
  <2>. QED
    BY <2>2, <2>3
<1>6. CASE Return(t)
  <2>1. CASE call[t].f = "hostent"
    <3>1. Id(t)' = Id(t) /\ Id(t) \in CallId /\ Id(t)[1] = t /\ Id(t)[2] = call[t].k
      BY <1>6, ReturnMoves DEF Id, TypeOK, CallRecord, Numbered, Outside, CallId
    <3>2. \A u \in Thread \ {t} : ~Outside(u) => call[u].f # "hostent"
      BY <1>6, <2>1, ReturnMoves DEF OneUserOfHe, Outside
    <3>3. (OnTime(t)' => OnTime(t)) /\ (Id(t) \notin early' => OnTime(t))
      BY <1>6, ReturnMoves, OnTimeBefore, EarlyGrows DEF OnTime
    <3>. QED
      BY <1>6, <1>e, <2>1, <3>1, <3>2, <3>3, ReturnMoves, CallNames
      DEF HeIsAnswer, Outside, Done
  <2>2. CASE call[t].f # "hostent"
    BY <1>h, <1>e, <1>6, <2>2, ReturnMoves DEF HeIsAnswer, Outside, Done
  <2>. QED
    BY <2>1, <2>2
<1>. QED
  BY <1>1, <1>2, <1>3, <1>4, <1>5, <1>6 DEF Step

LEMMA StepOwn ==
  ASSUME TypeOK, Numbered, OwnAnswers, NEW t \in Thread, Step(t)
  PROVE  OwnAnswers'
<1>. USE OthersKeep
<1>1. CASE Begin(t)
  <2>1. call'[t].at = "entered"
    BY <1>1 DEF Begin, TypeOK, NewCall
  <2>. QED
    BY <1>1, <2>1 DEF Begin, OwnAnswers, Outside, Done, Id
<1>2. CASE TooSmall(t)
  <2>1. call'[t].f = "hostent_r" /\ call'[t].at = "idle" /\ call'[t].said = "range"
    BY <1>2 DEF TooSmall, TypeOK, NewCall
  <2>. QED
    BY <1>2, <2>1 DEF TooSmall, OwnAnswers, Outside, Done, Id
<1>3. CASE Literal(t)
  <2>1. /\ call'[t].f = "getaddrinfo" /\ call'[t].at = "idle" /\ call'[t].said = "ok"
        /\ call'[t].heard = "answer" /\ call'[t].naddrs = 1 /\ list'[t] = Id(t)'
        /\ list'[t] \in CallId
    BY <1>3, StepType DEF Literal, TypeOK, CallRecord, NewCall, Id, CallId
  <2>. QED
    BY <2>1, CallNames DEF OwnAnswers, Outside, Done, Id
<1>4. CASE Free(t)
  BY <1>4 DEF Free, OwnAnswers, Outside, Done, Id
<1>5. CASE TestInitDone(t) \/ LibraryInit(t) \/ SetFields(t) \/ OpenChannel(t)
  <2>1. call'[t].at \notin {"close", "idle"} /\ UNCHANGED list
    BY <1>5 DEF TestInitDone, LibraryInit, SetFields, OpenChannel, TypeOK, CallRecord
  <2>. QED
    BY <2>1 DEF OwnAnswers, Outside, Done, Id
<1>6. CASE Callback(t)
  <2>1. PICK heard \in {"answer", "failure"}, n \in 0 .. MaxAddrs :
          GethostbynameCallback(t, heard, n) \/ GetaddrinfoCallback(t, heard, n)
            \/ GetnameinfoCallback(t, heard)
    BY <1>6 DEF Callback
  <2>2. call'[t].at = "close" /\ call'[t].f = call[t].f /\ call'[t].k = call[t].k
    BY <1>6, CallbackMoves
  <2>3. CASE call[t].f = "hostent_r"
    <3>1. /\ call'[t].heard = heard
          /\ call'[t].out = IF heard = "answer" THEN Filled(call[t].out, t, n)
                                                ELSE Cleared(call[t].out)
      BY <2>1, <2>3 DEF GethostbynameCallback, GetaddrinfoCallback, GetnameinfoCallback,
                        IntoStatic, TypeOK, CallRecord
    <3>. QED
      BY <2>2, <2>3, <3>1 DEF OwnAnswers, Outside, Done, Id, Filled, Cleared
  <2>4. CASE call[t].f = "getaddrinfo"
    <3>1. GetaddrinfoCallback(t, heard, n)
      BY <2>1, <2>4 DEF GethostbynameCallback, GetnameinfoCallback
    <3>2. /\ call'[t].heard = heard /\ call'[t].naddrs = n
          /\ heard = "answer" /\ n > 0 => list'[t] = Id(t)
          /\ heard = "failure" => list'[t] = NoCall
      BY <3>1 DEF GetaddrinfoCallback, TypeOK, CallRecord, ListFailed
    <3>. QED
      BY <2>2, <2>4, <3>2 DEF OwnAnswers, Outside, Done, Id
  <2>. QED
    BY <2>2, <2>3, <2>4 DEF OwnAnswers, Outside, Done, Id
<1>7. CASE Return(t)
  BY <1>7, ReturnMoves DEF OwnAnswers, Outside, Done, Id
<1>. QED
  BY <1>1, <1>2, <1>3, <1>4, <1>5, <1>6, <1>7 DEF Step

-----------------------------------------------------------------------------
(* The theorems *)

LEMMA IInvHolds == Spec => []IInv
<1>1. IInv /\ [Next]_vars => IInv'
  <2>. SUFFICES ASSUME IInv, [Next]_vars PROVE IInv'
    OBVIOUS
  <2>1. ASSUME NEW t \in Thread, Step(t) PROVE IInv'
    BY <2>1, StepType, StepAlone, StepOneUser, StepHe, StepOwn DEF IInv
  <2>2. CASE UNCHANGED vars
    BY <2>2 DEF vars, IInv, TypeOK, Numbered, AloneUntilReady, OneUserOfHe, HeIsAnswer,
                OwnAnswers, Outside, Done, Ready, Id, OnTime
  <2>. QED
    BY <2>1, <2>2 DEF Next
<1>. QED
  BY <1>1, InitIInv, PTL DEF Spec

LEMMA OwnHolds == Spec => [](TypeOK /\ Numbered /\ OwnAnswers)
<1>1. Init => TypeOK /\ Numbered /\ OwnAnswers
  BY InitIInv DEF IInv
<1>2. TypeOK /\ Numbered /\ OwnAnswers /\ [Next]_vars => (TypeOK /\ Numbered /\ OwnAnswers)'
  BY StepType, StepOwn DEF Next, vars, TypeOK, Numbered, OwnAnswers, Outside, Done, Id
<1>. QED
  BY <1>1, <1>2, PTL DEF Spec

\* The types, with room for the NULL of every address list, whoever calls when.
THEOREM TypesHold == Spec => []TypeOK
  BY OwnHolds, PTL

\* The static hostent that a call returned keeps its answer until the application
\* asks for another one, however many threads look up names meanwhile and whoever
\* calls first; only a call that ran beside the initialisation may lose it.
THEOREM StaticAnswerKept == Spec => []StaticAnswer
<1>1. IInv => StaticAnswer
  <2>. SUFFICES ASSUME IInv PROVE StaticAnswer
    OBVIOUS
  <2>1. held # NoCall => held[1] \in Thread /\ held[2] \in Nat /\ call[held[1]].k \in Nat
    BY Bounds DEF IInv, TypeOK, CallId, CallRecord
  <2>. QED
    BY <2>1 DEF IInv, HeIsAnswer, StaticAnswer, OnTime
<1>. QED
  BY <1>1, IInvHolds, PTL

\* The _r functions fill the caller's buffer with the caller's answer, whatever
\* the threads do at the same time.
THEOREM OwnBufferHolds == Spec => []OwnBuffer
<1>1. OwnAnswers => OwnBuffer
  BY DEF OwnAnswers, OwnBuffer, Done
<1>. QED
  BY <1>1, OwnHolds, PTL

\* getaddrinfo gives its caller a list of its own, or reports the failure.
THEOREM ListAnswerHolds == Spec => []ListAnswer
<1>1. TypeOK /\ OwnAnswers => ListAnswer
  <2>. SUFFICES ASSUME TypeOK, OwnAnswers PROVE ListAnswer
    OBVIOUS
  <2>1. \A t \in Thread : Id(t) # NoCall
    <3>1. \A t \in Thread : call[t].k \in Nat
      BY Bounds DEF TypeOK, CallRecord
    <3>2. \A t \in Thread : Id(t) \in Thread \X Nat
      BY <3>1 DEF Id
    <3>. QED
      BY <3>2, NoCallAssumption
  <2>. QED
    BY <2>1 DEF OwnAnswers, ListAnswer, Done, Outside
<1>. QED
  BY <1>1, OwnHolds, PTL
=============================================================================
