----------------------------- MODULE NameSearch -----------------------------
(***************************************************************************)
(* What ares_search promises (ares_search.3): the candidates of a name,    *)
(* the name itself and the name with each search domain, are asked one at  *)
(* a time in the order of the agenda, until one answer settles the search. *)
(* If every candidate was refused, ares_search.3:72-93 gives the verdict   *)
(* on the name as it is; the comment in search_callback (ares_search.c)    *)
(* wants a missing name not to hide that some candidate exists without     *)
(* data of the type asked for.  Where the two differ either is allowed.    *)
(***************************************************************************)
EXTENDS Integers, Sequences

CONSTANTS
  Lookup,    \* who searches
  NDomains   \* how many search domains there are

AsIs == 0
Candidate == 0 .. NDomains
Soft == {"ENODATA", "ESERVFAIL", "ENOTFOUND"}
Hard == {"SUCCESS", "EFORMERR", "ENOTIMP", "EREFUSED", "EBADNAME", "ETIMEOUT", "ECONNREFUSED",
         "ENOMEM", "ECANCELLED", "EDESTRUCTION"}

VARIABLES
  agenda,   \* the candidates still to be settled; the first one is being asked
  replies,  \* why candidates of the running search were refused
  verdict   \* how the last search ended

vars == <<agenda, replies, verdict>>

InOrder == [i \in 1 .. NDomains |-> i]

\* One name only, the name before the domains, or after them.
Orders == {<<AsIs>>, <<AsIs>> \o InOrder, InOrder \o <<AsIs>>}

NoReplies == [c \in Candidate |-> "NONE"]

Init ==
  /\ agenda = [l \in Lookup |-> <<>>]
  /\ replies = [l \in Lookup |-> NoReplies]
  /\ verdict = [l \in Lookup |-> "NONE"]

StartOver(l) ==
  /\ \E order \in Orders : agenda' = [agenda EXCEPT ![l] = order]
  /\ replies' = [replies EXCEPT ![l] = NoReplies]
  /\ verdict' = [verdict EXCEPT ![l] = "NONE"]

Begin(l) == agenda[l] = <<>> /\ StartOver(l)

Refused(l, status) ==
  /\ Len(agenda[l]) > 1
  /\ replies' = [replies EXCEPT ![l][Head(agenda[l])] = status]
  /\ agenda' = [agenda EXCEPT ![l] = Tail(@)]
  /\ UNCHANGED verdict

Finish(l, status) ==
  /\ agenda' = [agenda EXCEPT ![l] = <<>>]
  /\ replies' = [replies EXCEPT ![l] = NoReplies]
  /\ verdict' = [verdict EXCEPT ![l] = status]

\* The verdicts of a search whose candidates were refused for the reasons heard.
Verdicts(heard) ==
  {heard[AsIs]} \cup {v \in {"ENODATA"} :
                       heard[AsIs] = "ENOTFOUND" /\ \E c \in Candidate : heard[c] = v}

Exhausted(l, status) ==
  /\ Len(agenda[l]) = 1
  /\ \E v \in Verdicts([replies[l] EXCEPT ![Head(agenda[l])] = status]) : Finish(l, v)

Settled(l, status) == agenda[l] # <<>> /\ Finish(l, status)

\* A search that ended may be followed at once by one for another type.
Answered(l) ==
  \/ \E status \in Soft : Refused(l, status) \/ Exhausted(l, status)
  \/ \E status \in Hard : Settled(l, status)
  \/ Len(agenda[l]) >= 1 /\ StartOver(l)

Next == \E l \in Lookup : Begin(l) \/ Answered(l)

Spec == Init /\ [][Next]_vars
=============================================================================
