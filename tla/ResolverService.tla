--------------------------- MODULE ResolverService ---------------------------
(***************************************************************************)
(* What the query engine promises to its callers (ares_send.3): every      *)
(* query is either refused at once or is pending, is transmitted a bounded *)
(* number of times while it is pending, and is concluded exactly once, by  *)
(* one call of its callback.  Only a query that was transmitted can        *)
(* succeed or time out.                                                    *)
(***************************************************************************)
EXTENDS Integers

CONSTANTS
  Query,   \* the queries
  Budget   \* how often one query may be transmitted

VARIABLES
  stage,     \* "new", "pending" or "concluded"
  attempts,  \* transmissions so far
  outcome    \* the status given to the callback, "NONE" before that

vars == <<stage, attempts, outcome>>

Init ==
  /\ stage = [q \in Query |-> "new"]
  /\ attempts = [q \in Query |-> 0]
  /\ outcome = [q \in Query |-> "NONE"]

Submit(q) ==
  /\ stage[q] = "new"
  /\ stage' = [stage EXCEPT ![q] = "pending"]
  /\ UNCHANGED <<attempts, outcome>>

Refuse(q) ==
  /\ stage[q] = "new"
  /\ stage' = [stage EXCEPT ![q] = "concluded"]
  /\ outcome' \in {[outcome EXCEPT ![q] = st] : st \in {"EBADQUERY", "ENOMEM"}}
  /\ UNCHANGED attempts

Transmit(q) ==
  /\ stage[q] = "pending"
  /\ attempts[q] < Budget
  /\ attempts' = [attempts EXCEPT ![q] = @ + 1]
  /\ UNCHANGED <<stage, outcome>>

Ending(q) == {"ENOMEM", "ECANCELLED", "EDESTRUCTION"}
             \cup IF attempts[q] > 0 THEN {"SUCCESS", "ETIMEOUT", "ECONNREFUSED"} ELSE {}

Conclude(q) ==
  /\ stage[q] = "pending"
  /\ stage' = [stage EXCEPT ![q] = "concluded"]
  /\ outcome' \in {[outcome EXCEPT ![q] = st] : st \in Ending(q)}
  /\ UNCHANGED attempts

Next == \E q \in Query : Submit(q) \/ Refuse(q) \/ Transmit(q) \/ Conclude(q)

\* Every pending query is concluded.
Spec == Init /\ [][Next]_vars /\ \A q \in Query : WF_vars(Conclude(q))
=============================================================================
