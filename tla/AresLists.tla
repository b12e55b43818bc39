------------------------------ MODULE AresLists ------------------------------
(***************************************************************************)
(* The circular doubly linked lists of ares_llist.c that hold the queries  *)
(* of a channel, of a server and of a timeout bucket.  A heap gives every  *)
(* cell its next and prev; a head is a cell, and is alone when its list is *)
(* empty.                                                                  *)
(***************************************************************************)
EXTENDS Integers, Sequences, SequencesExt

CONSTANTS
  Heads,          \* the heads of the lists
  Node,           \* the nodes
  Null            \* no cell

ASSUME CellsAssumption == Heads \cap Node = {} /\ Null \notin Heads \cup Node

VARIABLES
  heap,           \* the links of the cells
  lists           \* the nodes each list should have, in their order

listsVars == <<heap, lists>>

Cell == Heads \cup Node

-----------------------------------------------------------------------------
(* Operations: what each makes of the links in h *)

\* ares__init_list_head, ares__init_list_node
InitListHead(h, head) == [next |-> [h.next EXCEPT ![head] = head],
                          prev |-> [h.prev EXCEPT ![head] = head]]

\* All heads and nodes initialised.
EmptyHeap ==
  LET alone == [c \in Cell |-> IF c \in Heads THEN c ELSE Null]
  IN  [next |-> alone, prev |-> alone]

IsListEmpty(h, head) == h.next[head] = head /\ h.prev[head] = head

\* new comes before old.
InsertInList(h, new, old) ==
  LET before == h.prev[old]
  IN  [next |-> [h.next EXCEPT ![new] = old, ![before] = new],
       prev |-> [h.prev EXCEPT ![new] = before, ![old] = new]]

\* A node in no list has no next and stays as it is.
RemoveFromList(h, node) ==
  IF h.next[node] = Null THEN h
  ELSE LET n == h.next[node]
           p == h.prev[node]
       IN  [next |-> [h.next EXCEPT ![p] = n, ![node] = Null],
            prev |-> [h.prev EXCEPT ![n] = p, ![node] = Null]]

\* head takes over the cells that old was the head of in the heap before.
TakeOver(h, head, before, old) ==
  IF IsListEmpty(before, old) THEN InitListHead(h, head)
  ELSE [next |-> [h.next EXCEPT ![head] = before.next[old], ![before.prev[old]] = head],
        prev |-> [h.prev EXCEPT ![head] = before.prev[old], ![before.next[old]] = head]]

\* Mutant: an empty list leaves the other head as it was.
SwapFilled(h, a, b) ==
  LET one == IF IsListEmpty(h, a) THEN h ELSE TakeOver(h, b, h, a)
  IN  IF IsListEmpty(h, b) THEN one ELSE TakeOver(one, a, h, b)

\* The heads are copied before either is written.
SwapLists(h, a, b) == TakeOver(TakeOver(h, b, h, a), a, h, b)

-----------------------------------------------------------------------------
(* The lists beside their links *)

\* The cell at a place of the list of a head; behind its nodes is the head.
CellAt(list, head, i) == IF i \in DOMAIN list THEN list[i] ELSE head

Listed(ls) == UNION {ToSet(ls[head]) : head \in Heads}

ListsInit == heap = EmptyHeap /\ lists = [head \in Heads |-> <<>>]

InsertNode ==
  \E new \in Node \ Listed(lists), head \in Heads : \E i \in 1 .. Len(lists[head]) + 1 :
    /\ heap' = InsertInList(heap, new, CellAt(lists[head], head, i))
    /\ lists' = [lists EXCEPT ![head] = InsertAt(@, i, new)]

RemoveNode ==
  \E head \in Heads : \E i \in DOMAIN lists[head] :
    /\ heap' = RemoveFromList(heap, lists[head][i])
    /\ lists' = [lists EXCEPT ![head] = RemoveAt(@, i)]

RemoveAlone ==
  \E node \in Node \ Listed(lists) : heap' = RemoveFromList(heap, node) /\ UNCHANGED lists

ExchangeLists ==
  \E a, b \in Heads :
    /\ heap' = SwapLists(heap, a, b)
    /\ lists' = [lists EXCEPT ![a] = lists[b], ![b] = lists[a]]

ListsNext == InsertNode \/ RemoveNode \/ RemoveAlone \/ ExchangeLists

ListsSpec == ListsInit /\ [][ListsNext]_listsVars

-----------------------------------------------------------------------------
(* Properties *)

\* Whatever order nodes are listed, taken out and exchanged in, each list is a
\* circle through its head in both directions with the nodes it should have in
\* their order, it looks empty exactly when it is, and a node in no list is
\* linked to nothing (ares_llist.c).
ListsKept ==
  /\ \A head \in Heads : \A i \in 0 .. Len(lists[head]) :
       /\ heap.next[CellAt(lists[head], head, i)] = CellAt(lists[head], head, i + 1)
       /\ heap.prev[CellAt(lists[head], head, i + 1)] = CellAt(lists[head], head, i)
  /\ \A head \in Heads : IsListEmpty(heap, head) <=> lists[head] = <<>>
  /\ \A node \in Node \ Listed(lists) : heap.next[node] = Null /\ heap.prev[node] = Null
=============================================================================
