--------------------------- MODULE AresListsProofs ---------------------------
(***************************************************************************)
(* The linked lists hold what was put into them, for any number of heads   *)
(* and nodes and any sequence of insertions, removals and exchanges.       *)
(***************************************************************************)
EXTENDS AresLists, TLAPS, SequenceTheorems

-----------------------------------------------------------------------------
(* A node more, a node less *)

LEMMA InsertedPlaces ==
  ASSUME NEW S, NEW l \in Seq(S), NEW x \in S, NEW i \in 1 .. Len(l) + 1
  PROVE  /\ InsertAt(l, i, x) \in Seq(S)
         /\ Len(InsertAt(l, i, x)) = Len(l) + 1
         /\ \A k \in 1 .. Len(l) + 1 :
              InsertAt(l, i, x)[k] = IF k < i THEN l[k] ELSE IF k = i THEN x ELSE l[k - 1]
<1>. DEFINE front == SubSeq(l, 1, i - 1)
            back == SubSeq(l, i, Len(l))
<1>n. PICK n \in Nat : n = Len(l)
  BY LenProperties
<1>i. i \in 1 .. n + 1
  BY <1>n
<1>1. /\ front \in Seq(S) /\ Len(front) = i - 1
      /\ \A k \in 1 .. i - 1 : front[k] = l[k]
  BY <1>n, ElementOfSeq
<1>2. /\ back \in Seq(S) /\ Len(back) = n - i + 1
      /\ \A k \in 1 .. n - i + 1 : back[k] = l[k + i - 1]
  BY <1>n, ElementOfSeq
<1>3. InsertAt(l, i, x) = front \o <<x>> \o back
  BY DEF InsertAt
<1>. HIDE DEF front, back
<1>4. /\ front \o <<x>> \in Seq(S) /\ Len(front \o <<x>>) = i
      /\ \A k \in 1 .. i : (front \o <<x>>)[k] = IF k < i THEN l[k] ELSE x
  BY <1>1, <1>n
<1>. DEFINE start == front \o <<x>>
<1>5. /\ start \in Seq(S) /\ Len(start) = i
      /\ \A k \in 1 .. i : start[k] = IF k < i THEN l[k] ELSE x
  BY <1>4
<1>. HIDE DEF start
<1>6. /\ start \o back \in Seq(S) /\ Len(start \o back) = n + 1
      /\ \A k \in 1 .. n + 1 : (start \o back)[k] = IF k <= i THEN start[k] ELSE back[k - i]
  BY <1>5, <1>2, <1>n
<1>7. ASSUME NEW k \in 1 .. n + 1
      PROVE  (start \o back)[k] = IF k < i THEN l[k] ELSE IF k = i THEN x ELSE l[k - 1]
  <2>1. CASE k <= i
    BY <2>1, <1>5, <1>6, <1>7, <1>n
  <2>2. CASE k > i
    <3>1. k - i \in 1 .. n - i + 1 /\ (k - i) + i - 1 = k - 1
      BY <2>2, <1>7, <1>n
    <3>2. back[k - i] = l[k - 1]
      BY <3>1, <1>2
    <3>. QED
      BY <2>2, <3>2, <1>6, <1>7, <1>n
  <2>3. k <= i \/ k > i
    BY <1>i, <1>7
  <2>. QED
    BY <2>1, <2>2, <2>3, Zenon
<1>. QED
  BY <1>3, <1>6, <1>7, <1>n DEF start

LEMMA RemovedPlaces ==
  ASSUME NEW S, NEW l \in Seq(S), NEW i \in 1 .. Len(l)
  PROVE  /\ RemoveAt(l, i) \in Seq(S)
         /\ Len(RemoveAt(l, i)) = Len(l) - 1
         /\ \A k \in 1 .. Len(l) - 1 : RemoveAt(l, i)[k] = IF k < i THEN l[k] ELSE l[k + 1]
<1>. DEFINE front == SubSeq(l, 1, i - 1)
            back == SubSeq(l, i + 1, Len(l))
<1>n. PICK n \in Nat : n = Len(l)
  BY LenProperties
<1>i. i \in 1 .. n
  BY <1>n
<1>1. /\ front \in Seq(S) /\ Len(front) = i - 1
      /\ \A k \in 1 .. i - 1 : front[k] = l[k]
  BY <1>n, ElementOfSeq
<1>2. /\ back \in Seq(S) /\ Len(back) = n - i
      /\ \A k \in 1 .. n - i : back[k] = l[k + i]
  BY <1>n, ElementOfSeq
<1>3. RemoveAt(l, i) = front \o back
  BY DEF RemoveAt
<1>. HIDE DEF front, back
<1>4. /\ front \o back \in Seq(S) /\ Len(front \o back) = n - 1
      /\ \A k \in 1 .. n - 1 : (front \o back)[k] = IF k < i THEN front[k] ELSE back[k - i + 1]
  <2>1. Len(front) + Len(back) = n - 1 /\ n - 1 \in Int /\ i - 1 \in Int
    BY <1>1, <1>2, <1>i
  <2>2. /\ front \o back \in Seq(S) /\ Len(front \o back) = Len(front) + Len(back)
        /\ \A k \in 1 .. Len(front) + Len(back) :
             (front \o back)[k] = IF k <= Len(front) THEN front[k] ELSE back[k - Len(front)]
    BY <1>1, <1>2, ConcatProperties
  <2>. QED
    BY <2>1, <2>2, <1>1, <1>i
<1>5. ASSUME NEW k \in 1 .. n - 1
      PROVE  (front \o back)[k] = IF k < i THEN l[k] ELSE l[k + 1]
  <2>1. CASE k < i
    BY <2>1, <1>1, <1>4, <1>5, <1>n
  <2>2. CASE k >= i
    <3>1. k - i + 1 \in 1 .. n - i /\ (k - i + 1) + i = k + 1
      BY <2>2, <1>5, <1>n
    <3>2. back[k - i + 1] = l[k + 1]
      BY <3>1, <1>2
    <3>. QED
      BY <2>2, <3>2, <1>4, <1>5, <1>n
  <2>3. k < i \/ k >= i
    BY <1>i, <1>5
  <2>. QED
    BY <2>1, <2>2, <2>3, Zenon
<1>. QED
  BY <1>3, <1>4, <1>5, <1>n

-----------------------------------------------------------------------------
(* The inductive invariant *)

Links == [Cell -> Cell \cup {Null}]

\* No node stands at two places.
OnePlace(ls) ==
  \A a, b \in Heads : \A i \in DOMAIN ls[a], k \in DOMAIN ls[b] : ls[a][i] = ls[b][k] => a = b /\ i = k

\* A list is a circle through its head.
Circle(h, list, head) ==
  \A i \in 0 .. Len(list) :
    /\ h.next[CellAt(list, head, i)] = CellAt(list, head, i + 1)
    /\ h.prev[CellAt(list, head, i + 1)] = CellAt(list, head, i)

Sound(h, ls) ==
  /\ h \in [next : Links, prev : Links]
  /\ ls \in [Heads -> Seq(Node)]
  /\ OnePlace(ls)
  /\ \A head \in Heads : Circle(h, ls[head], head)
  /\ \A node \in Node \ Listed(ls) : h.next[node] = Null /\ h.prev[node] = Null

ListsInv == Sound(heap, lists)

LEMMA CellsOf ==
  ASSUME NEW list \in Seq(Node), NEW head \in Heads, NEW i \in Int
  PROVE  /\ CellAt(list, head, i) \in Cell
         /\ i \in 1 .. Len(list) => CellAt(list, head, i) = list[i] /\ list[i] \in Node
         /\ i \notin 1 .. Len(list) => CellAt(list, head, i) = head
BY ElementOfSeq DEF CellAt, Cell

LEMMA ListedNode ==
  ASSUME NEW ls \in [Heads -> Seq(Node)], NEW node
  PROVE  node \in Listed(ls) <=> \E head \in Heads : \E i \in 1 .. Len(ls[head]) : ls[head][i] = node
BY DEF Listed, ToSet

\* Two cells of the circles are two: from the head on, or up to it.
LEMMA OneCell ==
  ASSUME NEW ls \in [Heads -> Seq(Node)], OnePlace(ls), NEW a \in Heads, NEW b \in Heads,
         NEW i \in 0 .. Len(ls[a]) + 1, NEW k \in 0 .. Len(ls[b]) + 1,
         CellAt(ls[a], a, i) = CellAt(ls[b], b, k)
  PROVE  /\ a = b
         /\ i = k \/ (i = 0 /\ k = Len(ls[b]) + 1) \/ (k = 0 /\ i = Len(ls[a]) + 1)
<1>. DEFINE m == Len(ls[a])
            n == Len(ls[b])
<1>1. m \in Nat /\ n \in Nat
  BY LenProperties
<1>2. /\ i \in Int /\ k \in Int
      /\ i \in 1 .. m \/ i \in {0, m + 1}
      /\ k \in 1 .. n \/ k \in {0, n + 1}
      /\ 0 \notin 1 .. m /\ m + 1 \notin 1 .. m
      /\ 0 \notin 1 .. n /\ n + 1 \notin 1 .. n
  BY <1>1
<1>3. ls[a] \in Seq(Node) /\ ls[b] \in Seq(Node)
  OBVIOUS
<1>4. /\ i \in 1 .. m => CellAt(ls[a], a, i) = ls[a][i] /\ ls[a][i] \in Node
      /\ i \notin 1 .. m => CellAt(ls[a], a, i) = a
  BY <1>2, <1>3, CellsOf
<1>5. /\ k \in 1 .. n => CellAt(ls[b], b, k) = ls[b][k] /\ ls[b][k] \in Node
      /\ k \notin 1 .. n => CellAt(ls[b], b, k) = b
  BY <1>2, <1>3, CellsOf
<1>6. DOMAIN ls[a] = 1 .. m /\ DOMAIN ls[b] = 1 .. n
  BY <1>3, LenProperties
<1>. HIDE DEF m, n
<1>7. CASE i \in 1 .. m /\ k \in 1 .. n
  <2>1. i \in DOMAIN ls[a] /\ k \in DOMAIN ls[b] /\ ls[a][i] = ls[b][k]
    BY <1>7, <1>4, <1>5, <1>6
  <2>. QED
    BY <2>1 DEF OnePlace
<1>8. CASE i \in {0, m + 1} /\ k \in {0, n + 1}
  <2>1. a = b
    BY <1>8, <1>4, <1>5, <1>2
  <2>2. m = n
    BY <2>1 DEF m, n
  <2>3. i = k \/ (i = 0 /\ k = n + 1) \/ (k = 0 /\ i = m + 1)
    BY <2>2, <1>8
  <2>. QED
    BY <2>1, <2>3 DEF m, n
<1>9. CASE i \in 1 .. m /\ k \in {0, n + 1}
  BY <1>9, <1>4, <1>5, <1>2, CellsAssumption
<1>10. CASE i \in {0, m + 1} /\ k \in 1 .. n
  BY <1>10, <1>4, <1>5, <1>2, CellsAssumption
<1>. QED
  BY <1>2, <1>7, <1>8, <1>9, <1>10

-----------------------------------------------------------------------------
(* Insertion *)

LEMMA NewIsNowhere ==
  ASSUME NEW ls \in [Heads -> Seq(Node)], NEW new \in Node \ Listed(ls), NEW b \in Heads, NEW k \in Int
  PROVE  CellAt(ls[b], b, k) # new
<1>1. ls[b] \in Seq(Node)
  OBVIOUS
<1>. QED
  BY <1>1, CellsOf, ListedNode, CellsAssumption

LEMMA InsertedCells ==
  ASSUME NEW l \in Seq(Node), NEW head \in Heads, NEW new \in Node, NEW i \in 1 .. Len(l) + 1,
         NEW j \in 0 .. Len(l) + 2
  PROVE  CellAt(InsertAt(l, i, new), head, j) =
           IF j < i THEN CellAt(l, head, j) ELSE IF j = i THEN new ELSE CellAt(l, head, j - 1)
<1>. DEFINE l2 == InsertAt(l, i, new)
<1>n. PICK n \in Nat : n = Len(l)
  BY LenProperties
<1>1. /\ l2 \in Seq(Node) /\ Len(l2) = n + 1
      /\ \A k \in 1 .. n + 1 : l2[k] = IF k < i THEN l[k] ELSE IF k = i THEN new ELSE l[k - 1]
  <2>1. /\ l2 \in Seq(Node) /\ Len(l2) = Len(l) + 1
        /\ \A k \in 1 .. Len(l) + 1 : l2[k] = IF k < i THEN l[k] ELSE IF k = i THEN new ELSE l[k - 1]
    BY InsertedPlaces
  <2>. QED
    BY <2>1, <1>n
<1>. HIDE DEF l2
<1>. SUFFICES CellAt(l2, head, j) =
                IF j < i THEN CellAt(l, head, j) ELSE IF j = i THEN new ELSE CellAt(l, head, j - 1)
  BY DEF l2
<1>2. j \in 0 .. n + 2 /\ i \in 1 .. n + 1
  BY <1>n
<1>3. DOMAIN l = 1 .. n /\ DOMAIN l2 = 1 .. n + 1
  BY <1>1, <1>n, LenProperties
<1>4. CASE j \in 1 .. n + 1
  <2>1. CellAt(l2, head, j) = IF j < i THEN l[j] ELSE IF j = i THEN new ELSE l[j - 1]
    BY <1>4, <1>1, <1>3 DEF CellAt
  <2>2. CASE j < i
    BY <2>1, <2>2, <1>2, <1>3, <1>4 DEF CellAt
  <2>3. CASE j = i
    BY <2>1, <2>3, <1>2
  <2>4. CASE j > i
    BY <2>1, <2>4, <1>2, <1>3, <1>4 DEF CellAt
  <2>. QED
    BY <2>2, <2>3, <2>4, <1>2
<1>5. CASE j = 0
  BY <1>5, <1>2, <1>3 DEF CellAt
<1>6. CASE j = n + 2
  BY <1>6, <1>2, <1>3 DEF CellAt
<1>. QED
  BY <1>2, <1>4, <1>5, <1>6

LEMMA InsertKeeps ==
  ASSUME NEW h, NEW ls, Sound(h, ls),
         NEW new \in Node \ Listed(ls), NEW head \in Heads, NEW i \in 1 .. Len(ls[head]) + 1
  PROVE  Sound(InsertInList(h, new, CellAt(ls[head], head, i)), [ls EXCEPT ![head] = InsertAt(@, i, new)])
<1>. DEFINE l == ls[head]
            old == CellAt(l, head, i)
            before == CellAt(l, head, i - 1)
            l2 == InsertAt(l, i, new)
            ls2 == [ls EXCEPT ![head] = InsertAt(@, i, new)]
            h2 == InsertInList(h, new, old)
<1>1. /\ h \in [next : Links, prev : Links] /\ ls \in [Heads -> Seq(Node)] /\ l \in Seq(Node)
      /\ OnePlace(ls)
      /\ \A b \in Heads : Circle(h, ls[b], b)
      /\ \A node \in Node \ Listed(ls) : h.next[node] = Null /\ h.prev[node] = Null
  BY DEF Sound
<1>n. PICK n \in Nat : n = Len(l)
  BY <1>1, LenProperties
<1>i. i \in 1 .. n + 1 /\ i - 1 \in 0 .. n /\ i \in Int /\ i - 1 \in Int /\ (i - 1) + 1 = i
  BY <1>n
<1>2. old \in Cell /\ before \in Cell /\ new \in Cell /\ old # new /\ before # new
  BY <1>1, <1>i, CellsOf, NewIsNowhere DEF Cell
<1>3. h.next[before] = old /\ h.prev[old] = before
  BY <1>1, <1>i, <1>n DEF Circle
<1>4. /\ h2 \in [next : Links, prev : Links]
      /\ \A c \in Cell : h2.next[c] = IF c = before THEN new ELSE IF c = new THEN old ELSE h.next[c]
      /\ \A c \in Cell : h2.prev[c] = IF c = old THEN new ELSE IF c = new THEN before ELSE h.prev[c]
  BY <1>1, <1>2, <1>3 DEF InsertInList, Links
<1>5. l2 \in Seq(Node) /\ Len(l2) = n + 1
  BY <1>1, <1>n, InsertedPlaces
<1>6. ls2 \in [Heads -> Seq(Node)] /\ ls2[head] = l2 /\ \A b \in Heads \ {head} : ls2[b] = ls[b]
  BY <1>1, <1>5
<1>7. \A j \in 0 .. n + 2 : CellAt(l2, head, j) =
           IF j < i THEN CellAt(l, head, j) ELSE IF j = i THEN new ELSE CellAt(l, head, j - 1)
  BY <1>1, <1>n, InsertedCells
<1>8. \A j \in 1 .. n + 1 : l2[j] = IF j < i THEN l[j] ELSE IF j = i THEN new ELSE l[j - 1]
  <2>. HIDE DEF l
  <2>1. l \in Seq(Node) /\ new \in Node /\ i \in 1 .. Len(l) + 1
    BY <1>1, <1>i, <1>n
  <2>2. \A j \in 1 .. Len(l) + 1 : l2[j] = IF j < i THEN l[j] ELSE IF j = i THEN new ELSE l[j - 1]
    BY <2>1, InsertedPlaces
  <2>. HIDE DEF l2
  <2>. QED
    BY <2>2, <1>n
<1>9. DOMAIN l = 1 .. n /\ DOMAIN l2 = 1 .. n + 1
  BY <1>1, <1>5, <1>n, LenProperties
<1>. HIDE DEF l, old, before, l2, ls2, h2
<1>10. OnePlace(ls2)
  <2>. SUFFICES ASSUME NEW b \in Heads, NEW c \in Heads, NEW j \in DOMAIN ls2[b], NEW k \in DOMAIN ls2[c],
                       ls2[b][j] = ls2[c][k]
                PROVE  b = c /\ j = k
    BY DEF OnePlace
  <2>1. \A d \in Heads : \A m \in DOMAIN ls[d] : ls[d][m] # new
    BY <1>1, ListedNode, LenProperties
  <2>2. ASSUME NEW j1 \in DOMAIN l2
        PROVE  \/ j1 = i /\ l2[j1] = new
               \/ j1 < i /\ j1 \in DOMAIN l /\ l2[j1] = l[j1]
               \/ j1 > i /\ j1 - 1 \in DOMAIN l /\ l2[j1] = l[j1 - 1]
    BY <1>8, <1>9, <1>i
  <2>3. CASE b = head /\ c = head
    <3>1. j \in Int /\ k \in Int
      BY <2>3, <1>6, <1>9
    <3>2. \A m, o \in DOMAIN l : l[m] = l[o] => m = o
      BY <1>1 DEF OnePlace, l
    <3>3. \A m \in DOMAIN l : l[m] # new
      BY <2>1 DEF l
    <3>. QED
      BY <2>2, <2>3, <3>1, <3>2, <3>3, <1>6, <1>i
  <2>4. CASE b = head /\ c # head
    <3>1. ls2[c] = ls[c] /\ j \in DOMAIN l2 /\ l2[j] = ls[c][k]
      BY <2>4, <1>6
    <3>2. \A m \in DOMAIN l : l[m] # ls[c][k]
      BY <2>4, <3>1, <1>1 DEF OnePlace, l
    <3>. QED
      BY <2>1, <2>2, <3>1, <3>2
  <2>5. CASE b # head /\ c = head
    <3>1. ls2[b] = ls[b] /\ k \in DOMAIN l2 /\ l2[k] = ls[b][j]
      BY <2>5, <1>6
    <3>2. \A m \in DOMAIN l : l[m] # ls[b][j]
      BY <2>5, <3>1, <1>1 DEF OnePlace, l
    <3>. QED
      BY <2>1, <2>2, <3>1, <3>2
  <2>6. CASE b # head /\ c # head
    BY <2>6, <1>6, <1>1 DEF OnePlace
  <2>. QED
    BY <2>3, <2>4, <2>5, <2>6
<1>11. Circle(h2, l2, head)
  <2>1. ASSUME NEW j \in 0 .. n + 1
        PROVE  /\ h2.next[CellAt(l2, head, j)] = CellAt(l2, head, j + 1)
               /\ h2.prev[CellAt(l2, head, j + 1)] = CellAt(l2, head, j)
    <3>1. j \in Int /\ j + 1 \in Int /\ j - 1 \in Int /\ (j + 1) - 1 = j /\ (j - 1) + 1 = j
          /\ j \in 0 .. n + 2 /\ j + 1 \in 0 .. n + 2
      BY <2>1
    <3>2. \A m \in Int : CellAt(l, head, m) \in Cell /\ CellAt(l, head, m) # new
      BY <1>1, CellsOf, NewIsNowhere DEF l
    <3>3. ASSUME NEW m \in 0 .. n, m # i - 1 PROVE CellAt(l, head, m) # before
      BY <3>3, <1>1, <1>i, <1>n, OneCell DEF l, before
    <3>4. ASSUME NEW m \in 1 .. n + 1, m # i PROVE CellAt(l, head, m) # old
      BY <3>4, <1>1, <1>i, <1>n, OneCell DEF l, old
    <3>5. \A m \in 0 .. n : /\ h.next[CellAt(l, head, m)] = CellAt(l, head, m + 1)
                            /\ h.prev[CellAt(l, head, m + 1)] = CellAt(l, head, m)
      BY <1>1, <1>n DEF l, Circle
    <3>6. CASE j < i - 1
      <4>1. CellAt(l2, head, j) = CellAt(l, head, j) /\ CellAt(l2, head, j + 1) = CellAt(l, head, j + 1)
        BY <3>6, <3>1, <1>7, <1>i
      <4>2. j \in 0 .. n /\ j # i - 1 /\ j + 1 \in 1 .. n + 1 /\ j + 1 # i
        BY <3>6, <2>1, <1>i
      <4>. QED
        BY <4>1, <4>2, <3>1, <3>2, <3>3, <3>4, <3>5, <1>4
    <3>7. CASE j = i - 1
      <4>1. CellAt(l2, head, j) = before /\ CellAt(l2, head, j + 1) = new
        BY <3>7, <3>1, <1>7, <1>i DEF before
      <4>. QED
        BY <4>1, <1>2, <1>4
    <3>8. CASE j = i
      <4>1. CellAt(l2, head, j) = new /\ CellAt(l2, head, j + 1) = old
        BY <3>8, <3>1, <1>7, <1>i DEF old
      <4>. QED
        BY <4>1, <1>2, <1>4
    <3>9. CASE j > i
      <4>1. CellAt(l2, head, j) = CellAt(l, head, j - 1) /\ CellAt(l2, head, j + 1) = CellAt(l, head, j)
        BY <3>9, <3>1, <1>7, <1>i
      <4>2. j - 1 \in 0 .. n /\ j - 1 # i - 1 /\ j \in 1 .. n + 1 /\ j # i
        BY <3>9, <2>1, <1>i
      <4>. QED
        BY <4>1, <4>2, <3>1, <3>2, <3>3, <3>4, <3>5, <1>4
    <3>. QED
      BY <3>1, <3>6, <3>7, <3>8, <3>9, <1>i
  <2>. QED
    BY <2>1, <1>5 DEF Circle
<1>12. ASSUME NEW b \in Heads, b # head PROVE Circle(h2, ls[b], b)
  <2>. SUFFICES ASSUME NEW j \in 0 .. Len(ls[b])
                PROVE  /\ h2.next[CellAt(ls[b], b, j)] = CellAt(ls[b], b, j + 1)
                       /\ h2.prev[CellAt(ls[b], b, j + 1)] = CellAt(ls[b], b, j)
    BY DEF Circle
  <2>1. /\ h.next[CellAt(ls[b], b, j)] = CellAt(ls[b], b, j + 1)
        /\ h.prev[CellAt(ls[b], b, j + 1)] = CellAt(ls[b], b, j)
    BY <1>1 DEF Circle
  <2>2. ls[b] \in Seq(Node) /\ Len(ls[b]) \in Nat
    BY <1>1, LenProperties
  <2>3. j \in Int /\ j + 1 \in Int /\ j \in 0 .. Len(ls[b]) + 1 /\ j + 1 \in 0 .. Len(ls[b]) + 1
    BY <2>2
  <2>4. \A m \in Int : CellAt(ls[b], b, m) \in Cell /\ CellAt(ls[b], b, m) # new
    BY <1>1, <2>2, CellsOf, NewIsNowhere
  <2>5. \A m \in 0 .. Len(ls[b]) + 1 : CellAt(ls[b], b, m) # before /\ CellAt(ls[b], b, m) # old
    <3>1. i \in 0 .. Len(l) + 1 /\ i - 1 \in 0 .. Len(l) + 1
      BY <1>i, <1>n
    <3>. QED
      BY <3>1, <1>1, <1>12, OneCell DEF l, before, old
  <2>. QED
    BY <2>1, <2>3, <2>4, <2>5, <1>4
<1>13. ASSUME NEW node \in Node \ Listed(ls2) PROVE h2.next[node] = Null /\ h2.prev[node] = Null
  <2>1. \A b \in Heads : \A j \in 1 .. Len(ls2[b]) : ls2[b][j] # node
    BY <1>6, ListedNode
  <2>2. node # new
    BY <2>1, <1>6, <1>5, <1>8, <1>i
  <2>3. \A j \in 1 .. n : l[j] # node
    <3>1. \A j \in 1 .. n + 1 : l2[j] # node
      BY <2>1, <1>5, <1>6
    <3>2. ASSUME NEW j \in 1 .. n PROVE l[j] # node
      <4>1. CASE j < i
        BY <4>1, <3>1, <3>2, <1>8
      <4>2. CASE j >= i
        <5>1. j + 1 \in 1 .. n + 1 /\ ~(j + 1 < i) /\ j + 1 # i /\ (j + 1) - 1 = j
          BY <4>2, <3>2, <1>i
        <5>. QED
          BY <5>1, <3>1, <1>8
      <4>. QED
        BY <4>1, <4>2, <3>2, <1>i
    <3>. QED
      BY <3>2
  <2>4. node \notin Listed(ls)
    <3>1. ASSUME NEW b \in Heads, NEW j \in 1 .. Len(ls[b]) PROVE ls[b][j] # node
      <4>1. CASE b = head
        BY <4>1, <2>3, <1>n DEF l
      <4>2. CASE b # head
        BY <4>2, <2>1, <1>6, <3>1
      <4>. QED
        BY <4>1, <4>2
    <3>. QED
      BY <3>1, <1>1, ListedNode
  <2>5. node \in Cell /\ node # before /\ node # old
    <3>1. \A m \in Int : CellAt(l, head, m) # node
      BY <2>4, <1>1, NewIsNowhere DEF l
    <3>. QED
      BY <3>1, <1>i DEF Cell, before, old
  <2>. QED
    BY <2>2, <2>4, <2>5, <1>1, <1>4
<1>14. Sound(h2, ls2)
  BY <1>4, <1>6, <1>10, <1>11, <1>12, <1>13 DEF Sound
<1>. QED
  BY <1>14 DEF h2, ls2, old, l
-----------------------------------------------------------------------------
(* Removal *)

LEMMA RemovedCells ==
  ASSUME NEW l \in Seq(Node), NEW head \in Heads, NEW i \in 1 .. Len(l), NEW j \in 0 .. Len(l)
  PROVE  CellAt(RemoveAt(l, i), head, j) = IF j < i THEN CellAt(l, head, j) ELSE CellAt(l, head, j + 1)
<1>. DEFINE l2 == RemoveAt(l, i)
<1>n. PICK n \in Nat : n = Len(l)
  BY LenProperties
<1>1. /\ l2 \in Seq(Node) /\ Len(l2) = n - 1
      /\ \A k \in 1 .. n - 1 : l2[k] = IF k < i THEN l[k] ELSE l[k + 1]
  <2>1. /\ l2 \in Seq(Node) /\ Len(l2) = Len(l) - 1
        /\ \A k \in 1 .. Len(l) - 1 : l2[k] = IF k < i THEN l[k] ELSE l[k + 1]
    BY RemovedPlaces
  <2>. QED
    BY <2>1, <1>n
<1>. HIDE DEF l2
<1>. SUFFICES CellAt(l2, head, j) = IF j < i THEN CellAt(l, head, j) ELSE CellAt(l, head, j + 1)
  BY DEF l2
<1>2. j \in 0 .. n /\ i \in 1 .. n
  BY <1>n
<1>3. DOMAIN l = 1 .. n /\ DOMAIN l2 = 1 .. n - 1
  BY <1>1, <1>n, LenProperties
<1>4. CASE j \in 1 .. n - 1
  <2>1. CellAt(l2, head, j) = IF j < i THEN l[j] ELSE l[j + 1]
    BY <1>4, <1>1, <1>3 DEF CellAt
  <2>2. CASE j < i
    BY <2>1, <2>2, <1>2, <1>3, <1>4 DEF CellAt
  <2>3. CASE j >= i
    BY <2>1, <2>3, <1>2, <1>3, <1>4 DEF CellAt
  <2>. QED
    BY <2>2, <2>3, <1>2
<1>5. CASE j = 0
  BY <1>5, <1>2, <1>3 DEF CellAt
<1>6. CASE j = n
  BY <1>6, <1>2, <1>3 DEF CellAt
<1>. QED
  BY <1>2, <1>4, <1>5, <1>6

LEMMA RemoveKeeps ==
  ASSUME NEW h, NEW ls, Sound(h, ls), NEW head \in Heads, NEW i \in 1 .. Len(ls[head])
  PROVE  Sound(RemoveFromList(h, ls[head][i]), [ls EXCEPT ![head] = RemoveAt(@, i)])
<1>. DEFINE l == ls[head]
            node == l[i]
            before == CellAt(l, head, i - 1)
            after == CellAt(l, head, i + 1)
            l2 == RemoveAt(l, i)
            ls2 == [ls EXCEPT ![head] = RemoveAt(@, i)]
            h2 == RemoveFromList(h, node)
<1>1. /\ h \in [next : Links, prev : Links] /\ ls \in [Heads -> Seq(Node)] /\ l \in Seq(Node)
      /\ OnePlace(ls)
      /\ \A b \in Heads : Circle(h, ls[b], b)
      /\ \A c \in Node \ Listed(ls) : h.next[c] = Null /\ h.prev[c] = Null
  BY DEF Sound
<1>n. PICK n \in Nat : n = Len(l)
  BY <1>1, LenProperties
<1>i. i \in 1 .. n /\ i - 1 \in 0 .. n /\ i \in Int /\ i - 1 \in Int /\ i + 1 \in Int /\ (i - 1) + 1 = i
  BY <1>n
<1>c. node = CellAt(l, head, i) /\ node \in Node
  BY <1>1, <1>i, <1>n, CellsOf
<1>a. ASSUME NEW m \in 0 .. n + 1, m # i PROVE CellAt(l, head, m) # node
  BY <1>a, <1>c, <1>1, <1>i, <1>n, OneCell
<1>2. before \in Cell /\ after \in Cell /\ node \in Cell /\ after # node /\ before # node
  BY <1>1, <1>i, <1>c, <1>a, CellsOf DEF Cell
<1>3. /\ h.next[node] = after /\ h.prev[node] = before
      /\ h.next[before] = node /\ h.prev[after] = node
  BY <1>1, <1>i, <1>n, <1>c DEF Circle
<1>4. /\ h2 \in [next : Links, prev : Links]
      /\ \A c \in Cell : h2.next[c] = IF c = node THEN Null ELSE IF c = before THEN after ELSE h.next[c]
      /\ \A c \in Cell : h2.prev[c] = IF c = node THEN Null ELSE IF c = after THEN before ELSE h.prev[c]
  <2>1. after # Null
    BY <1>2, CellsAssumption DEF Cell
  <2>. QED
    BY <2>1, <1>1, <1>2, <1>3 DEF RemoveFromList, Links
<1>5. l2 \in Seq(Node) /\ Len(l2) = n - 1
  BY <1>1, <1>n, RemovedPlaces
<1>6. ls2 \in [Heads -> Seq(Node)] /\ ls2[head] = l2 /\ \A b \in Heads \ {head} : ls2[b] = ls[b]
  BY <1>1, <1>5
<1>7. \A j \in 0 .. n : CellAt(l2, head, j) =
           IF j < i THEN CellAt(l, head, j) ELSE CellAt(l, head, j + 1)
  BY <1>1, <1>n, RemovedCells
<1>8. \A j \in 1 .. n - 1 : l2[j] = IF j < i THEN l[j] ELSE l[j + 1]
  <2>. HIDE DEF l
  <2>1. l \in Seq(Node) /\ i \in 1 .. Len(l)
    BY <1>1, <1>i, <1>n
  <2>2. \A j \in 1 .. Len(l) - 1 : l2[j] = IF j < i THEN l[j] ELSE l[j + 1]
    BY <2>1, RemovedPlaces
  <2>. HIDE DEF l2
  <2>. QED
    BY <2>2, <1>n
<1>9. DOMAIN l = 1 .. n /\ DOMAIN l2 = 1 .. n - 1
  BY <1>1, <1>5, <1>n, LenProperties
<1>. HIDE DEF l, node, before, after, l2, ls2, h2
<1>b. \A b \in Heads \ {head} : \A m \in DOMAIN ls[b] : \A o \in DOMAIN l : ls[b][m] # l[o]
  BY <1>1 DEF OnePlace, l
<1>10. OnePlace(ls2)
  <2>. SUFFICES ASSUME NEW b \in Heads, NEW c \in Heads, NEW j \in DOMAIN ls2[b], NEW k \in DOMAIN ls2[c],
                       ls2[b][j] = ls2[c][k]
                PROVE  b = c /\ j = k
    BY DEF OnePlace
  <2>2. ASSUME NEW j1 \in DOMAIN l2
        PROVE  \/ j1 < i /\ j1 \in DOMAIN l /\ l2[j1] = l[j1]
               \/ j1 >= i /\ j1 + 1 \in DOMAIN l /\ l2[j1] = l[j1 + 1]
    BY <1>8, <1>9, <1>i
  <2>3. CASE b = head /\ c = head
    <3>1. j \in Int /\ k \in Int
      BY <2>3, <1>6, <1>9
    <3>2. \A m, o \in DOMAIN l : l[m] = l[o] => m = o
      BY <1>1 DEF OnePlace, l
    <3>. QED
      BY <2>2, <2>3, <3>1, <3>2, <1>6, <1>i
  <2>4. CASE b = head /\ c # head
    BY <2>2, <2>4, <1>6, <1>b
  <2>5. CASE b # head /\ c = head
    BY <2>2, <2>5, <1>6, <1>b
  <2>6. CASE b # head /\ c # head
    BY <2>6, <1>6, <1>1 DEF OnePlace
  <2>. QED
    BY <2>3, <2>4, <2>5, <2>6
<1>11. Circle(h2, l2, head)
  <2>1. ASSUME NEW j \in 0 .. n - 1
        PROVE  /\ h2.next[CellAt(l2, head, j)] = CellAt(l2, head, j + 1)
               /\ h2.prev[CellAt(l2, head, j + 1)] = CellAt(l2, head, j)
    <3>1. j \in Int /\ j + 1 \in Int /\ (j + 1) + 1 \in Int /\ j \in 0 .. n /\ j + 1 \in 0 .. n
      BY <2>1
    <3>2. \A m \in Int : CellAt(l, head, m) \in Cell
      BY <1>1, CellsOf DEF l
    <3>3. ASSUME NEW m \in 0 .. n, m # i - 1 PROVE CellAt(l, head, m) # before
      BY <3>3, <1>1, <1>i, <1>n, OneCell DEF l, before
    <3>4. ASSUME NEW m \in 1 .. n + 1, m # i + 1 PROVE CellAt(l, head, m) # after
      <4>1. i + 1 \in 0 .. n + 1 /\ m \in 0 .. n + 1
        BY <1>i
      <4>. QED
        BY <3>4, <4>1, <1>1, <1>i, <1>n, OneCell DEF l, after
    <3>5. \A m \in 0 .. n : /\ h.next[CellAt(l, head, m)] = CellAt(l, head, m + 1)
                            /\ h.prev[CellAt(l, head, m + 1)] = CellAt(l, head, m)
      BY <1>1, <1>n DEF l, Circle
    <3>6. CASE j < i - 1
      <4>1. CellAt(l2, head, j) = CellAt(l, head, j) /\ CellAt(l2, head, j + 1) = CellAt(l, head, j + 1)
        BY <3>6, <3>1, <1>7, <1>i
      <4>2. /\ j \in 0 .. n /\ j # i - 1 /\ j \in 0 .. n + 1 /\ j # i
            /\ j + 1 \in 1 .. n + 1 /\ j + 1 # i /\ j + 1 # i + 1 /\ j + 1 \in 0 .. n + 1
        BY <3>6, <2>1, <1>i
      <4>. QED
        BY <4>1, <4>2, <3>1, <3>2, <3>3, <3>4, <3>5, <1>4, <1>a
    <3>7. CASE j = i - 1
      <4>1. CellAt(l2, head, j) = before /\ CellAt(l2, head, j + 1) = after
        BY <3>7, <3>1, <1>7, <1>i DEF before, after
      <4>. QED
        BY <4>1, <1>2, <1>4
    <3>8. CASE j >= i
      <4>1. CellAt(l2, head, j) = CellAt(l, head, j + 1) /\ CellAt(l2, head, j + 1) = CellAt(l, head, (j + 1) + 1)
        BY <3>8, <3>1, <1>7, <1>i
      <4>2. /\ j + 1 \in 0 .. n /\ j + 1 # i - 1 /\ j + 1 \in 0 .. n + 1 /\ j + 1 # i
            /\ (j + 1) + 1 \in 1 .. n + 1 /\ (j + 1) + 1 # i + 1 /\ (j + 1) + 1 # i /\ (j + 1) + 1 \in 0 .. n + 1
        BY <3>8, <2>1, <1>i
      <4>. QED
        BY <4>1, <4>2, <3>1, <3>2, <3>3, <3>4, <3>5, <1>4, <1>a
    <3>. QED
      BY <3>1, <3>6, <3>7, <3>8, <1>i
  <2>. QED
    BY <2>1, <1>5 DEF Circle
<1>12. ASSUME NEW b \in Heads, b # head PROVE Circle(h2, ls[b], b)
  <2>. SUFFICES ASSUME NEW j \in 0 .. Len(ls[b])
                PROVE  /\ h2.next[CellAt(ls[b], b, j)] = CellAt(ls[b], b, j + 1)
                       /\ h2.prev[CellAt(ls[b], b, j + 1)] = CellAt(ls[b], b, j)
    BY DEF Circle
  <2>1. /\ h.next[CellAt(ls[b], b, j)] = CellAt(ls[b], b, j + 1)
        /\ h.prev[CellAt(ls[b], b, j + 1)] = CellAt(ls[b], b, j)
    BY <1>1 DEF Circle
  <2>2. ls[b] \in Seq(Node) /\ Len(ls[b]) \in Nat
    BY <1>1, LenProperties
  <2>3. j \in Int /\ j + 1 \in Int /\ j \in 0 .. Len(ls[b]) + 1 /\ j + 1 \in 0 .. Len(ls[b]) + 1
    BY <2>2
  <2>4. \A m \in Int : CellAt(ls[b], b, m) \in Cell
    BY <2>2, CellsOf
  <2>5. \A m \in 0 .. Len(ls[b]) + 1 : /\ CellAt(ls[b], b, m) # before /\ CellAt(ls[b], b, m) # after
                                       /\ CellAt(ls[b], b, m) # node
    <3>1. i \in 0 .. Len(l) + 1 /\ i - 1 \in 0 .. Len(l) + 1 /\ i + 1 \in 0 .. Len(l) + 1
      BY <1>i, <1>n
    <3>. QED
      BY <3>1, <1>1, <1>12, <1>c, OneCell DEF l, before, after
  <2>. QED
    BY <2>1, <2>3, <2>4, <2>5, <1>4
<1>13. ASSUME NEW c \in Node \ Listed(ls2) PROVE h2.next[c] = Null /\ h2.prev[c] = Null
  <2>0. c \in Cell
    BY DEF Cell
  <2>1. CASE c = node
    BY <2>0, <2>1, <1>4
  <2>2. CASE c # node
    <3>1. \A b \in Heads : \A j \in 1 .. Len(ls2[b]) : ls2[b][j] # c
      BY <1>6, ListedNode
    <3>2. ASSUME NEW j \in 1 .. n PROVE l[j] # c
      <4>1. CASE j < i
        BY <4>1, <3>1, <3>2, <1>5, <1>6, <1>8, <1>i
      <4>2. CASE j = i
        BY <4>2, <2>2 DEF node
      <4>3. CASE j > i
        <5>1. j - 1 \in 1 .. n - 1 /\ ~(j - 1 < i) /\ (j - 1) + 1 = j
          BY <4>3, <3>2, <1>i
        <5>. QED
          BY <5>1, <3>1, <1>5, <1>6, <1>8
      <4>. QED
        BY <4>1, <4>2, <4>3, <3>2, <1>i
    <3>3. c \notin Listed(ls)
      <4>1. ASSUME NEW b \in Heads, NEW j \in 1 .. Len(ls[b]) PROVE ls[b][j] # c
        <5>1. CASE b = head
          BY <5>1, <3>2, <1>n DEF l
        <5>2. CASE b # head
          BY <5>2, <3>1, <1>6, <4>1
        <5>. QED
          BY <5>1, <5>2
      <4>. QED
        BY <4>1, <1>1, ListedNode
    <3>4. c # before /\ c # after
      <4>1. \A m \in Int : CellAt(l, head, m) # c
        BY <3>3, <1>1, NewIsNowhere DEF l
      <4>. QED
        BY <4>1, <1>i DEF before, after
    <3>. QED
      BY <2>0, <2>2, <3>3, <3>4, <1>1, <1>4
  <2>. QED
    BY <2>1, <2>2
<1>14. Sound(h2, ls2)
  BY <1>4, <1>6, <1>10, <1>11, <1>12, <1>13 DEF Sound
<1>. QED
  BY <1>14 DEF h2, ls2, node, l
-----------------------------------------------------------------------------
(* Exchange *)

LEMMA LooksEmpty ==
  ASSUME NEW h, NEW ls, Sound(h, ls), NEW head \in Heads
  PROVE  IsListEmpty(h, head) <=> ls[head] = <<>>
<1>. DEFINE l == ls[head]
<1>1. l \in Seq(Node) /\ Circle(h, l, head)
  BY DEF Sound
<1>n. PICK n \in Nat : n = Len(l)
  BY <1>1, LenProperties
<1>2. l = <<>> <=> n = 0
  BY <1>1, <1>n, EmptySeq
<1>. HIDE DEF l
<1>3. h.next[CellAt(l, head, 0)] = CellAt(l, head, 0 + 1) /\ h.prev[CellAt(l, head, n + 1)] = CellAt(l, head, n)
  BY <1>1, <1>n DEF Circle
<1>4. CellAt(l, head, 0) = head /\ CellAt(l, head, n + 1) = head
  BY <1>1, <1>n, CellsOf
<1>5. CASE n = 0
  BY <1>1, <1>2, <1>3, <1>4, <1>5 DEF IsListEmpty, l
<1>6. CASE n # 0
  <2>1. CellAt(l, head, 0 + 1) \in Node
    BY <1>1, <1>6, <1>n, CellsOf
  <2>. QED
    BY <2>1, <1>2, <1>3, <1>4, <1>6, CellsAssumption DEF IsListEmpty, l
<1>. QED
  BY <1>5, <1>6

\* The ends of a list of n nodes are linked to b and the rest as in h.
LinkedTo(h, g, l, n, b) ==
  /\ g.next[b] = CellAt(l, b, 1) /\ g.prev[b] = CellAt(l, b, n)
  /\ n > 0 => g.next[l[n]] = b /\ g.prev[l[1]] = b
  /\ \A i \in 1 .. n - 1 : g.next[l[i]] = h.next[l[i]]
  /\ \A i \in 2 .. n : g.prev[l[i]] = h.prev[l[i]]

LEMMA CircleMoved ==
  ASSUME NEW h, NEW g, NEW l \in Seq(Node), NEW n \in Nat, n = Len(l),
         NEW a \in Heads, NEW b \in Heads, Circle(h, l, a), LinkedTo(h, g, l, n, b)
  PROVE  Circle(g, l, b)
<1>1. /\ g.next[b] = CellAt(l, b, 1) /\ g.prev[b] = CellAt(l, b, n)
      /\ n > 0 => g.next[l[n]] = b /\ g.prev[l[1]] = b
      /\ \A i \in 1 .. n - 1 : g.next[l[i]] = h.next[l[i]]
      /\ \A i \in 2 .. n : g.prev[l[i]] = h.prev[l[i]]
  BY DEF LinkedTo
<1>. SUFFICES ASSUME NEW i \in 0 .. n
              PROVE  /\ g.next[CellAt(l, b, i)] = CellAt(l, b, i + 1)
                     /\ g.prev[CellAt(l, b, i + 1)] = CellAt(l, b, i)
  BY DEF Circle
<1>2. i \in Int /\ i + 1 \in Int
  OBVIOUS
<1>3. /\ \A k \in 1 .. n : CellAt(l, a, k) = l[k] /\ CellAt(l, b, k) = l[k]
      /\ CellAt(l, b, 0) = b /\ CellAt(l, b, n + 1) = b
  BY CellsOf
<1>4. h.next[CellAt(l, a, i)] = CellAt(l, a, i + 1) /\ h.prev[CellAt(l, a, i + 1)] = CellAt(l, a, i)
  BY DEF Circle
<1>5. g.next[CellAt(l, b, i)] = CellAt(l, b, i + 1)
  <2>1. CASE i = 0
    BY <2>1, <1>3, <1>1
  <2>2. CASE i \in 1 .. n - 1
    BY <2>2, <1>3, <1>4, <1>1
  <2>3. CASE i = n /\ n > 0
    BY <2>3, <1>3, <1>1
  <2>. QED
    BY <2>1, <2>2, <2>3, <1>2
<1>6. g.prev[CellAt(l, b, i + 1)] = CellAt(l, b, i)
  <2>1. CASE i = n
    BY <2>1, <1>3, <1>1
  <2>2. CASE i \in 1 .. n - 1
    BY <2>2, <1>3, <1>4, <1>1
  <2>3. CASE i = 0 /\ n > 0
    BY <2>3, <1>3, <1>1
  <2>. QED
    BY <2>1, <2>2, <2>3, <1>2
<1>. QED
  BY <1>5, <1>6

\* What becomes of the links when a list is exchanged with another.
LEMMA TakenOver ==
  ASSUME NEW h, NEW ls, Sound(h, ls), NEW a \in Heads, NEW b \in Heads, a # b,
         NEW n \in Nat, n = Len(ls[a]),
         NEW g \in [next : Links, prev : Links]
  PROVE  /\ TakeOver(g, b, h, a) \in [next : Links, prev : Links]
         /\ TakeOver(g, b, h, a).next[b] = CellAt(ls[a], b, 1)
         /\ TakeOver(g, b, h, a).prev[b] = CellAt(ls[a], b, n)
         /\ n > 0 => /\ TakeOver(g, b, h, a).next[ls[a][n]] = b
                     /\ TakeOver(g, b, h, a).prev[ls[a][1]] = b
         /\ \A c \in Cell : c # b /\ (n > 0 => c # ls[a][n]) =>
              TakeOver(g, b, h, a).next[c] = g.next[c]
         /\ \A c \in Cell : c # b /\ (n > 0 => c # ls[a][1]) =>
              TakeOver(g, b, h, a).prev[c] = g.prev[c]
<1>. DEFINE l == ls[a]
<1>1. l \in Seq(Node) /\ Circle(h, l, a)
  BY DEF Sound
<1>2. l = <<>> <=> n = 0
  BY <1>1, EmptySeq
<1>3. IsListEmpty(h, a) <=> n = 0
  BY <1>2, LooksEmpty
<1>. HIDE DEF l
<1>4. b \in Cell
  BY DEF Cell
<1>5. CASE n = 0
  <2>1. TakeOver(g, b, h, a) = InitListHead(g, b)
    BY <1>3, <1>5 DEF TakeOver
  <2>2. CellAt(l, b, 1) = b /\ CellAt(l, b, n) = b
    <3>1. 1 \notin 1 .. Len(l) /\ n \notin 1 .. Len(l) /\ 1 \in Int /\ n \in Int
      BY <1>5 DEF l
    <3>. QED
      BY <1>1, <3>1, CellsOf
  <2>. DEFINE nexts == [g.next EXCEPT ![b] = b]
              prevs == [g.prev EXCEPT ![b] = b]
  <2>3. nexts \in Links /\ nexts[b] = b /\ \A c \in Cell : c # b => nexts[c] = g.next[c]
    BY <1>4 DEF Links
  <2>4. prevs \in Links /\ prevs[b] = b /\ \A c \in Cell : c # b => prevs[c] = g.prev[c]
    BY <1>4 DEF Links
  <2>. HIDE DEF nexts, prevs
  <2>5. TakeOver(g, b, h, a) = [next |-> nexts, prev |-> prevs]
    BY <2>1 DEF nexts, prevs, InitListHead
  <2>. QED
    BY <2>2, <2>3, <2>4, <2>5, <1>5 DEF l
<1>6. CASE n > 0
  <2>1. h.next[CellAt(l, a, 0)] = CellAt(l, a, 0 + 1) /\ h.prev[CellAt(l, a, n + 1)] = CellAt(l, a, n)
    BY <1>1 DEF Circle, l
  <2>2. /\ CellAt(l, a, 0) = a /\ CellAt(l, a, 0 + 1) = l[1] /\ CellAt(l, a, n + 1) = a /\ CellAt(l, a, n) = l[n]
        /\ l[1] \in Node /\ l[n] \in Node
        /\ CellAt(l, b, 1) = l[1] /\ CellAt(l, b, n) = l[n]
    BY <1>1, <1>6, CellsOf DEF l
  <2>3. l[1] \in Cell /\ l[n] \in Cell /\ l[1] # b /\ l[n] # b
    BY <2>2, CellsAssumption DEF Cell
  <2>4. TakeOver(g, b, h, a) = [next |-> [g.next EXCEPT ![b] = l[1], ![l[n]] = b],
                                prev |-> [g.prev EXCEPT ![b] = l[n], ![l[1]] = b]]
    BY <2>1, <2>2, <1>3, <1>6 DEF TakeOver
  <2>. DEFINE nexts == [g.next EXCEPT ![b] = l[1], ![l[n]] = b]
              prevs == [g.prev EXCEPT ![b] = l[n], ![l[1]] = b]
  <2>5. /\ nexts \in Links /\ nexts[b] = l[1] /\ nexts[l[n]] = b
        /\ \A c \in Cell : c # b /\ c # l[n] => nexts[c] = g.next[c]
    BY <2>3, <1>4 DEF Links
  <2>6. /\ prevs \in Links /\ prevs[b] = l[n] /\ prevs[l[1]] = b
        /\ \A c \in Cell : c # b /\ c # l[1] => prevs[c] = g.prev[c]
    BY <2>3, <1>4 DEF Links
  <2>. HIDE DEF nexts, prevs
  <2>7. TakeOver(g, b, h, a) = [next |-> nexts, prev |-> prevs]
    BY <2>4 DEF nexts, prevs
  <2>. QED
    BY <2>2, <2>5, <2>6, <2>7, <1>6 DEF l
<1>. QED
  BY <1>5, <1>6

LEMMA SwapKeeps ==
  ASSUME NEW h, NEW ls, Sound(h, ls), NEW a \in Heads, NEW b \in Heads, a # b
  PROVE  Sound(SwapLists(h, a, b), [ls EXCEPT ![a] = ls[b], ![b] = ls[a]])
<1>. DEFINE A == ls[a]
            B == ls[b]
            ls2 == [ls EXCEPT ![a] = B, ![b] = A]
            g == TakeOver(h, b, h, a)
            h2 == TakeOver(g, a, h, b)
<1>1. /\ h \in [next : Links, prev : Links] /\ ls \in [Heads -> Seq(Node)]
      /\ A \in Seq(Node) /\ B \in Seq(Node)
      /\ OnePlace(ls)
      /\ \A d \in Heads : Circle(h, ls[d], d)
      /\ \A c \in Node \ Listed(ls) : h.next[c] = Null /\ h.prev[c] = Null
  BY DEF Sound
<1>m. PICK m \in Nat : m = Len(A)
  BY <1>1, LenProperties
<1>n. PICK n \in Nat : n = Len(B)
  BY <1>1, LenProperties
<1>2. /\ g \in [next : Links, prev : Links]
      /\ g.next[b] = CellAt(A, b, 1) /\ g.prev[b] = CellAt(A, b, m)
      /\ m > 0 => g.next[A[m]] = b /\ g.prev[A[1]] = b
      /\ \A c \in Cell : c # b /\ (m > 0 => c # A[m]) => g.next[c] = h.next[c]
      /\ \A c \in Cell : c # b /\ (m > 0 => c # A[1]) => g.prev[c] = h.prev[c]
  BY <1>1, <1>m, TakenOver
<1>. HIDE DEF g
<1>3. /\ h2 \in [next : Links, prev : Links]
      /\ h2.next[a] = CellAt(B, a, 1) /\ h2.prev[a] = CellAt(B, a, n)
      /\ n > 0 => h2.next[B[n]] = a /\ h2.prev[B[1]] = a
      /\ \A c \in Cell : c # a /\ (n > 0 => c # B[n]) => h2.next[c] = g.next[c]
      /\ \A c \in Cell : c # a /\ (n > 0 => c # B[1]) => h2.prev[c] = g.prev[c]
  BY <1>2, <1>n, TakenOver
<1>. HIDE DEF A, B, ls2, h2
<1>4. a \in Cell /\ b \in Cell /\ a \notin Node /\ b \notin Node
  BY CellsAssumption DEF Cell
<1>5. /\ \A i \in 1 .. m : A[i] \in Node /\ A[i] \in Cell
      /\ \A i \in 1 .. n : B[i] \in Node /\ B[i] \in Cell
  BY <1>1, <1>m, <1>n, ElementOfSeq DEF Cell
<1>6. \A d, e \in Heads : \A i \in 1 .. Len(ls[d]) : \A k \in 1 .. Len(ls[e]) :
        ls[d][i] = ls[e][k] => d = e /\ i = k
  <2>1. \A d \in Heads : DOMAIN ls[d] = 1 .. Len(ls[d])
    BY <1>1, LenProperties
  <2>. QED
    BY <2>1, <1>1 DEF OnePlace
<1>7. /\ \A i \in 1 .. m : \A k \in 1 .. n : A[i] # B[k]
      /\ \A i, k \in 1 .. m : A[i] = A[k] => i = k
      /\ \A i, k \in 1 .. n : B[i] = B[k] => i = k
  BY <1>6, <1>m, <1>n DEF A, B
<1>8. Circle(h2, A, b)
  <2>1. h2.next[b] = CellAt(A, b, 1) /\ h2.prev[b] = CellAt(A, b, m)
    BY <1>2, <1>3, <1>4, <1>5
  <2>2. m > 0 => h2.next[A[m]] = b /\ h2.prev[A[1]] = b
    <3>1. ASSUME m > 0 PROVE 1 \in 1 .. m /\ m \in 1 .. m
      BY <3>1
    <3>2. ASSUME n > 0 PROVE 1 \in 1 .. n /\ n \in 1 .. n
      BY <3>2
    <3>. QED
      BY <3>1, <3>2, <1>2, <1>3, <1>4, <1>5, <1>7
  <2>3. \A i \in 1 .. m - 1 : h2.next[A[i]] = h.next[A[i]]
    <3>1. ASSUME NEW i \in 1 .. m - 1 PROVE i \in 1 .. m /\ m \in 1 .. m /\ i # m
      OBVIOUS
    <3>2. ASSUME n > 0 PROVE n \in 1 .. n
      BY <3>2
    <3>. QED
      BY <3>1, <3>2, <1>2, <1>3, <1>4, <1>5, <1>7
  <2>4. \A i \in 2 .. m : h2.prev[A[i]] = h.prev[A[i]]
    <3>1. ASSUME NEW i \in 2 .. m PROVE i \in 1 .. m /\ 1 \in 1 .. m /\ i # 1
      OBVIOUS
    <3>2. ASSUME n > 0 PROVE 1 \in 1 .. n
      BY <3>2
    <3>. QED
      BY <3>1, <3>2, <1>2, <1>3, <1>4, <1>5, <1>7
  <2>. QED
    <3>1. LinkedTo(h, h2, A, m, b)
      BY <2>1, <2>2, <2>3, <2>4 DEF LinkedTo
    <3>2. Circle(h, A, a)
      BY <1>1 DEF A
    <3>. QED
      BY <3>1, <3>2, <1>1, <1>m, CircleMoved
<1>9. Circle(h2, B, a)
  <2>1. h2.next[a] = CellAt(B, a, 1) /\ h2.prev[a] = CellAt(B, a, n)
    BY <1>3
  <2>2. n > 0 => h2.next[B[n]] = a /\ h2.prev[B[1]] = a
    BY <1>3
  <2>3. \A i \in 1 .. n - 1 : h2.next[B[i]] = h.next[B[i]]
    <3>1. ASSUME NEW i \in 1 .. n - 1 PROVE i \in 1 .. n /\ n \in 1 .. n /\ i # n
      OBVIOUS
    <3>2. ASSUME m > 0 PROVE m \in 1 .. m
      BY <3>2
    <3>. QED
      BY <3>1, <3>2, <1>2, <1>3, <1>4, <1>5, <1>7
  <2>4. \A i \in 2 .. n : h2.prev[B[i]] = h.prev[B[i]]
    <3>1. ASSUME NEW i \in 2 .. n PROVE i \in 1 .. n /\ 1 \in 1 .. n /\ i # 1
      OBVIOUS
    <3>2. ASSUME m > 0 PROVE 1 \in 1 .. m
      BY <3>2
    <3>. QED
      BY <3>1, <3>2, <1>2, <1>3, <1>4, <1>5, <1>7
  <2>. QED
    <3>1. LinkedTo(h, h2, B, n, a)
      BY <2>1, <2>2, <2>3, <2>4 DEF LinkedTo
    <3>2. Circle(h, B, b)
      BY <1>1 DEF B
    <3>. QED
      BY <3>1, <3>2, <1>1, <1>n, CircleMoved
<1>10. ASSUME NEW c \in Cell, c # a, c # b,
              \A i \in 1 .. m : c # A[i], \A i \in 1 .. n : c # B[i]
       PROVE  h2.next[c] = h.next[c] /\ h2.prev[c] = h.prev[c]
  <2>1. (m > 0 => c # A[m] /\ c # A[1]) /\ (n > 0 => c # B[n] /\ c # B[1])
    BY <1>10
  <2>. QED
    BY <2>1, <1>10, <1>2, <1>3
<1>11. ASSUME NEW d \in Heads, d # a, d # b PROVE Circle(h2, ls[d], d)
  <2>. SUFFICES ASSUME NEW j \in 0 .. Len(ls[d])
                PROVE  /\ h2.next[CellAt(ls[d], d, j)] = CellAt(ls[d], d, j + 1)
                       /\ h2.prev[CellAt(ls[d], d, j + 1)] = CellAt(ls[d], d, j)
    BY DEF Circle
  <2>1. /\ h.next[CellAt(ls[d], d, j)] = CellAt(ls[d], d, j + 1)
        /\ h.prev[CellAt(ls[d], d, j + 1)] = CellAt(ls[d], d, j)
    BY <1>1 DEF Circle
  <2>2. ls[d] \in Seq(Node) /\ Len(ls[d]) \in Nat
    BY <1>1, LenProperties
  <2>3. ASSUME NEW k \in 0 .. Len(ls[d]) + 1, NEW c, c = CellAt(ls[d], d, k)
        PROVE  h2.next[c] = h.next[c] /\ h2.prev[c] = h.prev[c]
    <3>1. /\ k \in 1 .. Len(ls[d]) => c = ls[d][k] /\ c \in Node
          /\ k \notin 1 .. Len(ls[d]) => c = d
      BY <2>2, <2>3, CellsOf
    <3>2. c \in Cell /\ c # a /\ c # b
      BY <3>1, <1>4, <1>11 DEF Cell
    <3>3. \A i \in 1 .. m : c # A[i]
      BY <3>1, <1>5, <1>6, <1>11, <1>m, CellsAssumption DEF A
    <3>4. \A i \in 1 .. n : c # B[i]
      BY <3>1, <1>5, <1>6, <1>11, <1>n, CellsAssumption DEF B
    <3>. QED
      BY <3>2, <3>3, <3>4, <1>10
  <2>4. j \in 0 .. Len(ls[d]) + 1 /\ j + 1 \in 0 .. Len(ls[d]) + 1
    BY <2>2
  <2>. QED
    BY <2>1, <2>3, <2>4
<1>12. /\ ls2 \in [Heads -> Seq(Node)] /\ ls2[a] = B /\ ls2[b] = A
       /\ \A d \in Heads \ {a, b} : ls2[d] = ls[d]
  BY <1>1 DEF ls2
<1>13. OnePlace(ls2)
  <2>. DEFINE Other(d) == IF d = a THEN b ELSE IF d = b THEN a ELSE d
  <2>1. \A d \in Heads : Other(d) \in Heads /\ ls2[d] = ls[Other(d)]
    BY <1>12 DEF A, B
  <2>2. \A d, e \in Heads : Other(d) = Other(e) => d = e
    OBVIOUS
  <2>. HIDE DEF Other
  <2>. QED
    BY <2>1, <2>2, <1>1 DEF OnePlace
<1>14. ASSUME NEW c \in Node \ Listed(ls2) PROVE h2.next[c] = Null /\ h2.prev[c] = Null
  <2>1. \A d \in Heads : \A j \in 1 .. Len(ls2[d]) : ls2[d][j] # c
    BY <1>12, ListedNode
  <2>2. (\A i \in 1 .. m : c # A[i]) /\ (\A i \in 1 .. n : c # B[i])
    BY <2>1, <1>12, <1>m, <1>n
  <2>3. c \notin Listed(ls)
    <3>1. ASSUME NEW d \in Heads, NEW j \in 1 .. Len(ls[d]) PROVE ls[d][j] # c
      <4>1. CASE d = a
        BY <4>1, <3>1, <2>2, <1>m DEF A
      <4>2. CASE d = b
        BY <4>2, <3>1, <2>2, <1>n DEF B
      <4>3. CASE d \notin {a, b}
        BY <4>3, <3>1, <2>1, <1>12
      <4>. QED
        BY <4>1, <4>2, <4>3
    <3>2. ~ \E d \in Heads : \E j \in 1 .. Len(ls[d]) : ls[d][j] = c
      BY <3>1
    <3>. QED
      BY <3>2, <1>1, ListedNode
  <2>4. c \in Cell /\ c # a /\ c # b
    BY <1>4 DEF Cell
  <2>. QED
    BY <2>2, <2>3, <2>4, <1>1, <1>10
<1>15. \A d \in Heads : Circle(h2, ls2[d], d)
  BY <1>8, <1>9, <1>11, <1>12
<1>16. Sound(h2, ls2)
  BY <1>3, <1>12, <1>13, <1>14, <1>15 DEF Sound
<1>. QED
  BY <1>16 DEF h2, g, ls2, A, B, SwapLists

LEMMA SwapWithItself ==
  ASSUME NEW h, NEW ls, Sound(h, ls), NEW a \in Heads
  PROVE  SwapLists(h, a, a) = h
<1>1. h \in [next : Links, prev : Links] /\ ls[a] \in Seq(Node) /\ Circle(h, ls[a], a)
  BY DEF Sound
<1>n. PICK n \in Nat : n = Len(ls[a])
  BY <1>1, LenProperties
<1>2. /\ h.next[CellAt(ls[a], a, 0)] = CellAt(ls[a], a, 0 + 1)
      /\ h.prev[CellAt(ls[a], a, 0 + 1)] = CellAt(ls[a], a, 0)
      /\ h.next[CellAt(ls[a], a, n)] = CellAt(ls[a], a, n + 1)
      /\ h.prev[CellAt(ls[a], a, n + 1)] = CellAt(ls[a], a, n)
  BY <1>1, <1>n DEF Circle
<1>3. CellAt(ls[a], a, 0) = a /\ CellAt(ls[a], a, n + 1) = a
  BY <1>1, <1>n, CellsOf
<1>4. h.next[h.prev[a]] = a /\ h.prev[h.next[a]] = a
  BY <1>2, <1>3
<1>5. TakeOver(h, a, h, a) = h
  <2>1. h = [next |-> h.next, prev |-> h.prev]
    BY <1>1
  <2>2. CASE IsListEmpty(h, a)
    <3>1. [h.next EXCEPT ![a] = a] = h.next /\ [h.prev EXCEPT ![a] = a] = h.prev
      BY <2>2, <1>1 DEF IsListEmpty, Links
    <3>. QED
      BY <3>1, <2>1, <2>2 DEF TakeOver, InitListHead
  <2>3. CASE ~IsListEmpty(h, a)
    <3>1. [h.next EXCEPT ![a] = h.next[a], ![h.prev[a]] = a] = h.next
      BY <1>1, <1>4 DEF Links
    <3>2. [h.prev EXCEPT ![a] = h.prev[a], ![h.next[a]] = a] = h.prev
      BY <1>1, <1>4 DEF Links
    <3>. QED
      BY <3>1, <3>2, <2>1, <2>3 DEF TakeOver
  <2>. QED
    BY <2>2, <2>3
<1>. QED
  BY <1>5 DEF SwapLists

-----------------------------------------------------------------------------
(* The theorem *)

LEMMA ListsAtFirst == ListsInit => ListsInv
<1>. SUFFICES ASSUME ListsInit PROVE ListsInv
  OBVIOUS
<1>1. /\ lists \in [Heads -> Seq(Node)] /\ \A d \in Heads : lists[d] = <<>> /\ Len(lists[d]) = 0
  BY EmptySeq DEF ListsInit
<1>2. /\ heap \in [next : Links, prev : Links]
      /\ \A c \in Cell : heap.next[c] = (IF c \in Heads THEN c ELSE Null) /\ heap.prev[c] = (IF c \in Heads THEN c ELSE Null)
  BY DEF ListsInit, EmptyHeap, Links, Cell
<1>3. OnePlace(lists)
  BY <1>1 DEF OnePlace
<1>4. ASSUME NEW d \in Heads PROVE Circle(heap, lists[d], d)
  <2>1. CellAt(lists[d], d, 0) = d /\ CellAt(lists[d], d, 0 + 1) = d
    BY <1>1, CellsOf
  <2>. QED
    BY <2>1, <1>1, <1>2 DEF Circle, Cell
<1>5. \A node \in Node : heap.next[node] = Null /\ heap.prev[node] = Null
  BY <1>2, CellsAssumption DEF Cell
<1>. QED
  BY <1>1, <1>2, <1>3, <1>4, <1>5 DEF ListsInv, Sound

LEMMA ListsStep == ListsInv /\ [ListsNext]_listsVars => ListsInv'
<1>. SUFFICES ASSUME ListsInv, [ListsNext]_listsVars PROVE ListsInv'
  OBVIOUS
<1>. USE DEF ListsInv
<1>1. CASE InsertNode
  <2>0. PICK new \in Node \ Listed(lists), head \in Heads : \E i \in 1 .. Len(lists[head]) + 1 :
          /\ heap' = InsertInList(heap, new, CellAt(lists[head], head, i))
          /\ lists' = [lists EXCEPT ![head] = InsertAt(@, i, new)]
    BY <1>1 DEF InsertNode
  <2>1. PICK i \in 1 .. Len(lists[head]) + 1 :
          /\ heap' = InsertInList(heap, new, CellAt(lists[head], head, i))
          /\ lists' = [lists EXCEPT ![head] = InsertAt(@, i, new)]
    BY <2>0
  <2>2. Sound(InsertInList(heap, new, CellAt(lists[head], head, i)), [lists EXCEPT ![head] = InsertAt(@, i, new)])
    BY InsertKeeps
  <2>. QED
    BY <2>1, <2>2
<1>2. CASE RemoveNode
  <2>1. \A head \in Heads : DOMAIN lists[head] = 1 .. Len(lists[head])
    BY LenProperties DEF Sound
  <2>0. PICK head \in Heads : \E i \in 1 .. Len(lists[head]) :
          /\ heap' = RemoveFromList(heap, lists[head][i])
          /\ lists' = [lists EXCEPT ![head] = RemoveAt(@, i)]
    BY <1>2, <2>1 DEF RemoveNode
  <2>2. PICK i \in 1 .. Len(lists[head]) :
          /\ heap' = RemoveFromList(heap, lists[head][i])
          /\ lists' = [lists EXCEPT ![head] = RemoveAt(@, i)]
    BY <2>0
  <2>3. Sound(RemoveFromList(heap, lists[head][i]), [lists EXCEPT ![head] = RemoveAt(@, i)])
    BY RemoveKeeps
  <2>. QED
    BY <2>2, <2>3
<1>3. CASE RemoveAlone
  BY <1>3 DEF RemoveAlone, RemoveFromList, Sound
<1>4. CASE ExchangeLists
  <2>1. PICK a, b \in Heads : /\ heap' = SwapLists(heap, a, b)
                              /\ lists' = [lists EXCEPT ![a] = lists[b], ![b] = lists[a]]
    BY <1>4 DEF ExchangeLists
  <2>2. CASE a = b
    <3>1. lists' = lists
      BY <2>1, <2>2 DEF Sound
    <3>. QED
      BY <2>1, <2>2, <3>1, SwapWithItself
  <2>3. CASE a # b
    BY <2>1, <2>3, SwapKeeps
  <2>. QED
    BY <2>2, <2>3
<1>5. CASE UNCHANGED listsVars
  BY <1>5 DEF listsVars
<1>. QED
  BY <1>1, <1>2, <1>3, <1>4, <1>5 DEF ListsNext

\* Whatever is inserted, removed and exchanged, each list is a circle of the
\* nodes it should have (ares_llist.c).
THEOREM ListsHold == ListsSpec => []ListsKept
<1>1. ListsInv => ListsKept
  BY LooksEmpty DEF ListsInv, Sound, Circle, ListsKept
<1>. QED
  BY ListsAtFirst, ListsStep, <1>1, PTL DEF ListsSpec
=============================================================================
