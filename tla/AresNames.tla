------------------------------ MODULE AresNames ------------------------------
(***************************************************************************)
(* Names on the wire: ares_mkquery writes a dotted name into a question,   *)
(* ares_expand_name reads one from anywhere in a message, following        *)
(* pointers, and ares_expand_string a string.  A message is a sequence of  *)
(* bytes counted from 0, a name in the form with dots a sequence of        *)
(* characters.                                                             *)
(***************************************************************************)
EXTENDS Integers, Sequences, SequencesExt, FiniteSetsExt

CONSTANTS MaxName, MaxLabel   \* MAXCDNAME and MAXLABEL of nameser.h

ASSUME NamesAssumption == MaxName \in Nat /\ MaxLabel \in 0 .. 63

Dot == 46
Backslash == 92
IndirMask == 192

Byte(buf, i) == buf[i + 1]
Slice(buf, from, len) == SubSeq(buf, from + 1, from + len)

\* What a label looks like between dots.
Escape(label) ==
  FlattenSeq([i \in DOMAIN label |->
                IF label[i] \in {Dot, Backslash} THEN <<Backslash, label[i]>> ELSE <<label[i]>>])

\* The offset a pointer holds.
Target(buf, p) == (Byte(buf, p) - IndirMask) * 256 + Byte(buf, p + 1)

-----------------------------------------------------------------------------
(* The macros of ares_dns.h *)

HeaderSize == 12     \* HFIXEDSZ

Get16(buf, i) == Byte(buf, i) * 256 + Byte(buf, i + 1)

\* An int: the top bit is its sign.
Get32(buf, i) ==
  LET high == Get16(buf, i)
  IN  (IF high >= 32768 THEN high - 65536 ELSE high) * 65536 + Get16(buf, i + 2)

Set16(buf, i, v) == [buf EXCEPT ![i + 1] = (v \div 256) % 256, ![i + 2] = v % 256]

\* A number below size in the bits of byte i from bit shift on, which are clear.
SetBits(buf, i, shift, size, v) == [buf EXCEPT ![i + 1] = @ + (v % size) * 2 ^ shift]
GetBits(buf, i, shift, size) == (Byte(buf, i) \div 2 ^ shift) % size

SetQdcount(buf, v) == Set16(buf, 4, v)

Header(buf) ==
  [id |-> Get16(buf, 0),
   qr |-> GetBits(buf, 2, 7, 2), opcode |-> GetBits(buf, 2, 3, 16), aa |-> GetBits(buf, 2, 2, 2),
   tc |-> GetBits(buf, 2, 1, 2), rd |-> GetBits(buf, 2, 0, 2),
   ra |-> GetBits(buf, 3, 7, 2), rcode |-> GetBits(buf, 3, 0, 16),
   qdcount |-> Get16(buf, 4), ancount |-> Get16(buf, 6), nscount |-> Get16(buf, 8),
   arcount |-> Get16(buf, 10)]

\* The fixed part of a record.
Fixed(buf, i) ==
  [type |-> Get16(buf, i), class |-> Get16(buf, i + 2), ttl |-> Get32(buf, i + 4), dlen |-> Get16(buf, i + 8)]

-----------------------------------------------------------------------------
(* ares_expand_name *)

\* name_length from position p on: n characters so far, indir pointers
\* followed.  -1 if there is no name.
RECURSIVE LengthFrom(_, _, _, _)
LengthFrom(buf, p, n, indir) ==
  LET alen == Len(buf)
      b == Byte(buf, p)
  IN  IF b = 0 THEN IF n > 0 THEN n - 1 ELSE 0
      ELSE IF b >= IndirMask
      THEN IF p + 1 >= alen THEN -1
           ELSE IF Target(buf, p) >= alen \/ indir + 1 > alen THEN -1
           ELSE LengthFrom(buf, Target(buf, p), n, indir + 1)
      ELSE IF p + b + 1 >= alen THEN -1
      ELSE LengthFrom(buf, p + b + 1, n + Len(Escape(Slice(buf, p + 1, b))) + 1, indir)

NameLength(buf, p) == IF p = Len(buf) THEN -1 ELSE LengthFrom(buf, p, 0, 0)

\* The copying loop, which checks nothing.
RECURSIVE Copied(_, _)
Copied(buf, p) ==
  LET b == Byte(buf, p)
  IN  IF b = 0 THEN <<>>
      ELSE IF b >= IndirMask THEN Copied(buf, Target(buf, p))
      ELSE Escape(Slice(buf, p + 1, b)) \o <<Dot>> \o Copied(buf, p + b + 1)

\* The bytes up to the end of the name or its first pointer.
RECURSIVE EncodedLength(_, _)
EncodedLength(buf, p) ==
  LET b == Byte(buf, p)
  IN  IF b = 0 THEN 1 ELSE IF b >= IndirMask THEN 2 ELSE b + 1 + EncodedLength(buf, p + b + 1)


ExpandName(buf, p) ==
  LET nlen == NameLength(buf, p)
  IN  IF nlen < 0 THEN [status |-> "EBADNAME"]
      ELSE IF nlen = 0
      THEN [status |-> "SUCCESS", text |-> <<>>,
            enclen |-> IF Byte(buf, p) >= IndirMask THEN 2 ELSE 1]
      ELSE [status |-> "SUCCESS",
            text |-> LET s == Copied(buf, p) IN IF s = <<>> THEN s ELSE Front(s),
            enclen |-> EncodedLength(buf, p)]

\* ares_expand_string copies up to a zero byte.
ExpandString(buf, p) ==
  IF p = Len(buf) THEN [status |-> "EBADSTR"]
  ELSE LET elen == Byte(buf, p)
           chars == Slice(buf, p + 1, elen)
           zeros == {i \in DOMAIN chars : chars[i] = 0}
       IN  IF p + elen + 1 > Len(buf) THEN [status |-> "EBADSTR"]
           ELSE [status |-> "SUCCESS", enclen |-> elen + 1,
                 text |-> IF zeros = {} THEN chars ELSE SubSeq(chars, 1, Min(zeros) - 1)]

-----------------------------------------------------------------------------
(* ares_mkquery *)

\* The characters of a name; a backslash takes the next one with it.
RECURSIVE Tokens(_)
Tokens(name) ==
  IF name = <<>> THEN <<>>
  ELSE IF Head(name) = Backslash /\ Len(name) > 1
  THEN <<[char |-> name[2], dot |-> FALSE]>> \o Tokens(SubSeq(name, 3, Len(name)))
  ELSE <<[char |-> Head(name), dot |-> Head(name) = Dot]>> \o Tokens(Tail(name))

\* The length set aside for the encoded name.
CountedLength(name) ==
  1 + Len(Tokens(name)) + IF name # <<>> /\ Last(name) # Dot THEN 1 ELSE 0

\* One label after the other; an empty or a long one is refused.
RECURSIVE EncodedLabels(_)
EncodedLabels(tokens) ==
  IF tokens = <<>> THEN [status |-> "SUCCESS", bytes |-> <<0>>]
  ELSE LET dots == {i \in DOMAIN tokens : tokens[i].dot}
           end == IF dots = {} THEN Len(tokens) + 1
                  ELSE Min(dots)
           label == [i \in 1 .. end - 1 |-> tokens[i].char]
           rest == EncodedLabels(SubSeq(tokens, end + 1, Len(tokens)))
       IN  IF end = 1 \/ end - 1 > MaxLabel THEN [status |-> "EBADNAME"]
           ELSE IF rest.status # "SUCCESS" THEN rest
           ELSE [status |-> "SUCCESS", bytes |-> <<end - 1>> \o label \o rest.bytes]

\* The name part of the question.
NamePart(name) ==
  IF CountedLength(name) > MaxName THEN [status |-> "EBADNAME"]
  ELSE IF name = <<Dot>> THEN EncodedLabels(<<>>)
  ELSE EncodedLabels(Tokens(name))

\* The header is cleared and its bits are set one after the other.
QueryHeader(id, rd) ==
  SetQdcount(SetBits(Set16([i \in 1 .. HeaderSize |-> 0], 0, id), 2, 0, 2, rd), 1)

MakeQuery(name, dnsclass, type, id, rd) ==
  LET n == NamePart(name)
  IN  IF n.status # "SUCCESS" THEN n
      ELSE [n EXCEPT !.bytes = QueryHeader(id, rd) \o @ \o Set16(Set16(<<0, 0, 0, 0>>, 0, type), 2, dnsclass)]

-----------------------------------------------------------------------------
(* What the functions promise, without their loops *)

\* The positions a reader of a name visits: from a label behind it, from a
\* pointer to its target; -1 once that is outside the message.
Visits(buf, p) ==
  LET alen == Len(buf)
      next(i) == IF i = -1 THEN -1
                 ELSE LET b == Byte(buf, i)
                          j == IF b = 0 THEN i
                               ELSE IF b < IndirMask THEN i + b + 1
                               ELSE IF i + 1 < alen THEN Target(buf, i) ELSE -1
                      IN  IF j < alen THEN j ELSE -1
      f[k \in 0 .. alen] == IF k = 0 THEN IF p < alen THEN p ELSE -1 ELSE next(f[k - 1])
  IN  f

\* There is a name at p if a zero is reached without going round.
IsName(buf, p) ==
  LET v == Visits(buf, p)[Len(buf)] IN v # -1 /\ Byte(buf, v) = 0

LabelsAt(buf, p) ==
  LET v == Visits(buf, p)
      stops == SelectSeq([k \in 1 .. Len(buf) + 1 |-> v[k - 1]],
                         LAMBDA i : Byte(buf, i) \notin {0} \cup IndirMask .. 255)
  IN  [k \in DOMAIN stops |-> Slice(buf, stops[k] + 1, Byte(buf, stops[k]))]

\* Labels with dots between them.
Dotted(labels) ==
  FlattenSeq([k \in DOMAIN labels |->
                (IF k = 1 THEN <<>> ELSE <<Dot>>) \o Escape(labels[k])])

\* A message gives a name exactly when it holds one, of the labels it holds;
\* the buffer is as long as what is written into it (ares_expand_name.c:101),
\* and the reader is told to skip what was read.
ReadsNames(buf, p) ==
  LET r == ExpandName(buf, p)
      v == Visits(buf, p)
  IN  /\ r.status = "SUCCESS" <=> IsName(buf, p)
      /\ r.status = "SUCCESS" =>
           /\ r.text = Dotted(LabelsAt(buf, p))
           /\ Len(r.text) = NameLength(buf, p)
           /\ p + r.enclen <= Len(buf)
           /\ LET pointers == {k \in DOMAIN v : Byte(buf, v[k]) >= IndirMask}
                  ends == {k \in DOMAIN v : Byte(buf, v[k]) = 0}
              IN  r.enclen = IF pointers # {} THEN v[Min(pointers)] + 2 - p
                             ELSE v[Min(ends)] + 1 - p

\* A string is given when it is inside the message, up to its first zero.
ReadsStrings(buf, p) ==
  LET r == ExpandString(buf, p)
  IN  /\ r.status = "SUCCESS" <=> p < Len(buf) /\ p + Byte(buf, p) + 1 <= Len(buf)
      /\ r.status = "SUCCESS" =>
           /\ r.enclen = Byte(buf, p) + 1
           /\ \A i \in DOMAIN r.text : r.text[i] = buf[p + 1 + i] /\ r.text[i] # 0
           /\ Len(r.text) < Byte(buf, p) => buf[p + 2 + Len(r.text)] = 0

\* The labels of a name in the form with dots, a dot at its end left out.
NameLabels(name) ==
  LET t == Tokens(name)
      ends == {i \in DOMAIN t : t[i].dot} \cup
              (IF t # <<>> /\ ~ Last(t).dot THEN {Len(t) + 1} ELSE {})
      nth(k) == IF k = 0 THEN 0 ELSE CHOOSE e \in ends : Cardinality({i \in ends : i <= e}) = k
  IN  [k \in 1 .. Cardinality(ends) |->
         [i \in 1 .. nth(k) - nth(k - 1) - 1 |-> t[nth(k - 1) + i].char]]

\* The header of a query is the one asked for and nothing else is set, whatever
\* the id; the type and the class stand behind the name.
ReadsQuery(bytes, nameEnd, dnsclass, type, id, rd) ==
  /\ Header(bytes) = [f \in DOMAIN Header(bytes) |->
                        CASE f = "id" -> id % 65536 [] f = "rd" -> rd % 2
                          [] f = "qdcount" -> 1 [] OTHER -> 0]
  /\ Get16(bytes, nameEnd) = type /\ Get16(bytes, nameEnd + 2) = dnsclass

\* The length ares_mkquery reports for a query is the length of the query: of
\* the allocated buffer, "the length of which will be stored in the variable
\* pointed to by buflen" (ares_mkquery.3:45), and "Compute the length of the
\* encoded name" (ares_mkquery.c:99).  It is not, for "." and for names that
\* end with an escaped dot.
LengthIsTold(name, dnsclass, type, id, rd) ==
  LET q == MakeQuery(name, dnsclass, type, id, rd)
  IN  q.status = "SUCCESS" => Len(q.bytes) = HeaderSize + 4 + CountedLength(name)

\* A name that is written can be read again behind the header and is the same,
\* escapes and the dot at the end aside.  The query has the length reported,
\* where LengthIsTold can be kept.
WritesNames(name, dnsclass, type, id, rd) ==
  LET q == MakeQuery(name, dnsclass, type, id, rd)
      labels == IF name = <<Dot>> THEN <<>> ELSE NameLabels(name)
      r == ExpandName(q.bytes, HeaderSize)
  IN  /\ q.status = "SUCCESS" <=>
           /\ \A k \in DOMAIN labels : labels[k] # <<>> /\ Len(labels[k]) <= MaxLabel
           /\ CountedLength(name) <= MaxName
      /\ q.status = "SUCCESS" =>
           /\ r.status = "SUCCESS" /\ r.text = Dotted(labels)
           /\ HeaderSize + r.enclen + 4 = Len(q.bytes)
           /\ ReadsQuery(q.bytes, HeaderSize + r.enclen, dnsclass, type, id, rd)
      /\ name = <<Dot>> \/ (name # <<>> /\ Last(name) = Dot /\ ~ Last(Tokens(name)).dot)
           \/ LengthIsTold(name, dnsclass, type, id, rd)

\* A number of 32 bits keeps its bits in an int, with a sign: a time to live
\* with the top bit set is read as a negative one.
ReadsFixed(buf) ==
  LET f == Fixed(buf, 0)
  IN  /\ f.ttl < 0 <=> Byte(buf, 4) >= 128
      /\ f.ttl % 65536 = Get16(buf, 6)
      /\ (f.ttl \div 65536) % 65536 = Get16(buf, 4)
      /\ f.type = Get16(buf, 0) /\ f.class % 256 = Byte(buf, 3) /\ f.dlen \div 256 = Byte(buf, 8)
=============================================================================
