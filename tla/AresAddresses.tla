---------------------------- MODULE AresAddresses ----------------------------
(***************************************************************************)
(* Addresses and prefixes: inet_net_pton and inet_ntop, the sort list of   *)
(* a channel (config_sortlist) and the sorting of a host's addresses with  *)
(* it, ares_bitncmp, and the names under which addresses are looked up.    *)
(*                                                                         *)
(* An IPv4 address is a sequence of 4 octets, an IPv6 address one of 8     *)
(* words of 16 bits.  A text is what its characters say:                   *)
(*   [octets, bits, junk]                an IPv4 network, bits -1 if none  *)
(*   [before, gap, after, quad, bits]    an IPv6 network: words, "::",     *)
(*                                       words, an IPv4 address            *)
(***************************************************************************)
EXTENDS Integers, Sequences, SequencesExt, FiniteSetsExt, Bitwise

Failed(errno) == [bits |-> -1, errno |-> errno, dst |-> <<>>]

Zeros(n) == [i \in 1 .. n |-> 0]

\* The smallest number of units that hold so many bits.
Units(bits, width) == (bits + width - 1) \div width

-----------------------------------------------------------------------------
(* ares_inet_net_pton, ares_inet_pton *)

\* The width a network has by its class, widened to the octets given.
ImpliedBits(octets) ==
  LET class == CASE octets[1] >= 240 -> 32
                 [] octets[1] \in 224 .. 239 -> 8
                 [] octets[1] \in 192 .. 223 -> 24
                 [] octets[1] \in 128 .. 191 -> 16
                 [] OTHER -> 8
      wide == Max({class, 8 * Len(octets)})
  IN  IF wide = 8 /\ octets[1] = 224 THEN 4 ELSE wide

\* The octets are read one after the other: too large a number is ENOENT, one
\* more than there is room for EMSGSIZE.
Net4(t, size) ==
  LET large == {i \in DOMAIN t.octets : t.octets[i] > 255}
      bits == IF t.bits = -1 THEN ImpliedBits(t.octets) ELSE t.bits
      len == Max({Len(t.octets), Units(bits, 8)})
  IN  IF t.octets = <<>> THEN Failed("ENOENT")
      ELSE IF Len(t.octets) > size /\ \A i \in large : i > size + 1 THEN Failed("EMSGSIZE")
      ELSE IF large # {} \/ t.junk \/ t.bits > 32 THEN Failed("ENOENT")
      ELSE IF len > size THEN Failed("EMSGSIZE")
      ELSE [bits |-> bits, errno |-> "", dst |-> t.octets \o Zeros(len - Len(t.octets))]

\* The words of an IPv4 address.
QuadWords(quad) ==
  IF quad = <<>> THEN <<>> ELSE <<256 * quad[1] + quad[2], 256 * quad[3] + quad[4]>>

\* How many words the reader stores at a colon.
AtColons(t) ==
  Len(t.before) + Len(t.after)
    - IF t.quad # <<>> \/ (t.gap /\ t.after = <<>>) THEN 0 ELSE 1

\* A ninth word before a colon makes the function return 0, not -1, with
\* nothing written.  Words that a short prefix has no room for are refused,
\* unless there is a gap: see Fits.  dst is the words of the width; the caller's
\* memory gets as many bytes of them as the prefix needs.
Net6(t) ==
  LET words == t.before \o t.after \o QuadWords(t.quad)
      bits == IF t.bits = -1 THEN 128 ELSE t.bits
      end == IF t.quad # <<>> THEN 8 ELSE Max({2, Units(bits, 16)})
  IN  IF AtColons(t) > 8 THEN [bits |-> 0, errno |-> "", dst |-> <<>>]
      ELSE IF Len(words) > 8 THEN Failed("ENOENT")
      ELSE IF (t.gap /\ Len(words) = end) \/ (~ t.gap /\ Len(words) # end) THEN Failed("ENOENT")
      ELSE [bits |-> bits, errno |-> "",
            dst |-> IF ~ t.gap THEN words
                    ELSE t.before \o Zeros(end - Len(words)) \o t.after \o QuadWords(t.quad)]

\* The texts Net6 is defined for: with a gap the words fit in the prefix.
Fits(t) ==
  t.gap /\ t.quad = <<>> /\ t.bits # -1 => Len(t.before) + Len(t.after) <= Max({2, Units(t.bits, 16)})

\* 1, 0 or -1
InetPton(family, t) ==
  LET r == IF family = "v4" THEN Net4(t, 4) ELSE Net6(t)
  IN  IF r.bits > -1 THEN 1 ELSE IF r.errno = "ENOENT" THEN 0 ELSE -1

-----------------------------------------------------------------------------
(* ares_inet_ntop *)

\* One word of the search for the longest run of zeros; a run [base, len] of
\* base -1 is none.
Scan(s, i, word) ==
  IF word = 0 THEN [s EXCEPT !.cur = IF @.base = -1 THEN [base |-> i, len |-> 1]
                                     ELSE [@ EXCEPT !.len = @ + 1]]
  ELSE IF s.cur.base = -1 THEN s
  ELSE [best |-> IF s.best.base = -1 \/ s.cur.len > s.best.len THEN s.cur ELSE s.best,
        cur |-> [base |-> -1, len |-> s.cur.len]]

Scanned(words) ==
  LET none == [base |-> -1, len |-> 0]
  IN  FoldLeft(LAMBDA t, i : Scan(t, i - 1, words[i]), [best |-> none, cur |-> none],
               [i \in DOMAIN words |-> i])

\* A single zero is no run.
Long(run) == IF run.len < 2 THEN [base |-> -1, len |-> 0] ELSE run

BestRun(words) ==
  LET s == Scanned(words)
      last == s.cur.base # -1 /\ (s.best.base = -1 \/ s.cur.len > s.best.len)
  IN  Long(IF last THEN s.cur ELSE s.best)

\* Mapped and compatible addresses end with an IPv4 address; after a run of
\* seven the loop is past the place where it would be written.
Ntop6(words) ==
  LET best == BestRun(words)
      gap == best.base # -1
      quad == gap /\ best.base = 0 /\ (best.len = 6 \/ (best.len = 5 /\ words[6] = 65535))
      end == IF quad THEN 6 ELSE 8
  IN  [before |-> IF gap THEN SubSeq(words, 1, best.base) ELSE words,
       gap |-> gap,
       after |-> IF gap THEN SubSeq(words, best.base + best.len + 1, end) ELSE <<>>,
       quad |-> IF quad THEN <<words[7] \div 256, words[7] % 256, words[8] \div 256, words[8] % 256>>
                ELSE <<>>,
       bits |-> -1]

-----------------------------------------------------------------------------
(* ares_bitncmp *)

Bit(byte, i) == (byte \div 2 ^ (8 - i)) % 2

Sign(a, b) == IF a < b THEN -1 ELSE IF a > b THEN 1 ELSE 0

\* The whole bytes first, then the bits of the last one from the highest on.
BitNCmp(l, r, n) ==
  LET b == n \div 8
      bytes == {i \in 1 .. b : l[i] # r[i]}
      bits == {i \in 1 .. n % 8 : Bit(l[b + 1], i) # Bit(r[b + 1], i)}
  IN  IF bytes # {} THEN Sign(l[Min(bytes)], r[Min(bytes)])
      ELSE IF bits = {} THEN 0 ELSE IF Bit(l[b + 1], Min(bits)) = 1 THEN 1 ELSE -1

-----------------------------------------------------------------------------
(* config_sortlist, sort_addresses *)

\* IN_CLASSA_NET and so on
NaturalMask(octets) ==
  CASE octets[1] < 128 -> <<255, 0, 0, 0>>
    [] octets[1] \in 128 .. 191 -> <<255, 255, 0, 0>>
    [] OTHER -> <<255, 255, 255, 0>>

\* inet_addr: a text of one number is the whole address.
InetAddr(octets) == IF Len(octets) = 1 THEN <<0, 0, 0, octets[1]>> ELSE octets

\* An entry of the sort list: ip, and after a slash nothing (<<>>), a number or
\* four, or what is no address (-1).  A number up to 32 is a prefix, 0
\* aside; any other is a mask.
Pattern(ip, after) ==
  LET net == Net4([octets |-> ip, bits |-> after[1], junk |-> FALSE], 4)
  IN  IF Len(after) = 1 /\ after[1] \in 0 .. 32 /\ net.bits > 0
      THEN [family |-> "v4", type |-> "cidr", addr |-> net.dst, bits |-> net.bits]
      ELSE [family |-> "v4", type |-> "mask", addr |-> ip,
            mask |-> IF after \in {<<>>, <<-1>>} THEN NaturalMask(ip) ELSE InetAddr(after)]

\* An IPv6 entry always has a prefix; its address in bytes.
Pattern6(bytes, bits) == [family |-> "v6", type |-> "cidr", addr |-> bytes, bits |-> bits]

Matches(pat, addr) ==
  IF pat.family # (IF Len(addr) = 4 THEN "v4" ELSE "v6") THEN FALSE
  ELSE IF pat.type = "mask" THEN [i \in 1 .. 4 |-> addr[i] & pat.mask[i]] = pat.addr
  ELSE BitNCmp(addr, pat.addr, pat.bits) = 0

\* get_address_index, get6_address_index: the first entry that matches, nsort if none does.
AddressIndex(addr, sortlist) ==
  LET fit == {i \in DOMAIN sortlist : Matches(sortlist[i], addr)}
  IN  IF fit = {} THEN Len(sortlist) ELSE Min(fit) - 1

\* The inner loop: what does not stay makes room.
InsertAfter(sorted, stay, addr) ==
  LET i2 == IF stay = {} THEN 0 ELSE Max(stay)
  IN  SubSeq(sorted, 1, i2) \o <<addr>> \o SubSeq(sorted, i2 + 1, Len(sorted))

\* Mutant: an address is also moved before those of its own index.
MoveBeforeEqual(sorted, addr, sortlist) ==
  InsertAfter(sorted, {i \in DOMAIN sorted :
                         AddressIndex(sorted[i], sortlist) < AddressIndex(addr, sortlist)}, addr)

MoveBack(sorted, addr, sortlist) ==
  InsertAfter(sorted, {i \in DOMAIN sorted :
                         AddressIndex(sorted[i], sortlist) <= AddressIndex(addr, sortlist)}, addr)

SortAddresses(list, sortlist) == FoldLeft(LAMBDA s, a : MoveBack(s, a, sortlist), <<>>, list)

-----------------------------------------------------------------------------
(* ptr_rr_name *)

\* The labels before in-addr.arpa; before ip6.arpa, a nibble each.
PtrLabels4(addr) == Reverse(addr)
PtrLabels6(words) ==
  FlattenSeq([i \in 1 .. 8 |->
    LET w == words[9 - i]
    IN  <<w % 16, (w \div 16) % 16, (w \div 256) % 16, w \div 4096>>])

-----------------------------------------------------------------------------
(* What the functions promise *)

\* The text t of an IPv6 address is read as the address, and is the shortest:
\* the gap stands for the longest run of zeros, the first of them.
Renders(t, words) ==
  LET zero(i, n) == i + n <= 9 /\ \A j \in i .. i + n - 1 : words[j] = 0
      len == 8 - Len(t.before) - Len(t.after) - (IF t.quad = <<>> THEN 0 ELSE 2)
  IN  /\ Net6(t).bits = 128 /\ Net6(t).dst = words
      /\ t.gap <=> \E i \in 1 .. 7 : zero(i, 2)
      /\ t.gap => /\ \A i \in 1 .. 8 : ~ zero(i, len + 1)
                  /\ \A i \in 1 .. Len(t.before) : ~ zero(i, len)

SurvivesText(words) == Renders(Ntop6(words), words)

\* A network that is read has the width it was given and keeps every octet;
\* what is wider than its octets is filled with zeros.  A class alone never
\* cuts an octet off.
ReadsNetwork4(t) ==
  LET r == Net4(t, 4)
  IN  /\ r.bits >= 0 <=> /\ Len(t.octets) \in 1 .. 4 /\ ~ t.junk /\ t.bits <= 32
                         /\ \A i \in DOMAIN t.octets : t.octets[i] <= 255
      /\ r.bits >= 0 =>
           /\ t.bits # -1 => r.bits = t.bits
           /\ t.bits = -1 /\ t.octets # <<224>> => r.bits >= 8 * Len(t.octets)
           /\ Len(r.dst) \in Units(r.bits, 8) .. 4
           /\ \A i \in DOMAIN r.dst : r.dst[i] = IF i \in DOMAIN t.octets THEN t.octets[i] ELSE 0
      /\ InetPton("v4", t) = 1 <=> r.bits >= 0

\* How many of the eight words of an address an IPv6 text says.
WordsSaid(t) == Len(t.before) + Len(t.after) + 2 * (Len(t.quad) \div 4)

\* "-1 if some failure occurred", of which ENOENT "means it was not a valid
\* network specification" (inet_net_pton.c:403): a text that says more words
\* than an address has is no network.  It does not hold for nine words and more
\* before the last colon (inet_net_pton.c:328).
RefusesNetwork6(t) == WordsSaid(t) > 8 => Net6(t).bits = -1

\* An IPv6 text is read when it says every word of its width once, a gap at
\* least one of them.  Nothing is said here of the texts that
\* RefusesNetwork6 is not kept for.
ReadsNetwork6(t) ==
  LET r == Net6(t)
      width == IF t.bits = -1 \/ t.quad # <<>> THEN 8 ELSE Max({2, Units(t.bits, 16)})
  IN  AtColons(t) <= 8 =>
        /\ r.bits >= 0 <=> IF t.gap THEN WordsSaid(t) < width ELSE WordsSaid(t) = width
        /\ r.bits >= 0 => Len(r.dst) = width /\ InetPton("v6", t) = 1

\* The bits compared are the first n, as the number they make.
ComparesBits(l, r, n) ==
  LET number(s) == FoldLeft(LAMBDA v, byte : 256 * v + byte, 0, s) \div 2 ^ (8 * Len(s) - n)
  IN  BitNCmp(l, r, n) = Sign(number(l), number(r))

\* Sorting keeps every address, puts them in the order of the entries they
\* match and does not change the order of those that match the same.
SortsStably(list, sortlist) ==
  SortAddresses(list, sortlist) =
    FlattenSeq([k \in 1 .. Len(sortlist) + 1 |->
                  SelectSeq(list, LAMBDA a : AddressIndex(a, sortlist) = k - 1)])

\* An entry with a prefix or of a class matches the addresses that begin like
\* it; one with a mask, and one of a class, nothing unless the entry itself has
\* no bits outside.
MatchesPrefix(ip, after, addr) ==
  LET pat == Pattern(ip, after)
      bit(a, i) == Bit(a[(i - 1) \div 8 + 1], ((i - 1) % 8) + 1)
      begins(n) == \A i \in 1 .. n : bit(ip, i) = bit(addr, i)
      class == IF ip[1] < 128 THEN 8 ELSE IF ip[1] < 192 THEN 16 ELSE 24
  IN  /\ Len(after) = 1 /\ after[1] \in 1 .. 32 => (Matches(pat, addr) <=> begins(after[1]))
      /\ after = <<>> =>
           (Matches(pat, addr) <=> /\ begins(class)
                                   /\ \A i \in class \div 8 + 1 .. 4 : ip[i] = 0)

\* The name an address is looked up by tells it.
NamesAddress(addr, words) ==
  /\ Reverse(PtrLabels4(addr)) = addr
  /\ LET n == PtrLabels6(words)
     IN  Len(n) = 32 /\ \A i \in 1 .. 8 :
           words[i] = FoldLeft(LAMBDA v, k : 16 * v + n[33 - k], 0, [k \in 1 .. 4 |-> 4 * (i - 1) + k])
=============================================================================
