----------------------------- MODULE RaftChains -----------------------------
(***************************************************************************)
(* Logs as runs of entries: when two of them agree, and what cutting,      *)
(* extending and joining them keeps; the logs of the peers and the calls   *)
(* that carry entries, and what every step makes of them.                  *)
(***************************************************************************)
EXTENDS RaftInvariants, FiniteSetsExt, TLAPS

-----------------------------------------------------------------------------
(* Chains made from chains.                                                *)

\* n has all of e, and what c had up to an index where it did not differ from e.
Overwrites(n, c, e) ==
    /\ \A k \in Spans(e) : HasTerm(n, k, TermAt(e, k))
    /\ \A k \in Spans(c) :
          (\A d \in Spans(e) : d <= k => HasTerm(c, d, TermAt(e, d)))
             => HasTerm(n, k, TermAt(c, k))

\* Indices between two of a chain are in the chain.
LEMMA SpansBetween ==
    ASSUME NEW c, NEW k \in Spans(c), NEW idx \in Spans(c), NEW j \in Int,
           k <= j, j <= idx, c.base \in Int, Len(c.entries) \in Nat
    PROVE  j \in Spans(c)
  BY DEF Spans, top

\* Indices are integers.
LEMMA SpansInt == \A c : \A k \in Spans(c) : k \in Int
  BY DEF Spans

\* Where a chain begins and ends.
LEMMA ChainNumbers ==
    ASSUME NEW c, IsChain(c)
    PROVE  /\ c.base \in Int /\ c.base >= -1 /\ c.term \in Nat
           /\ c.entries \in Seq(ChainEntry) /\ Len(c.entries) \in Nat
           /\ top(c) \in Int /\ c.base <= top(c)
  BY SMTT(30) DEF IsChain, top

\* What is more is not less.
LEMMA MoreIs == \A a, b \in Int : a > b => a >= b
  OBVIOUS

\* An order of three indices.
LEMMA OrderIs == \A a, b, c \in Int : a >= b /\ b >= c => a >= c
  OBVIOUS

\* The index before nextIndex.
LEMMA IndexBefore == \A n \in Nat : n - 1 \in Int /\ n - 1 >= -1
  OBVIOUS

\* It is in the log when nextIndex is at most one beyond the log.
LEMMA IndexBeforeEnd == \A n \in Nat : \A k \in Int : n <= k + 1 => n - 1 <= k
  OBVIOUS

\* No entries.
LEMMA NoEntries == <<>> \in Seq(ChainEntry)
  OBVIOUS

\* Where n has what c has, and c and d have the same, n and d have the same.
LEMMA PartSame ==
    ASSUME NEW n, NEW c, NEW d, NEW k, PartAt(n, c, k), SameAt(c, d, k)
    PROVE  SameAt(n, d, k)
  BY Zenon DEF PartAt, SameAt

-----------------------------------------------------------------------------
(* Parts of sequences, and least and greatest elements.                    *)

\* Entries from past the end of a log are none.
LEMMA EmptyPart ==
    ASSUME NEW l \in Seq(ChainEntry), NEW a \in Int, a > Len(l)
    PROVE  SubSeq(l, a, Len(l)) = <<>>
  OBVIOUS

\* Min finds the least of some naturals.
LEMMA MinOfNats ==
    ASSUME LeastExists, NEW S \in SUBSET Nat, S # {}
    PROVE  Min(S) \in S /\ \A y \in S : Min(S) <= y
<1>1. PICK x \in S : \A y \in S : x <= y
  BY Zenon DEF LeastExists
<1> QED
  BY <1>1, Zenon DEF Min

-----------------------------------------------------------------------------
(* How the operations make chains.                                         *)

\* The term that a chain has at one of its indices.
LEMMA TermIsNat ==
    ASSUME NEW c, IsChain(c), NEW x \in Spans(c)
    PROVE  TermAt(c, x) \in Nat /\ (x = -1 => TermAt(c, x) = 0)
<1>1. x \in Int /\ x >= c.base /\ x <= c.base + Len(c.entries)
  BY DEF IsChain, Spans, top
<1>2. CASE x = c.base
  BY <1>2 DEF IsChain, TermAt
<1>3. CASE x # c.base
  <2>1. x - c.base \in 1 .. Len(c.entries) /\ x # -1
    BY <1>1, <1>3, SMTT(30) DEF IsChain
  <2>2. c.entries[x - c.base] \in ChainEntry
    BY <2>1 DEF IsChain
  <2>3. c.entries[x - c.base].Term \in Nat
    BY <2>2 DEF ChainEntry
  <2> QED
    BY <1>3, <2>1, <2>3 DEF TermAt
<1> QED
  BY <1>2, <1>3

\* Entries from x on, of those after b.
LEMMA SuffixEntries ==
    ASSUME NEW b \in Int, NEW l \in Seq(ChainEntry), \A k \in 1 .. Len(l) : l[k].Index = b + k,
           NEW x \in b .. b + Len(l)
    PROVE  /\ SubSeq(l, x - b + 1, Len(l)) \in Seq(ChainEntry)
           /\ Len(SubSeq(l, x - b + 1, Len(l))) = Len(l) - (x - b)
           /\ \A k \in 1 .. Len(l) - (x - b) :
                 /\ SubSeq(l, x - b + 1, Len(l))[k] = l[x - b + k]
                 /\ SubSeq(l, x - b + 1, Len(l))[k].Index = x + k
<1> DEFINE s == SubSeq(l, x - b + 1, Len(l))
<1>1. s \in Seq(ChainEntry) /\ Len(s) = Len(l) - (x - b)
  BY SMTT(30)
<1>2. \A k \in 1 .. Len(l) - (x - b) : s[k] = l[x - b + k]
  OBVIOUS
<1> HIDE DEF s
<1>3. ASSUME NEW k \in 1 .. Len(l) - (x - b) PROVE s[k] = l[x - b + k] /\ s[k].Index = x + k
  <2>1. x - b + k \in 1 .. Len(l) /\ b + (x - b + k) = x + k
    BY <1>1
  <2>2. s[k] = l[x - b + k]
    BY <1>1, <1>2
  <2>3. l[x - b + k].Index = b + (x - b + k)
    BY <2>1, Zenon
  <2> QED
    BY <2>1, <2>2, <2>3, Zenon
<1> QED
  BY <1>1, <1>3, Zenon DEF s

\* The place, among the entries after x, of the one at index k.
LEMMA IndexShift ==
    ASSUME NEW b \in Int, NEW x \in Int, NEW k \in Int, NEW len \in Nat,
           b <= x, x <= k, k # x, k <= b + len
    PROVE  /\ k - x \in 1 .. len - (x - b) /\ k > b /\ k # b
           /\ x - b + (k - x) = k - b
  OBVIOUS

\* The entries of a chain from x on are part of it.
LEMMA EndOfChain ==
    ASSUME NEW c, IsChain(c), NEW x \in Spans(c), NEW n,
           n.base = x, n.term = TermAt(c, x),
           n.entries \in Seq(ChainEntry), Len(n.entries) = Len(c.entries) - (x - c.base),
           \A k \in 1 .. Len(c.entries) - (x - c.base) :
              n.entries[k] = c.entries[x - c.base + k] /\ n.entries[k].Index = x + k
    PROVE  IsChain(n) /\ Segment(n, c) /\ top(n) = top(c)
<1>1. c.base \in Int /\ c.base >= -1 /\ c.entries \in Seq(ChainEntry) /\ Len(c.entries) \in Nat
  BY DEF IsChain
<1>2. x \in Int /\ c.base <= x /\ x <= c.base + Len(c.entries)
  BY <1>1 DEF Spans, top
<1>3. n.base = x /\ n.term = TermAt(c, x)
  OBVIOUS
<1>4. top(n) = top(c)
  <2>1. x + (Len(c.entries) - (x - c.base)) = c.base + Len(c.entries)
    BY <1>1, <1>2
  <2> QED
    BY <1>3, <2>1, Zenon DEF top
<1>5. IsChain(n)
  <2>1. n.term \in Nat /\ (n.base = -1 => n.term = 0)
    BY <1>3, TermIsNat, Zenon
  <2>2. x >= -1
    BY <1>1, <1>2
  <2> QED
    BY <1>2, <1>3, <2>1, <2>2, Zenon DEF IsChain
<1>6. ASSUME NEW k \in Spans(n) PROVE PartAt(n, c, k)
  <2>1. k \in Int /\ x <= k /\ k <= top(c)
    BY <1>2, <1>3, <1>4 DEF Spans
  <2>2. k \in Spans(c)
    BY <1>1, <1>2, <2>1 DEF Spans
  <2>3. CASE k = x
    <3>1. TermAt(n, k) = TermAt(c, k) /\ ~(k > n.base)
      BY <1>2, <1>3, <2>3, SMTT(30) DEF TermAt
    <3> QED
      BY <2>2, <3>1, Zenon DEF PartAt
  <2>4. CASE k # x
    <3>0. k <= c.base + Len(c.entries)
      BY <2>1 DEF top
    <3>1. /\ k - x \in 1 .. Len(c.entries) - (x - c.base) /\ k > c.base /\ k # c.base
          /\ x - c.base + (k - x) = k - c.base
      BY <1>1, <1>2, <2>1, <2>4, <3>0, IndexShift, SMTT(30)
    <3>2. n.entries[k - x] = c.entries[x - c.base + (k - x)]
      BY <3>1, Zenon
    <3>3. EntryAt(n, k) = EntryAt(c, k)
      BY <1>3, <3>1, <3>2, Zenon DEF EntryAt
    <3>4. TermAt(n, k) = TermAt(c, k)
      BY <1>3, <2>4, <3>1, <3>3 DEF EntryAt, TermAt
    <3> QED
      BY <2>2, <3>1, <3>3, <3>4, Zenon DEF PartAt
  <2> QED
    BY <2>3, <2>4
<1> QED
  BY <1>4, <1>5, <1>6 DEF Segment

\* What trim leaves, and what logEntries takes, is part of the chain.
LEMMA SuffixChain ==
    ASSUME NEW c, IsChain(c), NEW x \in Spans(c), NEW n,
           n.base = x, n.term = TermAt(c, x),
           n.entries = SubSeq(c.entries, x - c.base + 1, Len(c.entries))
    PROVE  IsChain(n) /\ Segment(n, c) /\ top(n) = top(c)
<1> DEFINE l == c.entries
           b == c.base
           s == n.entries
<1>1. b \in Int /\ l \in Seq(ChainEntry) /\ \A k \in 1 .. Len(l) : l[k].Index = b + k
  BY Zenon DEF IsChain
<1>2. x \in b .. b + Len(l)
  BY DEF Spans, top
<1>3. s = SubSeq(l, x - b + 1, Len(l))
  OBVIOUS
<1> HIDE DEF l, b, s
<1>4. /\ s \in Seq(ChainEntry) /\ Len(s) = Len(l) - (x - b)
      /\ \A k \in 1 .. Len(l) - (x - b) : s[k] = l[x - b + k] /\ s[k].Index = x + k
  BY <1>1, <1>2, <1>3, SuffixEntries, Zenon
<1> QED
  BY <1>4, EndOfChain, Zenon DEF l, b, s

\* A snapshot is what a chain has at one index.
LEMMA BaseChain ==
    ASSUME NEW c, IsChain(c), NEW x \in Spans(c), NEW n,
           n.base = x, n.term = TermAt(c, x), n.entries = <<>>
    PROVE  IsChain(n) /\ Segment(n, c) /\ top(n) = x
<1>1. x \in Int /\ x >= -1
  BY DEF IsChain, Spans
<1>2. n.base = x /\ n.term = TermAt(c, x) /\ n.entries = <<>>
  OBVIOUS
<1>3. Len(n.entries) = 0 /\ n.entries \in Seq(ChainEntry)
  BY <1>2
<1>4. top(n) = x
  BY <1>1, <1>2, <1>3, SMTT(30) DEF top
<1>5. IsChain(n)
  BY <1>1, <1>2, <1>3, TermIsNat DEF IsChain
<1>6. \A k \in Spans(n) : k = x
  BY <1>1, <1>2, <1>4, SMTT(30) DEF Spans
<1>7. PartAt(n, c, x)
  BY <1>1, <1>2 DEF PartAt, TermAt
<1> QED
  BY <1>4, <1>5, <1>6, <1>7, Zenon DEF Segment

\* One sequence of entries after another.
LEMMA ConcatEntries ==
    ASSUME NEW u \in Seq(ChainEntry), NEW v \in Seq(ChainEntry)
    PROVE  /\ u \o v \in Seq(ChainEntry) /\ Len(u \o v) = Len(u) + Len(v)
           /\ \A x \in 1 .. Len(u) : (u \o v)[x] = u[x]
           /\ \A x \in Len(u) + 1 .. Len(u) + Len(v) : (u \o v)[x] = v[x - Len(u)]
<1>1. u \o v \in Seq(ChainEntry) /\ Len(u \o v) = Len(u) + Len(v)
  OBVIOUS
<1>2. \A x \in 1 .. Len(u) : (u \o v)[x] = u[x]
  OBVIOUS
<1>3. \A x \in Len(u) + 1 .. Len(u) + Len(v) : (u \o v)[x] = v[x - Len(u)]
  OBVIOUS
<1> QED
  BY <1>1, <1>2, <1>3

\* n is the entries of l, which are those after b, up to index j, then those
\* of e, which are after p.
Splices(n, b, l, p, e, j) ==
    /\ n \in Seq(ChainEntry) /\ b + Len(n) = p + Len(e)
    /\ \A k \in b + 1 .. j : n[k - b] = l[k - b]
    /\ \A k \in j + 1 .. p + Len(e) : n[k - b] = e[k - p]

\* This is how entries are put together.
LEMMA SpliceEntries ==
    ASSUME NEW b \in Int, NEW l \in Seq(ChainEntry), NEW p \in Int, NEW e \in Seq(ChainEntry),
           NEW j \in Int, b <= p, p <= j, j <= b + Len(l), j < p + Len(e)
    PROVE  Splices(SubSeq(l, 1, j - b) \o SubSeq(e, j - p + 1, Len(e)), b, l, p, e, j)
<1> DEFINE u == SubSeq(l, 1, j - b)
           v == SubSeq(e, j - p + 1, Len(e))
           n == u \o v
<1>1. u \in Seq(ChainEntry) /\ Len(u) = j - b
  OBVIOUS
<1>2. \A x \in 1 .. j - b : u[x] = l[x]
  OBVIOUS
<1>3. v \in Seq(ChainEntry) /\ Len(v) = Len(e) - (j - p)
  OBVIOUS
<1>4. \A x \in 1 .. Len(e) - (j - p) : v[x] = e[j - p + x]
  OBVIOUS
<1> HIDE DEF u, v
<1>5. /\ n \in Seq(ChainEntry) /\ Len(n) = Len(u) + Len(v)
      /\ \A x \in 1 .. Len(u) : n[x] = u[x]
      /\ \A x \in Len(u) + 1 .. Len(u) + Len(v) : n[x] = v[x - Len(u)]
  BY <1>1, <1>3, ConcatEntries, Zenon
<1> HIDE DEF n
<1>6. b + Len(n) = p + Len(e)
  BY <1>1, <1>3, <1>5
<1>7. ASSUME NEW k \in b + 1 .. j PROVE n[k - b] = l[k - b]
  <2>1. k - b \in 1 .. j - b
    OBVIOUS
  <2> QED
    BY <1>1, <1>2, <1>5, <2>1, Zenon
<1>8. ASSUME NEW k \in j + 1 .. p + Len(e) PROVE n[k - b] = e[k - p]
  <2>1. k - b \in Len(u) + 1 .. Len(u) + Len(v) /\ (k - b) - Len(u) = k - j
    BY <1>1, <1>3
  <2>2. k - j \in 1 .. Len(e) - (j - p) /\ j - p + (k - j) = k - p
    OBVIOUS
  <2>3. n[k - b] = v[k - j]
    BY <1>5, <2>1, Zenon
  <2>4. v[k - j] = e[k - p]
    BY <1>4, <2>2
  <2> QED
    BY <2>3, <2>4
<1> QED
  BY <1>5, <1>6, <1>7, <1>8, Zenon DEF n, u, v, Splices

\* n has the base of c, the entries of c up to j, and those of e after it.
Spliced(n, c, e, j) ==
    /\ n.base = c.base /\ n.term = c.term /\ n.entries \in Seq(ChainEntry) /\ top(n) = top(e)
    /\ \A k \in c.base + 1 .. j : EntryAt(n, k) = EntryAt(c, k)
    /\ \A k \in j + 1 .. top(e) : EntryAt(n, k) = EntryAt(e, k)

\* The entry of a chain at an index has that index.
LEMMA EntryIndex ==
    ASSUME NEW c, IsChain(c), NEW k \in Spans(c), k # c.base
    PROVE  k - c.base \in 1 .. Len(c.entries) /\ EntryAt(c, k).Index = k
<1>1. /\ c.base \in Int /\ Len(c.entries) \in Nat
      /\ \A x \in 1 .. Len(c.entries) : c.entries[x].Index = c.base + x
  BY DEF IsChain
<1>2. k \in Int /\ c.base <= k /\ k <= c.base + Len(c.entries)
  BY <1>1 DEF Spans, top
<1>3. k - c.base \in 1 .. Len(c.entries) /\ c.base + (k - c.base) = k
  BY <1>1, <1>2, SMTT(30)
<1> QED
  BY <1>1, <1>3, Zenon DEF EntryAt

\* Entries joined where the terms agree make a chain.
LEMMA JoinedChain ==
    ASSUME NEW c, NEW e, IsChain(c), IsChain(e), NEW j \in Int,
           e.base >= c.base, j \in Spans(c), j >= e.base, j < top(e), TermAt(c, j) = TermAt(e, j),
           NEW n, Spliced(n, c, e, j)
    PROVE  IsChain(n) /\ Joined(n, c, e, j)
<1>1. /\ c.base \in Int /\ c.base >= -1 /\ top(c) \in Int
      /\ e.base \in Int /\ top(e) \in Int
  BY ChainNumbers, Zenon
<1>2. n.base = c.base /\ n.term = c.term /\ n.entries \in Seq(ChainEntry) /\ top(n) = top(e)
  BY DEF Spliced
<1>3. c.base <= j /\ j <= top(c)
  BY <1>1 DEF Spans
<1>4. ASSUME NEW k \in Spans(n), k <= j, k # c.base
      PROVE  k \in Spans(c) /\ k > c.base /\ EntryAt(n, k) = EntryAt(c, k)
  <2>1. k \in c.base + 1 .. j /\ k \in Spans(c)
    BY <1>1, <1>2, <1>3, <1>4 DEF Spans
  <2> QED
    BY <1>1, <2>1 DEF Spliced
<1>5. ASSUME NEW k \in Spans(n), k > j
      PROVE  k \in Spans(e) /\ k > e.base /\ k # c.base /\ EntryAt(n, k) = EntryAt(e, k)
  <2>1. k \in j + 1 .. top(e) /\ k \in Spans(e) /\ k > e.base /\ k # c.base
    BY <1>1, <1>2, <1>3, <1>5 DEF Spans
  <2> QED
    BY <2>1 DEF Spliced
<1>6. ASSUME NEW k \in Spans(n), k <= j PROVE PartAt(n, c, k)
  <2>1. CASE k = c.base
    <3>1. k \in Spans(c) /\ ~(k > n.base)
      BY <1>1, <1>2, <1>3, <2>1 DEF Spans
    <3>2. TermAt(n, k) = TermAt(c, k)
      BY <1>2, <2>1, Zenon DEF TermAt
    <3> QED
      BY <3>1, <3>2, Zenon DEF PartAt
  <2>2. CASE k # c.base
    <3>1. TermAt(n, k) = TermAt(c, k)
      BY <1>2, <1>4, <1>6, <2>2, Zenon DEF TermAt, EntryAt
    <3> QED
      BY <1>4, <1>6, <2>2, <3>1, Zenon DEF PartAt
  <2> QED
    BY <2>1, <2>2
<1>7. ASSUME NEW k \in Spans(n), k > j PROVE PartAt(n, e, k)
  <2>1. k # e.base
    BY <1>1, <1>7
  <2>2. TermAt(n, k) = TermAt(e, k)
    BY <1>2, <1>5, <1>7, <2>1, Zenon DEF TermAt, EntryAt
  <2> QED
    BY <1>5, <1>7, <2>2, Zenon DEF PartAt
<1>8. j \in Spans(e)
  BY <1>1 DEF Spans
<1>9. ASSUME NEW x \in 1 .. Len(n.entries) PROVE n.entries[x].Index = n.base + x
  <2>1. /\ n.base + x \in Spans(n) /\ n.base + x # n.base /\ (n.base + x) - n.base = x
        /\ n.base + x \in Int
    <3>1. n.base \in Int /\ Len(n.entries) \in Nat
      BY <1>1, <1>2
    <3>2. \A b \in Int : \A l \in Nat : \A y \in 1 .. l :
             b + y \in b .. b + l /\ b + y # b /\ (b + y) - b = y /\ b + y \in Int
      OBVIOUS
    <3> QED
      BY <3>1, <3>2, Zenon DEF Spans, top
  <2>2. EntryAt(n, n.base + x) = n.entries[x]
    BY <2>1, Zenon DEF EntryAt
  <2> DEFINE k == n.base + x
  <2> HIDE DEF k
  <2>3. k \in Spans(n) /\ k \in Int /\ k # c.base /\ (k <= j \/ k > j) /\ (k > j => k # e.base)
    BY <1>1, <1>2, <2>1, SMTT(30) DEF k
  <2>4. EntryAt(n, k).Index = k
    <3>1. CASE k <= j
      BY <1>4, <2>3, <3>1, EntryIndex, Zenon
    <3>2. CASE k > j
      BY <1>5, <2>3, <3>2, EntryIndex, ZenonT(30)
    <3> QED
      BY <2>3, <3>1, <3>2
  <2> QED
    BY <2>2, <2>4, Zenon DEF k
<1>10. IsChain(n)
  BY <1>2, <1>9, Zenon DEF IsChain
<1> QED
  BY <1>6, <1>7, <1>8, <1>10, Zenon DEF Joined

\* Two chains joined before the first index where they differ.
LEMMA JoinedOverwrites ==
    ASSUME NEW n, NEW c, NEW e, IsChain(c), IsChain(e), NEW j \in Int, JoinedToEnd(n, c, e, j),
           n.base = c.base, e.base >= c.base, j < top(e),
           \A k \in Spans(e) : k <= j => HasTerm(c, k, TermAt(e, k)),
           ~HasTerm(c, j + 1, TermAt(e, j + 1))
    PROVE  Overwrites(n, c, e)
<1>1. /\ c.base \in Int /\ top(c) \in Int /\ e.base \in Int /\ top(e) \in Int
  BY ChainNumbers, Zenon
<1>2. /\ j \in Spans(e) /\ top(n) = top(e)
      /\ \A k \in Spans(n) : (k <= j => PartAt(n, c, k)) /\ (k > j => PartAt(n, e, k))
  BY Zenon DEF Joined, JoinedToEnd
<1>3. ASSUME NEW k \in Spans(e) PROVE HasTerm(n, k, TermAt(e, k))
  <2>1. k \in Spans(n) /\ (k <= j \/ k > j)
    BY <1>1, <1>2 DEF Spans
  <2>2. CASE k <= j
    BY <1>2, <2>1, <2>2, Zenon DEF PartAt, HasTerm
  <2>3. CASE k > j
    BY <1>2, <2>1, <2>3, Zenon DEF PartAt, HasTerm
  <2> QED
    BY <2>1, <2>2, <2>3, Zenon
<1>4. ASSUME NEW k \in Spans(c), \A d \in Spans(e) : d <= k => HasTerm(c, d, TermAt(e, d))
      PROVE  HasTerm(n, k, TermAt(c, k))
  <2>1. j + 1 \in Spans(e)
    BY <1>1, <1>2 DEF Spans
  <2>2. ~(j + 1 <= k)
    BY <1>4, <2>1, Zenon
  <2>3. k <= j /\ k \in Spans(n)
    BY <1>1, <1>2, <2>2 DEF Spans
  <2> QED
    BY <1>2, <2>3, Zenon DEF PartAt, HasTerm
<1> QED
  BY <1>3, <1>4, Zenon DEF Overwrites

\* A chain that has all of e already.
LEMMA SameOverwrites ==
    ASSUME NEW n, NEW c, NEW e, n.base = c.base, n.term = c.term, n.entries = c.entries,
           \A k \in Spans(e) : HasTerm(c, k, TermAt(e, k))
    PROVE  Overwrites(n, c, e)
<1>1. Spans(n) = Spans(c) /\ \A k : TermAt(n, k) = TermAt(c, k)
  BY Zenon DEF Spans, top, TermAt
<1> QED
  BY <1>1, Zenon DEF Overwrites, HasTerm

-----------------------------------------------------------------------------
(* Terms along a chain.                                                    *)

-----------------------------------------------------------------------------
(* How the operations make chains.                                         *)

\* The log of a peer, read as a chain.
LEMMA LogFacts ==
    ASSUME NEW i, IsChain(LogChain(i))
    PROVE  /\ lastIncludedIndex[i] \in Int /\ lastIncludedIndex[i] >= -1
           /\ lastIncludedTerm[i] \in Nat /\ (lastIncludedIndex[i] = -1 => lastIncludedTerm[i] = 0)
           /\ log[i] \in Seq(ChainEntry) /\ Len(log[i]) \in Nat
           /\ lastLogIndex(i) \in Int /\ lastLogIndex(i) >= lastIncludedIndex[i]
           /\ LogChain(i).base = lastIncludedIndex[i] /\ LogChain(i).term = lastIncludedTerm[i]
           /\ LogChain(i).entries = log[i] /\ top(LogChain(i)) = lastLogIndex(i)
           /\ Spans(LogChain(i)) = lastIncludedIndex[i] .. lastLogIndex(i)
           /\ \A k : TermAt(LogChain(i), k) = logTerm(i, k)
<1>1. /\ LogChain(i).base = lastIncludedIndex[i] /\ LogChain(i).term = lastIncludedTerm[i]
      /\ LogChain(i).entries = log[i]
  BY DEF LogChain
<1>2. /\ lastIncludedIndex[i] \in Int /\ lastIncludedIndex[i] >= -1
      /\ lastIncludedTerm[i] \in Nat /\ (lastIncludedIndex[i] = -1 => lastIncludedTerm[i] = 0)
      /\ log[i] \in Seq(ChainEntry)
  BY <1>1, Zenon DEF IsChain
<1>3. Len(log[i]) \in Nat
  BY <1>2
<1>4. lastLogIndex(i) = lastIncludedIndex[i] + Len(log[i])
  BY <1>2, <1>3, SMTT(30) DEF lastLogIndex, baseIndex
<1>5. lastLogIndex(i) \in Int /\ lastLogIndex(i) >= lastIncludedIndex[i]
  BY <1>2, <1>3, <1>4
<1>6. top(LogChain(i)) = lastLogIndex(i)
  BY <1>1, <1>4, Zenon DEF top
<1>7. \A k : TermAt(LogChain(i), k) = logTerm(i, k)
  BY <1>1, Zenon DEF TermAt, logTerm
<1> QED
  BY <1>1, <1>2, <1>3, <1>5, <1>6, <1>7, Zenon DEF Spans

\* The indices of a log.
LEMMA InLog ==
    ASSUME NEW i, IsChain(LogChain(i)), NEW k \in Int,
           k >= lastIncludedIndex[i], k <= lastLogIndex(i)
    PROVE  k \in Spans(LogChain(i))
<1>1. /\ lastIncludedIndex[i] \in Int /\ lastLogIndex(i) \in Int
      /\ Spans(LogChain(i)) = lastIncludedIndex[i] .. lastLogIndex(i)
  BY LogFacts, Zenon
<1> QED
  BY <1>1, SMTT(30)

\* The log up to j, then the entries of e after j, is a chain.
LEMMA AppendJoined ==
    ASSUME NEW i, IsChain(LogChain(i)), NEW e, IsChain(e), NEW j \in Int,
           e.base >= lastIncludedIndex[i], j >= e.base, j < e.base + Len(e.entries),
           j <= lastLogIndex(i), logTerm(i, j) = TermAt(e, j), NEW n,
           n.base = lastIncludedIndex[i], n.term = lastIncludedTerm[i],
           n.entries = SubSeq(log[i], 1, j - lastIncludedIndex[i])
                          \o SubSeq(e.entries, j - e.base + 1, Len(e.entries))
    PROVE  IsChain(n) /\ JoinedToEnd(n, LogChain(i), e, j)
<1> DEFINE c == LogChain(i)
           b == lastIncludedIndex[i]
           l == log[i]
           p == e.base
           f == e.entries
           r == SubSeq(l, 1, j - b) \o SubSeq(f, j - p + 1, Len(f))
<1>1. /\ b \in Int /\ l \in Seq(ChainEntry) /\ lastLogIndex(i) \in Int
      /\ c.base = b /\ c.entries = l /\ c.term = lastIncludedTerm[i] /\ top(c) = lastLogIndex(i)
      /\ Spans(c) = b .. lastLogIndex(i) /\ TermAt(c, j) = logTerm(i, j)
  BY LogFacts, Zenon
<1>2. p \in Int /\ f \in Seq(ChainEntry) /\ Len(f) \in Nat
  BY ChainNumbers, Zenon
<1>3. b + Len(l) = top(c)
  BY <1>1, Zenon DEF top
<1>4. n.base = b /\ n.term = c.term /\ n.entries = r
  BY <1>1, Zenon
<1>5. p >= b /\ j >= p /\ j < p + Len(f) /\ j <= lastLogIndex(i)
  OBVIOUS
<1> HIDE DEF c, b, l, p, f
<1>6. Splices(r, b, l, p, f, j)
  <2>1. b <= p /\ p <= j /\ j <= b + Len(l)
    BY <1>1, <1>2, <1>3, <1>5, Zenon
  <2>2. b \in Int /\ l \in Seq(ChainEntry)
    BY <1>1, Zenon
  <2>3. p \in Int /\ f \in Seq(ChainEntry) /\ j < p + Len(f)
    BY <1>2, <1>5, Zenon
  <2> QED
    BY <2>1, <2>2, <2>3, SpliceEntries, Zenon
<1> HIDE DEF r
<1>7. Spliced(n, c, e, j)
  <2>1. top(n) = top(e) /\ top(e) = p + Len(f)
    BY <1>4, <1>6, Zenon DEF top, p, f, Splices
  <2>2. \A k : EntryAt(n, k) = r[k - b] /\ EntryAt(c, k) = l[k - b] /\ EntryAt(e, k) = f[k - p]
    BY <1>1, <1>4, Zenon DEF EntryAt, p, f
  <2> QED
    BY <1>1, <1>4, <1>6, <2>1, <2>2, ZenonT(60) DEF Spliced, Splices
<1>8. j \in Spans(c) /\ e.base >= c.base /\ j >= e.base
  <2>1. e.base >= c.base /\ j >= e.base
    BY <1>1, <1>5, Zenon DEF p
  <2>2. j >= lastIncludedIndex[i]
    BY <1>1, <1>2, <1>5, OrderIs, Zenon DEF b
  <2> QED
    BY <1>5, <2>1, <2>2, InLog, Zenon DEF c
<1>9. j < top(e)
  BY <1>5, Zenon DEF top, p, f
<1>10. TermAt(c, j) = TermAt(e, j)
  BY <1>1, Zenon
<1>11. top(n) = top(e)
  BY <1>7, Zenon DEF Spliced
<1>12. IsChain(n) /\ Joined(n, c, e, j)
  BY <1>7, <1>8, <1>9, <1>10, JoinedChain, Zenon DEF c
<1> QED
  BY <1>11, <1>12, Zenon DEF c, JoinedToEnd

\* appendEntriesLocal leaves the log, or joins it and the entries of the call
\* before the first entry whose term differs.
LEMMA AppendLocal ==
    ASSUME LeastExists, NEW i, IsChain(LogChain(i)), NEW e, IsChain(e),
           e.base >= lastIncludedIndex[i],
           entryHasTerm(i, e.base, e.term), NEW n, n.base = lastIncludedIndex[i],
           n.term = lastIncludedTerm[i], n.entries = appendEntriesLocal(i, e.entries)
    PROVE  /\ \/ n.entries = log[i]
              \/ IsChain(n) /\ \E j \in Int : Joined(n, LogChain(i), e, j)
           /\ Overwrites(n, LogChain(i), e)
<1> DEFINE differ == {k \in DOMAIN e.entries :
                         ~entryHasTerm(i, e.entries[k].Index, e.entries[k].Term)}
           k == Min(differ)
           j == e.base + k - 1
<1>1. e.base \in Int /\ e.entries \in Seq(ChainEntry) /\ Len(e.entries) \in Nat
  BY DEF IsChain
<1>2. DOMAIN e.entries = 1 .. Len(e.entries)
  BY <1>1, SMTT(30)
<1>a. /\ \A x \in 1 .. Len(e.entries) : e.entries[x].Index = e.base + x
      /\ LogChain(i).base = lastIncludedIndex[i] /\ LogChain(i).term = lastIncludedTerm[i]
      /\ LogChain(i).entries = log[i]
  BY LogFacts, Zenon DEF IsChain
<1>b. ASSUME NEW x \in Spans(e), x # e.base => x - e.base \notin differ
      PROVE  HasTerm(LogChain(i), x, TermAt(e, x))
  <2>1. x \in Int /\ x >= e.base /\ x <= e.base + Len(e.entries)
    BY <1>1 DEF Spans, top
  <2>2. entryHasTerm(i, x, TermAt(e, x))
    <3>1. CASE x = e.base
      BY <3>1, Zenon DEF TermAt
    <3>2. CASE x # e.base
      <4>1. x - e.base \in 1 .. Len(e.entries) /\ e.base + (x - e.base) = x
        BY <1>1, <2>1, <3>2, SMTT(30)
      <4>2. e.entries[x - e.base].Index = x
        BY <1>a, <4>1, Zenon
      <4>3. entryHasTerm(i, e.entries[x - e.base].Index, e.entries[x - e.base].Term)
        BY <1>2, <1>b, <3>2, <4>1, Zenon
      <4> QED
        BY <3>2, <4>2, <4>3, Zenon DEF TermAt
    <3> QED
      BY <3>1, <3>2
  <2>3. x <= lastLogIndex(i) /\ logTerm(i, x) = TermAt(e, x)
    BY <2>2, Zenon DEF entryHasTerm
  <2>4. /\ lastIncludedIndex[i] \in Int /\ lastLogIndex(i) \in Int
        /\ Spans(LogChain(i)) = lastIncludedIndex[i] .. lastLogIndex(i)
        /\ TermAt(LogChain(i), x) = logTerm(i, x)
    BY LogFacts, Zenon
  <2>5. x \in lastIncludedIndex[i] .. lastLogIndex(i)
    BY <1>1, <2>1, <2>3, <2>4, SMTT(30)
  <2> QED
    BY <2>3, <2>4, <2>5, Zenon DEF HasTerm
<1>3. CASE differ = {}
  <2>1. n.entries = log[i]
    BY <1>3, Zenon DEF appendEntriesLocal
  <2>2. \A x \in Spans(e) : HasTerm(LogChain(i), x, TermAt(e, x))
    BY <1>3, <1>b, Zenon
  <2> QED
    BY <1>a, <2>1, <2>2, SameOverwrites, Zenon
<1>4. CASE differ # {}
  <2>1. k \in differ /\ \A x \in differ : k <= x
    <3>1. differ \in SUBSET Nat
      BY <1>2
    <3> HIDE DEF differ
    <3> QED
      BY <1>4, <3>1, MinOfNats, ZenonT(30)
  <2>2. k \in 1 .. Len(e.entries)
    BY <1>2, <2>1, Zenon
  <2>3. n.entries = logEntriesTo(i, e.entries[k].Index) \o SubSeq(e.entries, k, Len(e.entries))
    BY <1>4, Zenon DEF appendEntriesLocal
  <2>4. k > 1 => entryHasTerm(i, e.entries[k - 1].Index, e.entries[k - 1].Term)
    <3>1. SUFFICES ASSUME k > 1 PROVE k - 1 \notin differ /\ k - 1 \in DOMAIN e.entries
      BY ZenonT(30)
    <3>2. k - 1 \in 1 .. Len(e.entries) /\ ~(k <= k - 1)
      BY <2>2, <3>1, SMTT(30)
    <3> QED
      BY <1>2, <2>1, <3>2, Zenon
  <2>a. \A x \in Spans(e) : x <= j => HasTerm(LogChain(i), x, TermAt(e, x))
    <3> SUFFICES ASSUME NEW x \in Spans(e), x <= j, x - e.base \in differ PROVE FALSE
      BY <1>b, Zenon
    <3>1. k <= x - e.base
      BY <2>1, Zenon
    <3> HIDE DEF differ, k
    <3> QED
      BY <1>1, <2>2, <3>1 DEF Spans
  <2>b. ~entryHasTerm(i, e.entries[k].Index, e.entries[k].Term)
    BY <2>1, Zenon
  <2> HIDE DEF k, differ
  <2>5. j \in Int /\ j >= e.base /\ j < e.base + Len(e.entries) /\ j - e.base + 1 = k
    BY <1>1, <2>2, SMTT(30)
  <2>6. \A x \in 1 .. Len(e.entries) : e.entries[x].Index = e.base + x
    BY Zenon DEF IsChain
  <2>7. entryHasTerm(i, j, TermAt(e, j))
    <3>1. CASE k = 1
      <4>1. j = e.base
        BY <1>1, <3>1
      <4> QED
        BY <4>1, Zenon DEF TermAt
    <3>2. CASE k # 1
      <4>1. k > 1 /\ k - 1 \in 1 .. Len(e.entries) /\ e.base + (k - 1) = j
            /\ j - e.base = k - 1 /\ j # e.base
        BY <1>1, <2>2, <3>2
      <4>2. e.entries[k - 1].Index = j
        BY <2>6, <4>1, Zenon
      <4>3. TermAt(e, j) = e.entries[k - 1].Term
        BY <4>1, Zenon DEF TermAt
      <4> QED
        BY <2>4, <4>1, <4>2, <4>3, Zenon
    <3> QED
      BY <3>1, <3>2
  <2>8. e.entries[k].Index = e.base + k
    BY <2>2, <2>6, Zenon
  <2>9. n.entries = SubSeq(log[i], 1, j - lastIncludedIndex[i])
                       \o SubSeq(e.entries, j - e.base + 1, Len(e.entries))
    <3>1. e.entries[k].Index - (lastIncludedIndex[i] + 1) = j - lastIncludedIndex[i]
      <4>1. lastIncludedIndex[i] \in Int
        BY LogFacts
      <4>2. k \in Int /\ e.base \in Int
        BY <1>1, <2>2, SMTT(30)
      <4>3. (e.base + k) - (lastIncludedIndex[i] + 1) = (e.base + k - 1) - lastIncludedIndex[i]
        BY <4>1, <4>2
      <4> QED
        BY <2>8, <4>3, Zenon
    <3>2. logEntriesTo(i, e.entries[k].Index) = SubSeq(log[i], 1, j - lastIncludedIndex[i])
      BY <3>1, Zenon DEF logEntriesTo, baseIndex
    <3> QED
      BY <2>3, <2>5, <3>2, Zenon
  <2>10. j <= lastLogIndex(i) /\ logTerm(i, j) = TermAt(e, j)
    BY <2>7, Zenon DEF entryHasTerm
  <2>c. ~HasTerm(LogChain(i), j + 1, TermAt(e, j + 1))
    <3> SUFFICES ASSUME HasTerm(LogChain(i), j + 1, TermAt(e, j + 1)) PROVE FALSE
      OBVIOUS
    <3>1. j + 1 = e.base + k /\ j + 1 # e.base /\ (j + 1) - e.base = k
      BY <1>1, <2>2
    <3>2. TermAt(e, j + 1) = e.entries[k].Term /\ e.entries[k].Index = j + 1
      BY <2>8, <3>1, Zenon DEF TermAt
    <3>3. /\ lastIncludedIndex[i] \in Int /\ lastLogIndex(i) \in Int
          /\ Spans(LogChain(i)) = lastIncludedIndex[i] .. lastLogIndex(i)
          /\ TermAt(LogChain(i), j + 1) = logTerm(i, j + 1)
      BY LogFacts, Zenon
    <3> HIDE DEF j
    <3>4. j + 1 <= lastLogIndex(i)
      BY <3>3 DEF HasTerm
    <3> QED
      BY <2>b, <3>2, <3>3, <3>4, ZenonT(30) DEF HasTerm, entryHasTerm
  <2> HIDE DEF j
  <2>11. IsChain(n) /\ JoinedToEnd(n, LogChain(i), e, j)
    BY <1>1, <2>5, <2>9, <2>10, AppendJoined, Zenon
  <2>12. j < top(e) /\ e.base >= LogChain(i).base /\ n.base = LogChain(i).base
    BY <1>a, <2>5 DEF top
  <2>13. Overwrites(n, LogChain(i), e)
    BY <2>5, <2>11, <2>12, <2>a, <2>c, JoinedOverwrites, Zenon
  <2> QED
    BY <2>5, <2>11, <2>13, Zenon DEF JoinedToEnd
<1> QED
  BY <1>3, <1>4, Zenon

\* One entry more, as Start appends it.
LEMMA MoreChain ==
    ASSUME NEW c, IsChain(c), NEW x \in ChainEntry, x.Index = top(c) + 1, NEW n,
           n.base = c.base, n.term = c.term, n.entries = Append(c.entries, x)
    PROVE  /\ IsChain(n) /\ top(n) = top(c) + 1 /\ TermAt(n, top(n)) = x.Term
           /\ \A k \in Spans(n) : k < top(c) + 1 => PartAt(n, c, k)
<1>1. /\ c.base \in Int /\ c.base >= -1 /\ c.entries \in Seq(ChainEntry) /\ Len(c.entries) \in Nat
      /\ \A k \in 1 .. Len(c.entries) : c.entries[k].Index = c.base + k
  BY SMTT(30) DEF IsChain
<1>2. /\ n.entries \in Seq(ChainEntry) /\ Len(n.entries) = Len(c.entries) + 1
      /\ \A k \in 1 .. Len(c.entries) : n.entries[k] = c.entries[k]
      /\ n.entries[Len(c.entries) + 1] = x
  BY <1>1
<1>3. top(n) = top(c) + 1 /\ top(n) \in Int /\ top(c) = c.base + Len(c.entries)
  BY <1>1, <1>2, SMTT(30) DEF top
<1>4. ASSUME NEW k \in 1 .. Len(n.entries) PROVE n.entries[k].Index = n.base + k
  <2>1. CASE k \in 1 .. Len(c.entries)
    BY <1>1, <1>2, <2>1, Zenon
  <2>2. CASE k = Len(c.entries) + 1
    <3>1. x.Index = c.base + (Len(c.entries) + 1)
      BY <1>1, <1>3, SMTT(30)
    <3> QED
      BY <1>2, <2>2, <3>1, Zenon
  <2> QED
    BY <1>1, <1>2, <2>1, <2>2
<1>5. IsChain(n)
  BY <1>2, <1>4, Zenon DEF IsChain
<1>6. TermAt(n, top(n)) = x.Term
  <2>1. top(n) # n.base /\ top(n) - n.base = Len(c.entries) + 1
    BY <1>1, <1>3, SMTT(30)
  <2> QED
    BY <1>2, <2>1, Zenon DEF TermAt
<1>7. ASSUME NEW k \in Spans(n), k < top(c) + 1 PROVE PartAt(n, c, k)
  <2>1. k \in Int /\ c.base <= k /\ k <= top(c)
    BY <1>1, <1>3, <1>7, SMTT(30) DEF Spans
  <2>2. k \in Spans(c)
    BY <1>1, <1>3, <2>1 DEF Spans
  <2>3. CASE k = c.base
    <3>1. TermAt(n, k) = TermAt(c, k) /\ ~(k > n.base)
      BY <1>1, <2>3 DEF TermAt
    <3> QED
      BY <2>2, <3>1, Zenon DEF PartAt
  <2>4. CASE k # c.base
    <3>1. k - c.base \in 1 .. Len(c.entries) /\ k > c.base
      BY <1>1, <1>3, <2>1, <2>4, SMTT(30)
    <3>2. EntryAt(n, k) = EntryAt(c, k)
      <4>1. n.entries[k - c.base] = c.entries[k - c.base]
        BY <1>2, <3>1
      <4> QED
        BY <4>1 DEF EntryAt
    <3>3. TermAt(n, k) = TermAt(c, k)
      BY <2>4, <3>2, Zenon DEF EntryAt, TermAt
    <3> QED
      BY <2>2, <3>1, <3>2, <3>3, Zenon DEF PartAt
  <2> QED
    BY <2>3, <2>4, Zenon
<1> QED
  BY <1>3, <1>5, <1>6, <1>7, Zenon

-----------------------------------------------------------------------------
(* Which steps change logs or send entries.                                *)

LogsSame == \A k \in Server : LogChain(k)' = LogChain(k)

OthersSame(except) == \A k \in Server \ {except} : LogChain(k)' = LogChain(k)

IsCall(m) == m.type \in {"AppendEntries", "InstallSnapshot"}

NoNewCall == \A m \in net' : IsCall(m) => m \in net

\* Elections, commitment and the service change no log and send no entries.
LEMMA QuietPeer ==
    ASSUME DiskInv, NEW i \in Server,
           \/ election(i) \/ becomeLeader(i) \/ advanceCommitIndex(i) \/ apply(i)
           \/ serviceReceive(i)
    PROVE  LogsSame /\ NoNewCall
<1>1. UNCHANGED logVars
  BY ZenonT(60) DEF election, becomeLeader, advanceCommitIndex, apply, serviceReceive
<1>2. LogsSame
  BY <1>1, ZenonT(30) DEF logVars, LogsSame, LogChain
<1>3. CASE election(i)
  <2>1. \A j : RequestVoteArgs(i, j).type = "RequestVote"
    BY Zenon DEF RequestVoteArgs
  <2>2. \A r \in net' : r \in net \/ \E j : r = RequestVoteArgs(i, j)
    BY <1>3, ZenonT(30) DEF election, Send
  <2> QED
    BY <1>2, <2>1, <2>2, ZenonT(30) DEF NoNewCall, IsCall
<1>4. CASE becomeLeader(i) \/ advanceCommitIndex(i) \/ apply(i) \/ serviceReceive(i)
  <2>1. UNCHANGED net
    BY <1>4, ZenonT(60) DEF becomeLeader, advanceCommitIndex, apply, serviceReceive
  <2> QED
    BY <1>2, <2>1, Zenon DEF NoNewCall
<1> QED
  BY <1>3, <1>4

\* A restart reads the log from the disk, where it is as it was in memory.
LEMMA QuietRestart ==
    ASSUME DiskInv, NEW i \in Server, NEW stoppedOn, NEW t, Make(i, stoppedOn, t)
    PROVE  LogsSame /\ NoNewCall
<1>1. NoNewCall
  BY Zenon DEF Make, NoNewCall
<1>2. persisted[i] = PersistentState(i)
  BY ZenonT(30) DEF DiskInv, PersistedCurrent
<1>3. /\ Saved(i, t).log = log[i] /\ Saved(i, t).lastIncludedIndex = lastIncludedIndex[i]
      /\ Saved(i, t).lastIncludedTerm = lastIncludedTerm[i]
  <2>1. /\ Saved(i, t).log = persisted[i].log
        /\ Saved(i, t).lastIncludedIndex = persisted[i].lastIncludedIndex
        /\ Saved(i, t).lastIncludedTerm = persisted[i].lastIncludedTerm
    BY Zenon DEF Saved
  <2>2. /\ PersistentState(i).log = log[i]
        /\ PersistentState(i).lastIncludedIndex = lastIncludedIndex[i]
        /\ PersistentState(i).lastIncludedTerm = lastIncludedTerm[i]
    BY Zenon DEF PersistentState
  <2> QED
    BY <1>2, <2>1, <2>2, Zenon
<1>4. /\ log' = [log EXCEPT ![i] = Saved(i, t).log]
      /\ lastIncludedIndex' = [lastIncludedIndex EXCEPT ![i] = Saved(i, t).lastIncludedIndex]
      /\ lastIncludedTerm' = [lastIncludedTerm EXCEPT ![i] = Saved(i, t).lastIncludedTerm]
  BY Zenon DEF Make
<1>5. /\ DOMAIN log = Server /\ DOMAIN lastIncludedIndex = Server
      /\ DOMAIN lastIncludedTerm = Server
  BY DEF DiskInv, PersistentDomains
<1>6. \A k \in Server : /\ log'[k] = log[k] /\ lastIncludedIndex'[k] = lastIncludedIndex[k]
                        /\ lastIncludedTerm'[k] = lastIncludedTerm[k]
  BY <1>3, <1>4, <1>5, Zenon
<1> QED
  BY <1>1, <1>6, Zenon DEF LogsSame, LogChain

\* Handlers send replies, never calls.
LEMMA QuietHandler ==
    ASSUME DiskInv, NEW m \in net,
           \/ RequestVote(m) \/ requestVoteReply(m) \/ AppendEntries(m)
           \/ handleAppendReply(m) \/ InstallSnapshot(m) \/ installSnapshotReply(m)
           \/ LoseMessage(m)
    PROVE  NoNewCall
<1>1. CASE requestVoteReply(m) \/ handleAppendReply(m) \/ installSnapshotReply(m)
           \/ LoseMessage(m)
  BY <1>1, ZenonT(60) DEF requestVoteReply, handleAppendReply, installSnapshotReply,
     LoseMessage, Consume, NoNewCall
<1>2. ASSUME NEW r, Reply(m, r), ~IsCall(r) PROVE NoNewCall
  BY <1>2, ZenonT(60) DEF Reply, NoNewCall
<1>3. CASE RequestVote(m)
  BY <1>2, <1>3 DEF RequestVote, IsCall
<1>4. CASE AppendEntries(m)
  <2>1. \A b, info : ~IsCall(AppendEntriesReply(m, b, info))
    BY DEF AppendEntriesReply, IsCall
  <2> QED
    BY <1>2, <1>4, <2>1, ZenonT(60) DEF AppendEntries
<1>5. CASE InstallSnapshot(m)
  BY <1>2, <1>5, Zenon DEF InstallSnapshot, IsCall
<1> QED
  BY <1>1, <1>3, <1>4, <1>5

\* A step changes a log by Start, by Snapshot, or when AppendEntries or
\* InstallSnapshot finds something new, and only appendMissingEntries calls.
LEMMA LogStep ==
    ASSUME DiskInv, [Next]_vars
    PROVE  \/ LogsSame /\ NoNewCall
           \/ \E i \in Server : Start(i)
           \/ \E i \in Server : Snapshot(i)
           \/ \E i \in Server : \E j \in Server \ {i} : appendMissingEntries(i, j)
           \/ \E m \in net : Appends(m) /\ NoNewCall
           \/ \E m \in net : InstallSnapshot(m) /\ snapshotIsNew(m) /\ NoNewCall
<1>1. CASE UNCHANGED vars
  BY <1>1, Zenon DEF vars, logVars, LogsSame, LogChain, NoNewCall
<1>2. ASSUME NEW m \in net,
             \/ RequestVote(m) \/ requestVoteReply(m) \/ handleAppendReply(m)
             \/ installSnapshotReply(m) \/ LoseMessage(m)
      PROVE  LogsSame /\ NoNewCall
  <2>1. UNCHANGED logVars
    BY <1>2, ZenonT(60) DEF RequestVote, requestVoteReply, handleAppendReply,
       installSnapshotReply, LoseMessage
  <2>2. LogsSame
    BY <2>1, Zenon DEF logVars, LogsSame, LogChain
  <2> QED
    BY <1>2, <2>2, QuietHandler, Zenon
<1>3. ASSUME NEW m \in net, AppendEntries(m), ~Appends(m) PROVE LogsSame /\ NoNewCall
  <2>1. UNCHANGED <<log, lastIncludedIndex, lastIncludedTerm>>
    BY <1>3, ZenonT(60) DEF AppendEntries, Appends
  <2>2. LogsSame
    BY <2>1, Zenon DEF LogsSame, LogChain
  <2> QED
    BY <1>3, <2>2, QuietHandler, Zenon
<1>4. ASSUME NEW m \in net, InstallSnapshot(m), ~snapshotIsNew(m) PROVE LogsSame /\ NoNewCall
  <2>1. UNCHANGED logVars
    BY <1>4, ZenonT(60) DEF InstallSnapshot
  <2>2. LogsSame
    BY <2>1, Zenon DEF logVars, LogsSame, LogChain
  <2> QED
    BY <1>4, <2>2, QuietHandler, Zenon
<1>5. ASSUME NEW m \in net, AppendEntries(m) \/ InstallSnapshot(m) PROVE NoNewCall
  BY <1>5, QuietHandler, Zenon
<1>6. \A m \in net : m.dst \in Server
  BY DEF DiskInv, ElectionTypeOK, MessageOK
<1> QED
  BY <1>1, <1>2, <1>3, <1>4, <1>5, <1>6, QuietPeer, QuietRestart, ZenonT(60)
     DEF Next, ticker, appendMissingEntriesOnAll

\* n is a chain there was, or made of those.
Made(n) ==
    \/ n \in Chains
    \/ \E c \in Chains : Segment(n, c)
    \/ \E c, e \in Chains : \E j \in Int : Joined(n, c, e, j)

\* A chain after a step is a log or part of a call.
LEMMA NewChains ==
    ASSUME NEW n \in Chains'
    PROVE  \/ \E k \in Server : n = LogChain(k)'
           \/ \E m \in net' : HasChain(m) /\ n = CallChain(m)
  BY DEF Chains, HasChain, CallChain

\* The chains of peers and calls.
LEMMA AreChains ==
    /\ \A k \in Server : LogChain(k) \in Chains
    /\ \A m \in net : HasChain(m) => CallChain(m) \in Chains
    /\ \A m : HasChain(m) => IsCall(m)
<1>1. /\ \A k \in Server : LogChain(k) \in Chains
      /\ \A m \in net : HasChain(m) => CallChain(m) \in Chains
  BY Zenon DEF Chains
<1>2. \A m : HasChain(m) => IsCall(m)
  BY DEF HasChain, IsCall
<1> QED
  BY <1>1, <1>2

\* A step that changes no log and sends no call makes no chain.
LEMMA NoNewChain ==
    ASSUME LogsSame, NoNewCall, NEW n \in Chains'
    PROVE  n \in Chains
  BY NewChains, AreChains, Zenon DEF LogsSame, NoNewCall

\* A step that changes one log makes at most its chain.
LEMMA OneNewLog ==
    ASSUME NEW i, OthersSame(i), NoNewCall, NEW n \in Chains'
    PROVE  n \in Chains \/ n = LogChain(i)'
<1>1. CASE \E m \in net' : HasChain(m) /\ n = CallChain(m)
  BY <1>1, AreChains, Zenon DEF NoNewCall
<1>2. CASE \E k \in Server : n = LogChain(k)'
  <2>1. PICK k \in Server : n = LogChain(k)'
    BY <1>2, Zenon
  <2>2. CASE k = i
    BY <2>1, <2>2
  <2>3. CASE k # i
    BY <2>1, <2>3, AreChains, Zenon DEF OthersSame
  <2> QED
    BY <2>2, <2>3, Zenon
<1> QED
  BY <1>1, <1>2, NewChains, Zenon

\* trim and logEntries, without baseIndex.
LEMMA TrimIs ==
    ASSUME NEW i, lastIncludedIndex[i] \in Int, NEW index \in Int
    PROVE  /\ trim(i, index) = SubSeq(log[i], index - lastIncludedIndex[i] + 1, Len(log[i]))
           /\ logEntries(i, index + 1) = SubSeq(log[i], index - lastIncludedIndex[i] + 1, Len(log[i]))
<1>1. /\ index - (lastIncludedIndex[i] + 1) + 1 + 1 = index - lastIncludedIndex[i] + 1
      /\ (index + 1) - (lastIncludedIndex[i] + 1) + 1 = index - lastIncludedIndex[i] + 1
  OBVIOUS
<1> QED
  BY <1>1, Zenon DEF trim, logEntries, baseIndex

\* What Snapshot leaves of a log is part of it and ends where it ended.
LEMMA SnapshotChain ==
    ASSUME DiskInv, ServiceInv, NEW i \in Server, IsChain(LogChain(i)), Snapshot(i)
    PROVE  /\ OthersSame(i) /\ NoNewCall
           /\ IsChain(LogChain(i)') /\ Segment(LogChain(i)', LogChain(i))
           /\ top(LogChain(i)') = top(LogChain(i))
<1> DEFINE index == Len(service[i]) - 1
<1>1. NoNewCall
  BY Zenon DEF Snapshot, NoNewCall
<1>2. /\ log' = [log EXCEPT ![i] = trim(i, index)]
      /\ lastIncludedIndex' = [lastIncludedIndex EXCEPT ![i] = index]
      /\ lastIncludedTerm' = [lastIncludedTerm EXCEPT ![i] = logTerm(i, index)]
      /\ lastIncludedIndex[i] < index /\ index <= lastLogIndex(i)
  BY Zenon DEF Snapshot
<1>3. /\ DOMAIN log = Server /\ DOMAIN lastIncludedIndex = Server
      /\ DOMAIN lastIncludedTerm = Server
  BY DEF DiskInv, PersistentDomains
<1>4. index \in Int
  <2>1. IsSequence(service[i])
    BY DEF ServiceInv
  <2> QED
    BY <2>1 DEF IsSequence
<1> HIDE DEF index
<1>5. /\ log'[i] = trim(i, index) /\ lastIncludedIndex'[i] = index
      /\ lastIncludedTerm'[i] = logTerm(i, index)
      /\ \A k \in Server \ {i} : /\ log'[k] = log[k] /\ lastIncludedIndex'[k] = lastIncludedIndex[k]
                                 /\ lastIncludedTerm'[k] = lastIncludedTerm[k]
  BY <1>2, <1>3
<1>6. OthersSame(i)
  BY <1>5, Zenon DEF OthersSame, LogChain
<1>7. index \in Spans(LogChain(i))
  BY <1>2, <1>4, LogFacts, SMTT(30)
<1>8. /\ LogChain(i)'.base = index /\ LogChain(i)'.term = TermAt(LogChain(i), index)
      /\ LogChain(i)'.entries = SubSeq(LogChain(i).entries, index - LogChain(i).base + 1,
                                       Len(LogChain(i).entries))
  <2>1. LogChain(i)' = [base |-> index, term |-> logTerm(i, index), entries |-> trim(i, index)]
    BY <1>5, Zenon DEF LogChain
  <2>2. /\ LogChain(i)'.base = index /\ LogChain(i)'.term = logTerm(i, index)
        /\ LogChain(i)'.entries = trim(i, index)
    BY <2>1
  <2>3. /\ LogChain(i).entries = log[i] /\ LogChain(i).base = lastIncludedIndex[i]
        /\ TermAt(LogChain(i), index) = logTerm(i, index)
    BY LogFacts, Zenon
  <2>4. trim(i, index) = SubSeq(log[i], index - lastIncludedIndex[i] + 1, Len(log[i]))
    BY <1>4, LogFacts, TrimIs, Zenon
  <2> QED
    BY <2>2, <2>3, <2>4, Zenon
<1> QED
  BY <1>1, <1>6, <1>7, <1>8, SuffixChain, Zenon

\* InstallSnapshot leaves part of the log, or what the call says.
LEMMA InstallChain ==
    ASSUME DiskInv, NEW m \in net, IsChain(LogChain(m.dst)), IsChain(CallChain(m)),
           InstallSnapshot(m), snapshotIsNew(m)
    PROVE  /\ OthersSame(m.dst)
           /\ \/ IsChain(LogChain(m.dst)') /\ Segment(LogChain(m.dst)', LogChain(m.dst))
              \/ LogChain(m.dst)' = CallChain(m)
<1> DEFINE i == m.dst
           last == m.LastIncludedIndex
           kept == IF entryHasTerm(i, last, m.LastIncludedTerm) THEN trim(i, last) ELSE <<>>
<1>1. /\ log' = [log EXCEPT ![i] = kept]
      /\ lastIncludedIndex' = [lastIncludedIndex EXCEPT ![i] = last]
      /\ lastIncludedTerm' = [lastIncludedTerm EXCEPT ![i] = m.LastIncludedTerm]
      /\ last > lastIncludedIndex[i] /\ m.type = "InstallSnapshot"
  BY Zenon DEF InstallSnapshot, snapshotIsNew
<1>2. /\ DOMAIN log = Server /\ DOMAIN lastIncludedIndex = Server
      /\ DOMAIN lastIncludedTerm = Server
  BY Zenon DEF DiskInv, PersistentDomains
<1>3. CallChain(m) = [base |-> last, term |-> m.LastIncludedTerm, entries |-> <<>>]
  BY <1>1, Zenon DEF CallChain
<1>4. last \in Int
  <2>1. CallChain(m).base = last
    BY <1>1, Zenon DEF CallChain
  <2> QED
    BY <2>1, ChainNumbers, Zenon
<1>5. i \in Server
  BY Zenon DEF DiskInv, ElectionTypeOK, MessageOK
<1> HIDE DEF i, last, kept
<1>6. /\ log'[i] = kept /\ lastIncludedIndex'[i] = last
      /\ lastIncludedTerm'[i] = m.LastIncludedTerm
      /\ \A k \in Server \ {i} : /\ log'[k] = log[k] /\ lastIncludedIndex'[k] = lastIncludedIndex[k]
                                 /\ lastIncludedTerm'[k] = lastIncludedTerm[k]
  BY <1>1, <1>2, <1>5, Zenon
<1>7. OthersSame(i)
  BY <1>6, Zenon DEF OthersSame, LogChain
<1>8. LogChain(i)' = [base |-> last, term |-> m.LastIncludedTerm, entries |-> kept]
  BY <1>6, Zenon DEF LogChain
<1>9. CASE entryHasTerm(i, last, m.LastIncludedTerm)
  <2>1. last <= lastLogIndex(i) /\ logTerm(i, last) = m.LastIncludedTerm
    BY <1>9, Zenon DEF entryHasTerm
  <2>2. IsChain(LogChain(i))
    BY Zenon DEF i
  <2>3. last \in Spans(LogChain(i))
    <3>1. last >= lastIncludedIndex[i]
      BY <1>1, <1>4, <2>2, LogFacts, MoreIs, Zenon
    <3> QED
      BY <1>4, <2>1, <2>2, <3>1, InLog, Zenon
  <2>4. /\ LogChain(i).entries = log[i] /\ LogChain(i).base = lastIncludedIndex[i]
        /\ TermAt(LogChain(i), last) = logTerm(i, last)
    BY <2>2, LogFacts, Zenon
  <2>5. trim(i, last) = SubSeq(log[i], last - lastIncludedIndex[i] + 1, Len(log[i]))
    BY <1>4, <2>2, LogFacts, TrimIs, Zenon
  <2>6. /\ LogChain(i)'.base = last /\ LogChain(i)'.term = m.LastIncludedTerm
        /\ LogChain(i)'.entries = kept
    BY <1>8
  <2>7. kept = trim(i, last)
    BY <1>9, Zenon DEF kept
  <2>8. /\ LogChain(i)'.base = last /\ LogChain(i)'.term = TermAt(LogChain(i), last)
        /\ LogChain(i)'.entries = SubSeq(LogChain(i).entries, last - LogChain(i).base + 1,
                                         Len(LogChain(i).entries))
    BY <2>1, <2>4, <2>5, <2>6, <2>7, Zenon
  <2>9. IsChain(LogChain(i)') /\ Segment(LogChain(i)', LogChain(i))
    BY <2>2, <2>3, <2>8, SuffixChain, Zenon
  <2> QED
    BY <1>7, <2>9, Zenon DEF i
<1>10. CASE ~entryHasTerm(i, last, m.LastIncludedTerm)
  <2>1. kept = <<>>
    BY <1>10, Zenon DEF kept
  <2> QED
    BY <1>3, <1>7, <1>8, <2>1, Zenon DEF i
<1> QED
  BY <1>9, <1>10

\* AppendEntries leaves the log, or joins it and the entries of the call.
LEMMA AppendChain ==
    ASSUME LeastExists, DiskInv, NEW m \in net, IsChain(LogChain(m.dst)),
           HasChain(m) => IsChain(CallChain(m)), Appends(m)
    PROVE  /\ OthersSame(m.dst)
           /\ \/ LogChain(m.dst)' = LogChain(m.dst)
              \/ /\ HasChain(m) /\ IsChain(LogChain(m.dst)')
                 /\ \E j \in Int : Joined(LogChain(m.dst)', LogChain(m.dst), CallChain(m), j)
<1> DEFINE i == m.dst
           new == appendEntriesLocal(i, m.Entries)
<1>1. /\ log' = [log EXCEPT ![i] = new] /\ UNCHANGED <<lastIncludedIndex, lastIncludedTerm>>
      /\ m.type = "AppendEntries" /\ m.PrevLogIndex >= lastIncludedIndex[i]
      /\ entryHasTerm(i, m.PrevLogIndex, m.PrevLogTerm)
  BY ZenonT(60) DEF Appends, AppendEntries, appendMatches
<1>2. DOMAIN log = Server /\ i \in Server
  BY DEF DiskInv, PersistentDomains, ElectionTypeOK, MessageOK
<1> HIDE DEF i, new
<1>3. log'[i] = new /\ \A k \in Server \ {i} : log'[k] = log[k]
  BY <1>1, <1>2
<1>4. OthersSame(i)
  BY <1>1, <1>3, Zenon DEF OthersSame, LogChain
<1>5. LogChain(i)' = [base |-> lastIncludedIndex[i], term |-> lastIncludedTerm[i], entries |-> new]
  BY <1>1, <1>3, Zenon DEF LogChain
<1>6. CASE new = log[i]
  BY <1>4, <1>5, <1>6, Zenon DEF LogChain, i
<1>7. CASE new # log[i]
  <2>1. m.Entries # <<>>
    <3>1. SUFFICES ASSUME m.Entries = <<>> PROVE new = log[i]
      BY <1>7, Zenon
    <3>2. DOMAIN m.Entries = {}
      BY <3>1
    <3> QED
      BY <3>2, Zenon DEF new, appendEntriesLocal
  <2>2. HasChain(m) /\ IsChain(CallChain(m))
    BY <1>1, <2>1, Zenon DEF HasChain
  <2>3. CallChain(m) = [base |-> m.PrevLogIndex, term |-> m.PrevLogTerm, entries |-> m.Entries]
    BY <1>1, Zenon DEF CallChain
  <2>4. /\ CallChain(m).base = m.PrevLogIndex /\ CallChain(m).term = m.PrevLogTerm
        /\ CallChain(m).entries = m.Entries
    BY <1>1, ZenonT(30) DEF CallChain
  <2>5. /\ LogChain(i)'.base = lastIncludedIndex[i] /\ LogChain(i)'.term = lastIncludedTerm[i]
        /\ LogChain(i)'.entries = new
    BY <1>5
  <2>6. IsChain(LogChain(i)) /\ new = appendEntriesLocal(i, CallChain(m).entries)
    BY <2>4, Zenon DEF i, new
  <2>7. /\ CallChain(m).base >= lastIncludedIndex[i]
        /\ entryHasTerm(i, CallChain(m).base, CallChain(m).term)
    BY <1>1, <2>4, Zenon
  <2>8. \/ LogChain(i)'.entries = log[i]
        \/ /\ IsChain(LogChain(i)')
           /\ \E j \in Int : Joined(LogChain(i)', LogChain(i), CallChain(m), j)
    BY <2>2, <2>5, <2>6, <2>7, AppendLocal, Zenon
  <2> QED
    BY <1>4, <1>7, <2>2, <2>5, <2>8, Zenon DEF i
<1> QED
  BY <1>6, <1>7

\* A call with entries: they are part of the caller's log, or there are none.
LEMMA AppendEntriesChain ==
    ASSUME NEW i \in Server, NEW j \in Server, IsChain(LogChain(i)), nextIndex[i][j] \in Nat,
           nextIndex[i][j] - 1 >= lastIncludedIndex[i], NEW a, a = AppendEntriesArgs(i, j)
    PROVE  /\ CallOK(a)
           /\ HasChain(a) => IsChain(CallChain(a)) /\ Segment(CallChain(a), LogChain(i))
           /\ nextIndex[i][j] <= lastLogIndex(i) + 1 =>
                 /\ IsChain(CallChain(a)) /\ Segment(CallChain(a), LogChain(i))
                 /\ top(CallChain(a)) = top(LogChain(i))
<1> DEFINE prev == nextIndex[i][j] - 1
<1>1. /\ a.type = "AppendEntries" /\ a.PrevLogIndex = prev /\ a.PrevLogTerm = logTerm(i, prev)
      /\ a.Entries = logEntries(i, prev + 1)
  BY Zenon DEF AppendEntriesArgs
<1>2. prev \in Int /\ prev >= -1 /\ prev >= lastIncludedIndex[i]
  BY IndexBefore, ZenonT(30)
<1>a. nextIndex[i][j] <= lastLogIndex(i) + 1 => prev <= lastLogIndex(i)
  <2>1. lastLogIndex(i) \in Int
    BY LogFacts, Zenon
  <2> QED
    BY <2>1, IndexBeforeEnd, Zenon
<1> HIDE DEF prev
<1>3. /\ lastIncludedIndex[i] \in Int /\ lastIncludedIndex[i] >= -1 /\ log[i] \in Seq(ChainEntry)
      /\ (lastIncludedIndex[i] = -1 => lastIncludedTerm[i] = 0)
      /\ LogChain(i).entries = log[i] /\ LogChain(i).base = lastIncludedIndex[i]
      /\ TermAt(LogChain(i), prev) = logTerm(i, prev) /\ Len(log[i]) \in Nat
      /\ Spans(LogChain(i)) = lastIncludedIndex[i] .. lastLogIndex(i)
  BY LogFacts, Zenon
<1>4. a.Entries = SubSeq(log[i], prev - lastIncludedIndex[i] + 1, Len(log[i]))
  <2>1. logEntries(i, prev + 1) = SubSeq(log[i], prev - lastIncludedIndex[i] + 1, Len(log[i]))
    BY <1>2, <1>3, TrimIs, Zenon
  <2> QED
    BY <1>1, <2>1, Zenon
<1>5. prev = -1 => logTerm(i, prev) = 0
  <2>1. prev = -1 => lastIncludedIndex[i] = -1
    BY <1>2, <1>3
  <2> QED
    BY <1>3, <2>1, Zenon DEF logTerm
<1>7. CASE prev <= lastLogIndex(i)
  <2>1. prev \in Spans(LogChain(i))
    BY <1>2, <1>7, InLog, Zenon
  <2>2. /\ CallChain(a).base = prev /\ CallChain(a).term = logTerm(i, prev)
        /\ CallChain(a).entries = a.Entries
    BY <1>1, ZenonT(30) DEF CallChain
  <2>3. /\ CallChain(a).base = prev /\ CallChain(a).term = TermAt(LogChain(i), prev)
        /\ CallChain(a).entries = SubSeq(LogChain(i).entries, prev - LogChain(i).base + 1,
                                         Len(LogChain(i).entries))
    BY <1>3, <1>4, <2>2, Zenon
  <2>4. /\ IsChain(CallChain(a)) /\ Segment(CallChain(a), LogChain(i))
        /\ top(CallChain(a)) = top(LogChain(i))
    BY <2>1, <2>3, SuffixChain, Zenon
  <2>5. a.Entries \in Seq(ChainEntry)
    BY <2>2, <2>4, Zenon DEF IsChain
  <2> QED
    BY <1>1, <1>2, <1>5, <2>4, <2>5, Zenon DEF CallOK
<1>8. CASE ~(prev <= lastLogIndex(i))
  <2>1. prev - lastIncludedIndex[i] + 1 > Len(log[i]) /\ prev - lastIncludedIndex[i] + 1 \in Int
    BY <1>2, <1>3, <1>8, SMTT(30) DEF lastLogIndex, baseIndex
  <2>2. SubSeq(log[i], prev - lastIncludedIndex[i] + 1, Len(log[i])) = <<>>
    BY <1>3, <2>1, EmptyPart, Zenon
  <2>3. a.Entries = <<>>
    BY <1>4, <2>2, Zenon
  <2>4. ~HasChain(a) /\ a.Entries \in Seq(ChainEntry)
    BY <1>1, <2>3, NoEntries, ZenonT(30) DEF HasChain
  <2> QED
    BY <1>1, <1>2, <1>5, <1>8, <1>a, <2>4, ZenonT(30) DEF CallOK
<1> QED
  BY <1>7, <1>8, Zenon

\* What appendMissingEntries sends.
NewCall(a, i, j) ==
    /\ net' = net \cup {a} /\ IsCall(a)
    /\ a.src = i /\ a.dst = j /\ a.Term = currentTerm[i]
    /\ a.type = "AppendEntries" => CallOK(a)
    /\ HasChain(a) => IsChain(CallChain(a)) /\ Segment(CallChain(a), LogChain(i))

\* appendMissingEntries sends part of the caller's log.
LEMMA SendChain ==
    ASSUME NEW i \in Server, NEW j \in Server, IsChain(LogChain(i)), nextIndex[i][j] \in Nat,
           appendMissingEntries(i, j)
    PROVE  LogsSame /\ \E a : NewCall(a, i, j)
<1>1. LogsSame
  BY Zenon DEF appendMissingEntries, logVars, LogsSame, LogChain
<1>2. lastIncludedIndex[i] \in Int
  BY LogFacts, Zenon
<1>3. CASE nextIndex[i][j] - 1 < lastIncludedIndex[i]
  <2> DEFINE a == InstallSnapshotArgs(i, j)
  <2>1. net' = net \cup {a}
    BY <1>3, Zenon DEF appendMissingEntries, Send
  <2>2. /\ a.type = "InstallSnapshot" /\ a.src = i /\ a.dst = j /\ a.Term = currentTerm[i]
        /\ a.LastIncludedIndex = lastIncludedIndex[i] /\ a.LastIncludedTerm = lastIncludedTerm[i]
    BY Zenon DEF InstallSnapshotArgs
  <2> HIDE DEF a
  <2>3. /\ CallChain(a).base = lastIncludedIndex[i] /\ CallChain(a).term = lastIncludedTerm[i]
        /\ CallChain(a).entries = <<>>
    BY <2>2, ZenonT(30) DEF CallChain
  <2>4. /\ lastIncludedIndex[i] \in Spans(LogChain(i))
        /\ TermAt(LogChain(i), lastIncludedIndex[i]) = lastIncludedTerm[i]
    <3>1. TermAt(LogChain(i), lastIncludedIndex[i]) = lastIncludedTerm[i]
      BY LogFacts, Zenon DEF logTerm
    <3>2. lastIncludedIndex[i] \in Spans(LogChain(i))
      BY LogFacts
    <3> QED
      BY <3>1, <3>2
  <2>5. IsChain(CallChain(a)) /\ Segment(CallChain(a), LogChain(i))
    BY <2>3, <2>4, BaseChain, Zenon
  <2>6. IsCall(a) /\ a.type # "AppendEntries"
    BY <2>2 DEF IsCall
  <2>7. NewCall(a, i, j)
    BY <2>1, <2>2, <2>5, <2>6, Zenon DEF NewCall
  <2> QED
    BY <1>1, <2>7, Zenon
<1>4. CASE ~(nextIndex[i][j] - 1 < lastIncludedIndex[i])
  <2> DEFINE a == AppendEntriesArgs(i, j)
  <2>1. net' = net \cup {a}
    BY <1>4, Zenon DEF appendMissingEntries, Send
  <2>2. a.type = "AppendEntries" /\ a.src = i /\ a.dst = j /\ a.Term = currentTerm[i]
    BY Zenon DEF AppendEntriesArgs
  <2>3. nextIndex[i][j] - 1 >= lastIncludedIndex[i]
    BY <1>2, <1>4
  <2>4. CallOK(a) /\ (HasChain(a) => IsChain(CallChain(a)) /\ Segment(CallChain(a), LogChain(i)))
    BY <2>3, AppendEntriesChain, Zenon
  <2> HIDE DEF a
  <2>5. IsCall(a)
    BY <2>2 DEF IsCall
  <2>6. NewCall(a, i, j)
    BY <2>1, <2>2, <2>4, <2>5, Zenon DEF NewCall
  <2> QED
    BY <1>1, <2>6, Zenon
<1> QED
  BY <1>3, <1>4

\* Start appends one entry of the leader's term.
LEMMA StartChain ==
    ASSUME DiskInv, starts \in Nat, NEW i \in Server, IsChain(LogChain(i)), Start(i)
    PROVE  /\ OthersSame(i) /\ NoNewCall /\ IsChain(LogChain(i)')
           /\ state[i] = "LEADER" /\ UNCHANGED termVars
           /\ top(LogChain(i)') = top(LogChain(i)) + 1
           /\ TermAt(LogChain(i)', top(LogChain(i)')) = currentTerm[i]
           /\ \A k \in Spans(LogChain(i)') :
                 k < top(LogChain(i)) + 1 => PartAt(LogChain(i)', LogChain(i), k)
<1> DEFINE x == [Index |-> lastLogIndex(i) + 1, Term |-> currentTerm[i], Command |-> starts']
<1>1. /\ log' = [log EXCEPT ![i] = Append(@, x)] /\ starts' = starts + 1
      /\ UNCHANGED <<lastIncludedIndex, lastIncludedTerm>> /\ UNCHANGED net
      /\ state[i] = "LEADER" /\ UNCHANGED termVars
  BY Zenon DEF Start
<1>2. DOMAIN log = Server /\ currentTerm[i] \in Nat
  BY DEF DiskInv, PersistentDomains, ElectionTypeOK
<1>3. lastLogIndex(i) + 1 \in Nat /\ starts' \in Nat
  <2>1. lastLogIndex(i) \in Int /\ lastIncludedIndex[i] \in Int
        /\ lastLogIndex(i) >= lastIncludedIndex[i] /\ lastIncludedIndex[i] >= -1
    BY LogFacts, Zenon
  <2>2. starts' = starts + 1
    BY <1>1, Zenon
  <2> QED
    BY <2>1, <2>2
<1>4. x \in ChainEntry /\ x.Index = lastLogIndex(i) + 1 /\ x.Term = currentTerm[i]
  BY <1>2, <1>3, ZenonT(30) DEF ChainEntry
<1> HIDE DEF x
<1>5. log'[i] = Append(log[i], x) /\ \A k \in Server \ {i} : log'[k] = log[k]
  BY <1>1, <1>2
<1>6. OthersSame(i)
  BY <1>1, <1>5, Zenon DEF OthersSame, LogChain
<1>7. LogChain(i)' = [base |-> lastIncludedIndex[i], term |-> lastIncludedTerm[i],
                      entries |-> Append(log[i], x)]
  BY <1>1, <1>5, Zenon DEF LogChain
<1>8. /\ LogChain(i)'.base = lastIncludedIndex[i] /\ LogChain(i)'.term = lastIncludedTerm[i]
      /\ LogChain(i)'.entries = Append(log[i], x)
  BY <1>7, SMTT(30)
<1>9. /\ LogChain(i).base = lastIncludedIndex[i] /\ LogChain(i).term = lastIncludedTerm[i]
      /\ LogChain(i).entries = log[i] /\ top(LogChain(i)) = lastLogIndex(i)
  BY LogFacts, Zenon
<1>10. /\ LogChain(i)'.base = LogChain(i).base /\ LogChain(i)'.term = LogChain(i).term
       /\ LogChain(i)'.entries = Append(LogChain(i).entries, x)
       /\ x.Index = top(LogChain(i)) + 1
  BY <1>4, <1>8, <1>9, Zenon
<1>11. /\ IsChain(LogChain(i)') /\ top(LogChain(i)') = top(LogChain(i)) + 1
       /\ TermAt(LogChain(i)', top(LogChain(i)')) = x.Term
       /\ \A k \in Spans(LogChain(i)') :
             k < top(LogChain(i)) + 1 => PartAt(LogChain(i)', LogChain(i), k)
  BY <1>4, <1>10, MoreChain, Zenon
<1>12. NoNewCall
  BY <1>1, Zenon DEF NoNewCall
<1> QED
  BY <1>1, <1>4, <1>6, <1>11, <1>12, Zenon

-----------------------------------------------------------------------------
(* The types are kept.                                                     *)

\* Every step makes chains of the chains there are, or is Start.
LEMMA ChainStep ==
    ASSUME LeastExists, DiskInv, ServiceInv, ChainInv, [Next]_vars, NEW n \in Chains'
    PROVE  IsChain(n) /\ (Made(n) \/ \E i \in Server : Start(i) /\ n = LogChain(i)')
<1>1. /\ \A c \in Chains : IsChain(c)
      /\ \A k \in Server : LogChain(k) \in Chains /\ IsChain(LogChain(k))
      /\ \A m \in net : HasChain(m) => CallChain(m) \in Chains /\ IsChain(CallChain(m))
  BY AreChains, Zenon DEF ChainInv
<1>2. CASE n \in Chains
  BY <1>1, <1>2, Zenon DEF Made
<1>3. CASE LogsSame /\ NoNewCall
  BY <1>2, <1>3, NoNewChain, Zenon
<1>4. ASSUME NEW i \in Server, Start(i)
      PROVE  n \in Chains \/ (IsChain(n) /\ n = LogChain(i)')
  <2>1. starts \in Nat
    BY DEF ChainInv
  <2>2. OthersSame(i) /\ NoNewCall /\ IsChain(LogChain(i)')
    BY <1>1, <1>4, <2>1, StartChain, Zenon
  <2> QED
    BY <2>2, OneNewLog, Zenon
<1>5. ASSUME NEW i \in Server, Snapshot(i)
      PROVE  n \in Chains \/ (IsChain(n) /\ Made(n))
  <2>1. OthersSame(i) /\ NoNewCall /\ IsChain(LogChain(i)') /\ Segment(LogChain(i)', LogChain(i))
    BY <1>1, <1>5, SnapshotChain, Zenon
  <2> QED
    BY <1>1, <2>1, OneNewLog, Zenon DEF Made
<1>6. ASSUME NEW i \in Server, NEW j \in Server \ {i}, appendMissingEntries(i, j)
      PROVE  n \in Chains \/ (IsChain(n) /\ Made(n))
  <2>1. nextIndex[i][j] \in Nat
    BY DEF ChainInv
  <2>2. LogsSame /\ \E a : NewCall(a, i, j)
    BY <1>1, <1>6, <2>1, SendChain, Zenon
  <2>3. PICK a : NewCall(a, i, j)
    BY <2>2
  <2>4. CASE \E m \in net' : HasChain(m) /\ n = CallChain(m)
    <3>1. PICK m \in net' : HasChain(m) /\ n = CallChain(m)
      BY <2>4, ZenonT(30)
    <3>2. m \in net \/ m = a
      BY <2>3 DEF NewCall
    <3> QED
      BY <1>1, <2>3, <3>1, <3>2, Zenon DEF NewCall, Made
  <2>5. CASE \E k \in Server : n = LogChain(k)'
    BY <1>1, <2>2, <2>5, Zenon DEF LogsSame
  <2> QED
    BY <2>4, <2>5, NewChains, Zenon
<1>7. ASSUME NEW m \in net, Appends(m), NoNewCall
      PROVE  n \in Chains \/ (IsChain(n) /\ Made(n))
  <2>1. m.dst \in Server
    BY DEF DiskInv, ElectionTypeOK, MessageOK
  <2>2. /\ OthersSame(m.dst)
        /\ \/ LogChain(m.dst)' = LogChain(m.dst)
           \/ /\ HasChain(m) /\ IsChain(LogChain(m.dst)')
              /\ \E j \in Int : Joined(LogChain(m.dst)', LogChain(m.dst), CallChain(m), j)
    BY <1>1, <1>7, <2>1, AppendChain, Zenon
  <2>3. n \in Chains \/ n = LogChain(m.dst)'
    BY <1>7, <2>2, OneNewLog, Zenon
  <2> QED
    BY <1>1, <2>1, <2>2, <2>3, Zenon DEF Made
<1>8. ASSUME NEW m \in net, InstallSnapshot(m), snapshotIsNew(m), NoNewCall
      PROVE  n \in Chains \/ (IsChain(n) /\ Made(n))
  <2>1. m.dst \in Server
    BY DEF DiskInv, ElectionTypeOK, MessageOK
  <2>2. HasChain(m)
    BY <1>8, Zenon DEF InstallSnapshot, HasChain
  <2>3. /\ OthersSame(m.dst)
        /\ \/ IsChain(LogChain(m.dst)') /\ Segment(LogChain(m.dst)', LogChain(m.dst))
           \/ LogChain(m.dst)' = CallChain(m)
    BY <1>1, <1>8, <2>1, <2>2, InstallChain, Zenon
  <2>4. n \in Chains \/ n = LogChain(m.dst)'
    BY <1>8, <2>3, OneNewLog, Zenon
  <2> QED
    BY <1>1, <2>1, <2>2, <2>3, <2>4, Zenon DEF Made
<1> QED
  BY <1>2, <1>3, <1>4, <1>5, <1>6, <1>7, <1>8, LogStep, ZenonT(30)

-----------------------------------------------------------------------------
(* Elections.                                                              *)

\* A peer with the votes of a majority is the only one elected in its term.
LEMMA OneElected ==
    ASSUME QuorumsMeet, ElectionInv, NEW i \in Server, Active(i), NEW P \in SUBSET votesGranted[i],
           Cardinality(P) >= majority, NEW s \in Server, Elected(currentTerm[i], s)
    PROVE  s = i
<1>1. PICK Q \in SUBSET Server :
         Cardinality(Q) >= majority /\ \A q \in Q : Pledged(q, currentTerm[i], s)
  BY DEF Elected
<1>2. P \in SUBSET Server
  BY DEF ElectionInv, DiskInv, ElectionTypeOK
<1>3. PICK q \in P : q \in Q
  BY <1>1, <1>2, Zenon DEF QuorumsMeet
<1> QED
  BY <1>1, <1>3, ZenonT(30) DEF Pledged

\* Nobody else is elected in the term of a leader.
LEMMA OnlyLeader ==
    ASSUME QuorumsMeet, ElectionInv, NEW i \in Server, state[i] = "LEADER", NEW s \in Server,
           Elected(currentTerm[i], s)
    PROVE  s = i
<1>1. PICK P \in SUBSET votesGranted[i] : Cardinality(P) >= majority
  BY DEF ElectionInv, LeaderHasQuorum
<1> QED
  BY <1>1, OneElected, ZenonT(30) DEF Active

\* A peer that appends entries, or takes a snapshot from a call, is then in
\* the term of the call at least.
LEMMA CallTerm ==
    ASSUME DiskInv, NEW m \in net, Appends(m) \/ (InstallSnapshot(m) /\ snapshotIsNew(m))
    PROVE  /\ m.dst \in Server /\ m.Term \in Nat /\ m.Term >= currentTerm[m.dst]
           /\ currentTerm'[m.dst] = m.Term
<1>1. m.dst \in Server /\ m.Term \in Nat /\ currentTerm \in [Server -> Nat]
  BY DEF DiskInv, ElectionTypeOK, MessageOK
<1>2. /\ m.Term >= currentTerm[m.dst]
      /\ currentTerm' = [currentTerm EXCEPT ![m.dst] = termAfter(m.dst, m.Term)]
  BY ZenonT(60) DEF Appends, AppendEntries, appendMatches, InstallSnapshot, snapshotIsNew,
     handleHigherTerm
<1>3. termAfter(m.dst, m.Term) = m.Term
  BY <1>1, <1>2 DEF termAfter
<1> QED
  BY <1>1, <1>2, <1>3, ZenonT(30)
=============================================================================
