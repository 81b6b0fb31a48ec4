-------------------------- MODULE BPlusTreeProofs ---------------------------
(***************************************************************************)
(* The tree of BPlusTree stays well formed (see BPlusTreeShape) through    *)
(* every call, its nodes keep within their limits, and what it holds is    *)
(* the map it was told to hold.  As long as it was not read back from its  *)
(* pages, bounds and iteration find the entries in the order of keys.      *)
(***************************************************************************)
EXTENDS BPlusTreeShape

-----------------------------------------------------------------------------
(* What a rearrangement of nodes leaves alone *)

\* The entries of all leaves.
Entries(h) ==
  {e \in Keys \X Values :
     \E q \in DOMAIN h : h[q].leaf /\ \E j \in 1 .. Len(h[q].data) : h[q].data[j] = e}

\* From node p upwards all is as it was, but for node p itself.
Kept(h, ht, iv, g, ht2, iv2, p) ==
  /\ \A q \in DOMAIN h : ht[q] >= ht[p] =>
       q \in DOMAIN g /\ ht2[q] = ht[q] /\ iv2[q] = iv[q] /\ (q # p => g[q] = h[q])
  /\ \A q \in DOMAIN g : ht2[q] >= ht[p] => q \in DOMAIN h /\ ht2[q] = ht[q]

\* If the leaves are a chain in the one, they are in the other.
KeepsChain(h, iv, g, iv2) == Chained(h, iv) => Chained(g, iv2)

\* The children of p are rearranged, and what they hold is what they held.
Rearranged(h, ht, iv, g, p) ==
  \E ht2, iv2 :
    /\ Tree(g, ht2, iv2) /\ Kept(h, ht, iv, g, ht2, iv2, p) /\ Entries(g) = Entries(h)
    /\ KeepsChain(h, iv, g, iv2)

\* Also below the child c of p.
LEMMA KeptBelow ==
  ASSUME NEW h, NEW ht, NEW iv, NEW m, NEW ht1, NEW iv1, NEW g, NEW ht2, NEW iv2,
         NEW p \in DOMAIN h, NEW c \in DOMAIN h,
         ht \in [DOMAIN h -> Nat], ht1 \in [DOMAIN m -> Nat], ht2 \in [DOMAIN g -> Nat],
         c = p \/ ht[c] < ht[p],
         Kept(h, ht, iv, m, ht1, iv1, c), Kept(m, ht1, iv1, g, ht2, iv2, p)
  PROVE  Kept(h, ht, iv, g, ht2, iv2, p)
<1>1. /\ \A q \in DOMAIN h : ht[q] >= ht[c] =>
           q \in DOMAIN m /\ ht1[q] = ht[q] /\ iv1[q] = iv[q] /\ (q # c => m[q] = h[q])
      /\ \A q \in DOMAIN m : ht1[q] >= ht[c] => q \in DOMAIN h /\ ht1[q] = ht[q]
  BY DEF Kept
<1>2. /\ \A q \in DOMAIN m : ht1[q] >= ht1[p] =>
           q \in DOMAIN g /\ ht2[q] = ht1[q] /\ iv2[q] = iv1[q] /\ (q # p => g[q] = m[q])
      /\ \A q \in DOMAIN g : ht2[q] >= ht1[p] => q \in DOMAIN m /\ ht2[q] = ht1[q]
  BY DEF Kept
<1>3. ht[c] \in Nat /\ ht[p] \in Nat /\ ht[c] <= ht[p] /\ p \in DOMAIN m /\ ht1[p] = ht[p]
  BY <1>1
<1>4. ASSUME NEW q \in DOMAIN h, ht[q] >= ht[p]
      PROVE  q \in DOMAIN g /\ ht2[q] = ht[q] /\ iv2[q] = iv[q] /\ (q # p => g[q] = h[q])
  <2>1. ht[q] \in Nat /\ ht[q] >= ht[c] /\ (q = c => q = p)
    BY <1>3, <1>4
  <2>2. q \in DOMAIN m /\ ht1[q] = ht[q] /\ iv1[q] = iv[q] /\ (q # c => m[q] = h[q])
    BY <1>1, <2>1
  <2> QED BY <1>2, <1>3, <1>4, <2>1, <2>2
<1>5. ASSUME NEW q \in DOMAIN g, ht2[q] >= ht[p] PROVE q \in DOMAIN h /\ ht2[q] = ht[q]
  <2>1. q \in DOMAIN m /\ ht2[q] = ht1[q]
    BY <1>2, <1>3, <1>5
  <2>2. ht1[q] >= ht[c]
    BY <1>3, <1>5, <2>1
  <2> QED BY <1>1, <2>1, <2>2
<1> QED BY <1>4, <1>5 DEF Kept

LEMMA RearrangedTwice ==
  ASSUME NEW h, NEW ht, NEW iv, Tree(h, ht, iv), NEW m, NEW g, NEW p \in DOMAIN h,
         Rearranged(h, ht, iv, m, p),
         \A ht1, iv1 : Tree(m, ht1, iv1) /\ ht1[p] = ht[p] => Rearranged(m, ht1, iv1, g, p)
  PROVE  Rearranged(h, ht, iv, g, p)
<1>1. PICK ht1, iv1 :
        /\ Tree(m, ht1, iv1) /\ Kept(h, ht, iv, m, ht1, iv1, p) /\ Entries(m) = Entries(h)
        /\ KeepsChain(h, iv, m, iv1)
  BY DEF Rearranged
<1>2. ht \in [DOMAIN h -> Nat] /\ ht1 \in [DOMAIN m -> Nat]
  BY <1>1 DEF Tree, Ranges
<1>3. ht1[p] = ht[p]
  <2>1. ht[p] >= ht[p]
    BY <1>2
  <2> QED BY <1>1, <2>1 DEF Kept
<1>4. PICK ht2, iv2 :
        /\ Tree(g, ht2, iv2) /\ Kept(m, ht1, iv1, g, ht2, iv2, p) /\ Entries(g) = Entries(m)
        /\ KeepsChain(m, iv1, g, iv2)
  BY <1>1, <1>3 DEF Rearranged
<1>5. ht2 \in [DOMAIN g -> Nat]
  BY <1>4 DEF Tree, Ranges
<1>6. Kept(h, ht, iv, g, ht2, iv2, p)
  BY <1>1, <1>2, <1>4, <1>5, KeptBelow
<1>7. KeepsChain(h, iv, g, iv2)
  BY <1>1, <1>4 DEF KeepsChain
<1> QED BY <1>1, <1>4, <1>6, <1>7 DEF Rearranged

\* Two neighbours hold what their union holds.
LEMMA HalvesEntries ==
  ASSUME NEW big, NEW small, NEW p, NEW i, NEW l, NEW r, Halves(big, small, p, i, l, r)
  PROVE  Entries(big) = Entries(small)
<1> DEFINE Has(h, q, e) == h[q].leaf /\ \E j \in 1 .. Len(h[q].data) : h[q].data[j] = e
<1>1. /\ p \in DOMAIN big /\ l \in DOMAIN big /\ r \in DOMAIN big
      /\ p # l /\ p # r /\ l # r
      /\ DOMAIN small = DOMAIN big \ {r}
      /\ \A q \in DOMAIN big \ {p, l, r} : small[q] = big[q]
  BY DEF Halves, Halved
<1>2. big[p].leaf = FALSE /\ small[p].leaf = FALSE
  BY DEF Halves, HalvedAbove, IsInternal, Internal
<1>3. ASSUME NEW e PROVE (Has(big, l, e) \/ Has(big, r, e)) <=> Has(small, l, e)
  <2>1. CASE HalvedLeaf(big[l], big[r], small[l])
    <3> DEFINE a == big[l].data
               b == big[r].data
               c == small[l].data
    <3>1. big[l].leaf = TRUE /\ big[r].leaf = TRUE /\ small[l].leaf = TRUE /\ Joined(a, b, c)
      BY <2>1 DEF HalvedLeaf, IsLeaf, Leaf
    <3> HIDE DEF a, b, c
    <3>2. Len(a) \in Nat /\ Len(b) \in Nat /\ Len(c) = Len(a) + Len(b)
      BY <3>1 DEF Joined
    <3>3. \A j \in 1 .. Len(a) : j \in 1 .. Len(c) /\ c[j] = a[j]
      BY <3>1, <3>2 DEF Joined
    <3>4. \A j \in 1 .. Len(b) : Len(a) + j \in 1 .. Len(c) /\ c[Len(a) + j] = b[j]
      BY <3>1, <3>2 DEF Joined
    <3>5. \A j \in 1 .. Len(c) : InPart(a, b, c, j)
      BY <3>1, JoinedCases
    <3>6. (\E j \in 1 .. Len(c) : c[j] = e) <=>
            (\E j \in 1 .. Len(a) : a[j] = e) \/ (\E j \in 1 .. Len(b) : b[j] = e)
      BY <3>3, <3>4, <3>5 DEF InPart
    <3> QED BY <3>1, <3>6 DEF a, b, c
  <2>2. CASE HalvedInternal(big[l], big[p].keys[i], big[r], small[l], DOMAIN big)
    <3>1. big[l].leaf = FALSE /\ big[r].leaf = FALSE /\ small[l].leaf = FALSE
      BY <2>2 DEF HalvedInternal, IsInternal, Internal
    <3> QED BY <3>1
  <2> QED BY <2>1, <2>2 DEF Halves
<1>4. ASSUME NEW e
      PROVE  (\E q \in DOMAIN big : Has(big, q, e)) <=> (\E q \in DOMAIN small : Has(small, q, e))
  <2>1. ~Has(big, p, e) /\ ~Has(small, p, e)
    BY <1>2
  <2>2. \A q \in DOMAIN big \ {p, l, r} : Has(big, q, e) <=> Has(small, q, e)
    BY <1>1
  <2>3. (Has(big, l, e) \/ Has(big, r, e)) <=> Has(small, l, e)
    BY <1>3
  <2> HIDE DEF Has
  <2>4. (\E q \in DOMAIN big : Has(big, q, e)) <=>
          Has(big, l, e) \/ Has(big, r, e) \/ \E q \in DOMAIN big \ {p, l, r} : Has(big, q, e)
    BY <1>1, <2>1
  <2>5. (\E q \in DOMAIN small : Has(small, q, e)) <=>
          Has(small, l, e) \/ \E q \in DOMAIN big \ {p, l, r} : Has(small, q, e)
    BY <1>1, <2>1
  <2> QED BY <2>2, <2>3, <2>4, <2>5
<1> QED BY <1>4 DEF Entries

LEMMA JoinRearranges ==
  ASSUME NEW big, NEW ht, NEW iv, Tree(big, ht, iv),
         NEW small, NEW p, NEW i, NEW l, NEW r, Halves(big, small, p, i, l, r)
  PROVE  Rearranged(big, ht, iv, small, p)
<1> DEFINE ht2 == JoinedHeight(ht, r)
           iv2 == JoinedRange(iv, l, r)
<1>1. Tree(small, ht2, iv2)
  BY JoinKeepsTree
<1>2. Entries(small) = Entries(big)
  BY HalvesEntries
<1>3. /\ p \in DOMAIN big /\ l \in DOMAIN big /\ r \in DOMAIN big
      /\ p # l /\ p # r /\ l # r
      /\ DOMAIN small = DOMAIN big \ {r}
      /\ \A q \in DOMAIN big \ {p, l, r} : small[q] = big[q]
  BY DEF Halves, Halved
<1>4. ht \in [DOMAIN big -> Nat] /\ iv \in [DOMAIN big -> SUBSET Int]
  BY DEF Tree, Ranges
<1>5. /\ \A q \in DOMAIN small : ht2[q] = ht[q]
      /\ \A q \in DOMAIN small : q # l => iv2[q] = iv[q]
  BY <1>3, <1>4 DEF JoinedHeight, JoinedRange
<1>6. ht[l] < ht[p] /\ ht[r] < ht[p]
  BY <1>3, <1>4, HalvesRanges
<1> HIDE DEF ht2, iv2
<1>7. ASSUME NEW q \in DOMAIN big, ht[q] >= ht[p] PROVE q # l /\ q # r
  BY <1>3, <1>4, <1>6, <1>7
<1>8. Kept(big, ht, iv, small, ht2, iv2, p)
  BY <1>3, <1>5, <1>7 DEF Kept
<1>9. KeepsChain(big, iv, small, iv2)
  BY JoinChained DEF KeepsChain, iv2
<1> QED BY <1>1, <1>2, <1>8, <1>9 DEF Rearranged

\* The left half leads to the right one.
LeadsTo(h, l, r) == h[l].leaf = TRUE => h[l].next = r /\ h[l].copies = <<>>

LEMMA CutMoves ==
  ASSUME NEW small, NEW ht, NEW iv, Tree(small, ht, iv),
         NEW big, NEW p, NEW i, NEW l, NEW r, Halves(big, small, p, i, l, r),
         Proper(big, p, i, l, r)
  PROVE  \E ht2, iv2 :
           /\ Tree(big, ht2, iv2) /\ Kept(small, ht, iv, big, ht2, iv2, p)
           /\ Entries(big) = Entries(small)
           /\ LeadsTo(big, l, r) => KeepsChain(small, iv, big, iv2)
<1> DEFINE key == big[p].keys[i]
           ht2 == CutHeight(ht, l, r)
           iv2 == CutRange(iv, l, r, key)
<1>1. Tree(big, ht2, iv2)
  BY CutKeepsTree
<1>2. Entries(small) = Entries(big)
  BY HalvesEntries
<1>3. /\ p \in DOMAIN small /\ l \in DOMAIN small
      /\ DOMAIN big = DOMAIN small \cup {r}
      /\ \A q \in DOMAIN small : q # p /\ q # l => big[q] = small[q]
      /\ \A q \in DOMAIN small : ht2[q] = ht[q]
      /\ ht2[r] = ht[l]
      /\ \A q \in DOMAIN small : q # l => iv2[q] = iv[q]
      /\ ht \in [DOMAIN small -> Nat]
  <2>1. CutFacts(big, small, ht, iv, p, l, r, key)
    BY CutMaps
  <2> QED BY <2>1 DEF CutFacts
<1>4. ht[l] < ht[p]
  BY <1>3, CutPlace
<1> HIDE DEF ht2, iv2
<1>5. ASSUME NEW q \in DOMAIN small, ht[q] >= ht[p] PROVE q # l
  BY <1>3, <1>4, <1>5
<1>6. ASSUME NEW q \in DOMAIN big, ht2[q] >= ht[p] PROVE q # r
  BY <1>3, <1>4, <1>6
<1>7. Kept(small, ht, iv, big, ht2, iv2, p)
  BY <1>3, <1>5, <1>6 DEF Kept
<1>8. LeadsTo(big, l, r) => KeepsChain(small, iv, big, iv2)
  BY CutChained DEF KeepsChain, LeadsTo, iv2, key
<1> QED BY <1>1, <1>2, <1>7, <1>8

LEMMA CutRearranges ==
  ASSUME NEW small, NEW ht, NEW iv, Tree(small, ht, iv),
         NEW big, NEW p, NEW i, NEW l, NEW r, Halves(big, small, p, i, l, r),
         Proper(big, p, i, l, r), LeadsTo(big, l, r)
  PROVE  Rearranged(small, ht, iv, big, p)
BY CutMoves DEF Rearranged

-----------------------------------------------------------------------------
(* Sequences in parts *)

LEMMA Part ==
  ASSUME NEW S, NEW s \in Seq(S), NEW m \in 1 .. Len(s) + 1, NEW n \in m - 1 .. Len(s)
  PROVE  /\ SubSeq(s, m, n) \in Seq(S)
         /\ Len(SubSeq(s, m, n)) = n - m + 1
         /\ \A j \in 1 .. n - m + 1 : SubSeq(s, m, n)[j] = s[m + j - 1]
<1>1. Len(s) \in Nat /\ \A j \in 1 .. Len(s) : s[j] \in S
  BY Elements
<1>2. m \in Int /\ n \in Int /\ \A j \in m .. n : s[j] \in S
  BY <1>1
<1>3. /\ SubSeq(s, m, n) \in Seq(S)
      /\ Len(SubSeq(s, m, n)) = IF m <= n THEN n - m + 1 ELSE 0
      /\ \A j \in 1 .. n - m + 1 : SubSeq(s, m, n)[j] = s[m + j - 1]
  BY <1>2, SubSeqProperties
<1>4. (IF m <= n THEN n - m + 1 ELSE 0) = n - m + 1
  BY <1>1
<1> QED BY <1>3, <1>4

LEMMA ConcatJoins ==
  ASSUME NEW S, NEW a \in Seq(S), NEW b \in Seq(S)
  PROVE  a \o b \in Seq(S) /\ Joined(a, b, a \o b)
BY Concat, Elements DEF Joined

LEMMA AppendJoins ==
  ASSUME NEW S, NEW a \in Seq(S), NEW e \in S
  PROVE  Append(a, e) \in Seq(S) /\ Joined(a, <<e>>, Append(a, e))
<1>1. /\ Append(a, e) \in Seq(S)
      /\ Len(Append(a, e)) = Len(a) + 1
      /\ \A j \in 1 .. Len(a) : Append(a, e)[j] = a[j]
      /\ Append(a, e)[Len(a) + 1] = e
  BY AppendProperties
<1>2. Len(a) \in Nat
  BY Elements
<1>3. Len(<<e>>) = 1 /\ <<e>>[1] = e
  OBVIOUS
<1>4. \A j \in 1 .. 1 : Append(a, e)[Len(a) + j] = <<e>>[j]
  BY <1>1, <1>3
<1> QED BY <1>1, <1>2, <1>3, <1>4 DEF Joined

\* A sequence is its first n elements and the others.
LEMMA CutJoins ==
  ASSUME NEW S, NEW s \in Seq(S), NEW n \in 0 .. Len(s)
  PROVE  /\ SubSeq(s, 1, n) \in Seq(S) /\ SubSeq(s, n + 1, Len(s)) \in Seq(S)
         /\ Len(SubSeq(s, 1, n)) = n /\ Len(SubSeq(s, n + 1, Len(s))) = Len(s) - n
         /\ Joined(SubSeq(s, 1, n), SubSeq(s, n + 1, Len(s)), s)
<1>1. Len(s) \in Nat
  BY Elements
<1>2. /\ SubSeq(s, 1, n) \in Seq(S) /\ Len(SubSeq(s, 1, n)) = n
      /\ \A j \in 1 .. n : SubSeq(s, 1, n)[j] = s[j]
  <2>1. 1 \in 1 .. Len(s) + 1 /\ n \in 1 - 1 .. Len(s) /\ n - 1 + 1 = n
    BY <1>1
  <2>2. /\ SubSeq(s, 1, n) \in Seq(S) /\ Len(SubSeq(s, 1, n)) = n - 1 + 1
        /\ \A j \in 1 .. n - 1 + 1 : SubSeq(s, 1, n)[j] = s[1 + j - 1]
    BY <2>1, Part
  <2>3. \A j \in 1 .. n : 1 + j - 1 = j
    OBVIOUS
  <2> QED BY <2>1, <2>2, <2>3
<1>3. /\ SubSeq(s, n + 1, Len(s)) \in Seq(S) /\ Len(SubSeq(s, n + 1, Len(s))) = Len(s) - n
      /\ \A j \in 1 .. Len(s) - n : SubSeq(s, n + 1, Len(s))[j] = s[n + j]
  <2>1. n + 1 \in 1 .. Len(s) + 1 /\ Len(s) \in (n + 1) - 1 .. Len(s) /\ Len(s) - (n + 1) + 1 = Len(s) - n
    BY <1>1
  <2>2. /\ SubSeq(s, n + 1, Len(s)) \in Seq(S) /\ Len(SubSeq(s, n + 1, Len(s))) = Len(s) - (n + 1) + 1
        /\ \A j \in 1 .. Len(s) - (n + 1) + 1 : SubSeq(s, n + 1, Len(s))[j] = s[n + 1 + j - 1]
    BY <2>1, Part
  <2>3. \A j \in 1 .. Len(s) - n : n + 1 + j - 1 = n + j
    BY <1>1
  <2> QED BY <2>1, <2>2, <2>3
<1>4. n \in Nat /\ Len(s) - n \in Nat /\ Len(s) = n + (Len(s) - n)
  BY <1>1
<1> QED BY <1>2, <1>3, <1>4 DEF Joined

\* Three parts, put together in one order or the other.
LEMMA Grouped ==
  ASSUME NEW a, NEW b, NEW c, NEW ab, NEW bc, NEW abc,
         Joined(a, b, ab), Joined(b, c, bc)
  PROVE  Joined(ab, c, abc) <=> Joined(a, bc, abc)
<1>1. /\ Len(a) \in Nat /\ Len(b) \in Nat /\ Len(c) \in Nat
      /\ Len(ab) = Len(a) + Len(b) /\ Len(bc) = Len(b) + Len(c)
  BY DEF Joined
<1>2. Len(ab) \in Nat /\ Len(bc) \in Nat
  BY <1>1
<1>3. /\ \A j \in 1 .. Len(ab) : InPart(a, b, ab, j)
      /\ \A j \in 1 .. Len(bc) : InPart(b, c, bc, j)
  BY JoinedCases
<1>4. /\ \A j \in 1 .. Len(a) : ab[j] = a[j] /\ j \in 1 .. Len(ab)
      /\ \A j \in 1 .. Len(b) : ab[Len(a) + j] = b[j] /\ Len(a) + j \in 1 .. Len(ab)
      /\ \A j \in 1 .. Len(b) : bc[j] = b[j] /\ j \in 1 .. Len(bc)
      /\ \A j \in 1 .. Len(c) : bc[Len(b) + j] = c[j] /\ Len(b) + j \in 1 .. Len(bc)
  BY <1>1 DEF Joined
<1>5. Len(ab) + Len(c) = Len(a) + Len(bc)
  BY <1>1
<1>6. ASSUME Joined(ab, c, abc) PROVE Joined(a, bc, abc)
  <2>1. /\ Len(abc) = Len(ab) + Len(c)
        /\ \A j \in 1 .. Len(ab) : abc[j] = ab[j]
        /\ \A j \in 1 .. Len(c) : abc[Len(ab) + j] = c[j]
    BY <1>6 DEF Joined
  <2>2. \A j \in 1 .. Len(a) : abc[j] = a[j]
    BY <1>4, <2>1
  <2>3. ASSUME NEW j \in 1 .. Len(bc) PROVE abc[Len(a) + j] = bc[j]
    <3>1. CASE j \in 1 .. Len(b) /\ bc[j] = b[j]
      BY <1>4, <2>1, <3>1
    <3>2. CASE \E m \in 1 .. Len(c) : j = Len(b) + m /\ bc[j] = c[m]
      <4>1. PICK m \in 1 .. Len(c) : j = Len(b) + m /\ bc[j] = c[m]
        BY <3>2
      <4>2. Len(a) + j = Len(ab) + m
        BY <1>1, <4>1
      <4> QED BY <2>1, <4>1, <4>2
    <3> QED BY <1>3, <3>1, <3>2 DEF InPart
  <2> QED BY <1>1, <1>2, <1>5, <2>1, <2>2, <2>3 DEF Joined
<1>7. ASSUME Joined(a, bc, abc) PROVE Joined(ab, c, abc)
  <2>1. /\ Len(abc) = Len(a) + Len(bc)
        /\ \A j \in 1 .. Len(a) : abc[j] = a[j]
        /\ \A j \in 1 .. Len(bc) : abc[Len(a) + j] = bc[j]
    BY <1>7 DEF Joined
  <2>2. ASSUME NEW j \in 1 .. Len(ab) PROVE abc[j] = ab[j]
    <3>1. CASE j \in 1 .. Len(a) /\ ab[j] = a[j]
      BY <2>1, <3>1
    <3>2. CASE \E m \in 1 .. Len(b) : j = Len(a) + m /\ ab[j] = b[m]
      BY <1>4, <2>1, <3>2
    <3> QED BY <1>3, <3>1, <3>2 DEF InPart
  <2>3. ASSUME NEW j \in 1 .. Len(c) PROVE abc[Len(ab) + j] = c[j]
    <3>1. Len(ab) + j = Len(a) + (Len(b) + j)
      BY <1>1
    <3> QED BY <1>4, <2>1, <3>1
  <2> QED BY <1>1, <1>2, <1>5, <2>1, <2>2, <2>3 DEF Joined
<1> QED BY <1>6, <1>7

\* A key between two parts is the last element of the first.
LEMMA KeyJoins ==
  ASSUME NEW a, NEW key, NEW ak, NEW b, NEW c, Joined(a, <<key>>, ak)
  PROVE  Joined(ak, b, c) <=> JoinedBy(a, key, b, c)
<1>1. Len(<<key>>) = 1 /\ <<key>>[1] = key
  OBVIOUS
<1>2. /\ Len(a) \in Nat /\ Len(ak) = Len(a) + 1
      /\ \A j \in 1 .. Len(a) : ak[j] = a[j]
      /\ \A j \in 1 .. 1 : ak[Len(a) + j] = <<key>>[j]
  BY <1>1 DEF Joined
<1>3. ak[Len(a) + 1] = key
  BY <1>1, <1>2
<1>4. ASSUME Joined(ak, b, c) PROVE JoinedBy(a, key, b, c)
  <2>1. \A j \in 1 .. Len(a) + 1 : c[j] = ak[j]
    BY <1>2, <1>4 DEF Joined
  <2>2. Len(a) + 1 \in 1 .. Len(a) + 1 /\ \A j \in 1 .. Len(a) : j \in 1 .. Len(a) + 1
    BY <1>2
  <2>3. c[Len(a) + 1] = key /\ \A j \in 1 .. Len(a) : c[j] = a[j]
    BY <1>2, <1>3, <2>1, <2>2
  <2> QED BY <1>2, <1>4, <2>3 DEF Joined, JoinedBy
<1>5. ASSUME JoinedBy(a, key, b, c) PROVE Joined(ak, b, c)
  <2>1. ASSUME NEW j \in 1 .. Len(ak) PROVE c[j] = ak[j]
    <3>1. j \in 1 .. Len(a) \/ j = Len(a) + 1
      BY <1>2
    <3> QED BY <1>2, <1>3, <1>5, <3>1 DEF JoinedBy
  <2>2. Len(ak) \in Nat
    BY <1>2
  <2> QED BY <1>2, <1>5, <2>1, <2>2 DEF Joined, JoinedBy
<1> QED BY <1>4, <1>5

\* The last element of one part goes to the front of the other, or the first to
\* the end.
LentRightIs(S, a, b) ==
  /\ Front(a) \in Seq(S) /\ Last(a) \in S /\ <<Last(a)>> \o b \in Seq(S)
  /\ Len(Front(a)) = Len(a) - 1 /\ Len(<<Last(a)>> \o b) = Len(b) + 1
  /\ (<<Last(a)>> \o b)[1] = Last(a)
  /\ Joined(Front(a), <<Last(a)>>, a)
  /\ Joined(Front(a), <<Last(a)>> \o b, a \o b)

LEMMA LentRight ==
  ASSUME NEW S, NEW a \in Seq(S), NEW b \in Seq(S), Len(a) >= 1
  PROVE  LentRightIs(S, a, b)
<1> DEFINE n == Len(a) - 1
           x == a[Len(a)]
           y == <<x>>
<1>1. Len(a) \in Nat /\ n \in 0 .. Len(a) /\ n + 1 = Len(a) /\ Len(a) \in 1 .. Len(a)
  BY Elements
<1>2. x \in S
  BY <1>1, Elements
<1>3. /\ SubSeq(a, 1, n) \in Seq(S) /\ Len(SubSeq(a, 1, n)) = n
      /\ \A j \in 1 .. n : SubSeq(a, 1, n)[j] = a[j]
  <2>1. 1 \in 1 .. Len(a) + 1 /\ n \in 1 - 1 .. Len(a) /\ n - 1 + 1 = n
    BY <1>1
  <2>2. /\ SubSeq(a, 1, n) \in Seq(S) /\ Len(SubSeq(a, 1, n)) = n - 1 + 1
        /\ \A j \in 1 .. n - 1 + 1 : SubSeq(a, 1, n)[j] = a[1 + j - 1]
    BY <2>1, Part
  <2>3. \A j \in 1 .. n : 1 + j - 1 = j
    BY <1>1
  <2> QED BY <2>1, <2>2, <2>3
<1>4. y \in Seq(S) /\ Len(y) = 1 /\ y[1] = x
  BY <1>2
<1> HIDE DEF n, y
<1>5. Joined(SubSeq(a, 1, n), y, a)
  <2>1. n \in Nat /\ Len(a) = n + 1
    BY <1>1
  <2>2. \A j \in 1 .. 1 : a[n + j] = y[j]
    BY <1>1, <1>4
  <2> QED BY <1>3, <1>4, <2>1, <2>2 DEF Joined
<1>6. y \o b \in Seq(S) /\ Joined(y, b, y \o b) /\ Joined(a, b, a \o b)
  BY <1>4, ConcatJoins
<1>7. Joined(SubSeq(a, 1, n), y \o b, a \o b)
  BY <1>5, <1>6, Grouped
<1>8. Len(y \o b) = Len(b) + 1 /\ (y \o b)[1] = x
  <2>1. /\ Len(y \o b) = Len(y) + Len(b) /\ Len(b) \in Nat
        /\ \A j \in 1 .. Len(y) : (y \o b)[j] = y[j]
    BY <1>6 DEF Joined
  <2>2. 1 \in 1 .. Len(y)
    BY <1>4
  <2> QED BY <1>4, <2>1, <2>2
<1>9. Front(a) = SubSeq(a, 1, n) /\ Last(a) = x /\ <<Last(a)>> = y
  BY DEF Front, Last, n, y
<1>10. Len(Front(a)) = Len(a) - 1
  BY <1>3, <1>9 DEF n
<1> HIDE DEF x
<1> QED BY <1>2, <1>3, <1>5, <1>6, <1>7, <1>8, <1>9, <1>10 DEF LentRightIs

LentLeftIs(S, a, b) ==
  /\ Append(a, b[1]) \in Seq(S) /\ b[1] \in S /\ Tail(b) \in Seq(S)
  /\ Len(Append(a, b[1])) = Len(a) + 1 /\ Len(Tail(b)) = Len(b) - 1
  /\ Len(b) >= 2 => Tail(b)[1] = b[2]
  /\ Joined(a, <<b[1]>>, Append(a, b[1]))
  /\ Joined(Append(a, b[1]), Tail(b), a \o b)

LEMMA LentLeft ==
  ASSUME NEW S, NEW a \in Seq(S), NEW b \in Seq(S), Len(b) >= 1
  PROVE  LentLeftIs(S, a, b)
<1>1. Len(b) \in Nat /\ 1 \in 1 .. Len(b) /\ b # <<>>
  BY Elements
<1>2. b[1] \in S
  BY <1>1, Elements
<1>3. /\ Tail(b) \in Seq(S) /\ Len(Tail(b)) = Len(b) - 1
      /\ \A j \in 1 .. Len(Tail(b)) : Tail(b)[j] = b[j + 1]
  BY <1>1, HeadTailProperties
<1>4. Append(a, b[1]) \in Seq(S) /\ Joined(a, <<b[1]>>, Append(a, b[1]))
  BY <1>2, AppendJoins
<1>5. Len(Append(a, b[1])) = Len(a) + 1
  BY <1>2, AppendProperties
<1>6. Len(b) >= 2 => Tail(b)[1] = b[2]
  <2>1. Len(b) >= 2 => 1 \in 1 .. Len(Tail(b)) /\ 1 + 1 = 2
    BY <1>1, <1>3
  <2> QED BY <1>3, <2>1
<1> DEFINE y == <<b[1]>>
<1>7. y \in Seq(S) /\ Len(y) = 1 /\ y[1] = b[1]
  BY <1>2
<1> HIDE DEF y
<1>8. Joined(y, Tail(b), b)
  <2>1. Len(b) = 1 + Len(Tail(b)) /\ Len(Tail(b)) \in Nat
    BY <1>1, <1>3
  <2>2. \A j \in 1 .. Len(Tail(b)) : b[1 + j] = Tail(b)[j]
    BY <1>3
  <2> QED BY <1>7, <2>1, <2>2 DEF Joined
<1>9. Joined(a, b, a \o b)
  BY ConcatJoins
<1>10. Joined(Append(a, b[1]), Tail(b), a \o b)
  BY <1>4, <1>8, <1>9, Grouped DEF y
<1> QED BY <1>2, <1>3, <1>4, <1>5, <1>6, <1>10 DEF LentLeftIs

\* The same with a key between the parts, which changes places with the one lent.
LentRightByIs(S, a, b, key) ==
  /\ Front(a) \in Seq(S) /\ Last(a) \in S /\ <<key>> \o b \in Seq(S)
  /\ Len(Front(a)) = Len(a) - 1 /\ Len(<<key>> \o b) = Len(b) + 1
  /\ JoinedBy(Front(a), Last(a), <<key>> \o b, Append(a, key) \o b)

LEMMA LentRightBy ==
  ASSUME NEW S, NEW a \in Seq(S), NEW b \in Seq(S), NEW key \in S, Len(a) >= 1
  PROVE  LentRightByIs(S, a, b, key)
<1>1. /\ Front(a) \in Seq(S) /\ Last(a) \in S /\ Len(Front(a)) = Len(a) - 1
      /\ Joined(Front(a), <<Last(a)>>, a)
  BY LentRight DEF LentRightIs
<1>2. Append(a, key) \in Seq(S) /\ Joined(a, <<key>>, Append(a, key))
  BY AppendJoins
<1>3. <<key>> \in Seq(S) /\ Len(<<key>>) = 1
  OBVIOUS
<1>4. /\ <<key>> \o b \in Seq(S) /\ Joined(<<key>>, b, <<key>> \o b)
      /\ Joined(Append(a, key), b, Append(a, key) \o b)
  BY <1>2, <1>3, ConcatJoins
<1>5. Joined(a, <<key>> \o b, Append(a, key) \o b)
  BY <1>2, <1>4, Grouped
<1>6. Len(<<key>> \o b) = Len(b) + 1
  <2>1. Len(<<key>> \o b) = Len(<<key>>) + Len(b) /\ Len(b) \in Nat
    BY <1>4 DEF Joined
  <2> QED BY <1>3, <2>1
<1>7. JoinedBy(Front(a), Last(a), <<key>> \o b, Append(a, key) \o b)
  BY <1>1, <1>5, KeyJoins
<1> QED BY <1>1, <1>4, <1>6, <1>7 DEF LentRightByIs

LentLeftByIs(S, a, b, key) ==
  /\ Append(a, key) \in Seq(S) /\ b[1] \in S /\ Tail(b) \in Seq(S)
  /\ Len(Append(a, key)) = Len(a) + 1 /\ Len(Tail(b)) = Len(b) - 1
  /\ JoinedBy(Append(a, key), b[1], Tail(b), Append(a, key) \o b)

LEMMA LentLeftBy ==
  ASSUME NEW S, NEW a \in Seq(S), NEW b \in Seq(S), NEW key \in S, Len(b) >= 1
  PROVE  LentLeftByIs(S, a, b, key)
<1>1. Append(a, key) \in Seq(S) /\ Len(Append(a, key)) = Len(a) + 1
  BY AppendProperties
<1> DEFINE c == Append(a, key)
<1> HIDE DEF c
<1>2. c \in Seq(S)
  BY <1>1 DEF c
<1>3. /\ b[1] \in S /\ Tail(b) \in Seq(S) /\ Len(Tail(b)) = Len(b) - 1
      /\ Joined(c, <<b[1]>>, Append(c, b[1]))
      /\ Joined(Append(c, b[1]), Tail(b), c \o b)
  <2>1. LentLeftIs(S, c, b)
    BY <1>2, LentLeft
  <2> QED BY <2>1 DEF LentLeftIs
<1>4. JoinedBy(c, b[1], Tail(b), c \o b)
  BY <1>3, KeyJoins
<1> QED BY <1>1, <1>3, <1>4 DEF c, LentLeftByIs

\* A sequence cut around its element n + 1.
CutByIs(S, s, n) ==
  /\ SubSeq(s, 1, n) \in Seq(S) /\ s[n + 1] \in S /\ SubSeq(s, n + 2, Len(s)) \in Seq(S)
  /\ Len(SubSeq(s, 1, n)) = n /\ Len(SubSeq(s, n + 2, Len(s))) = Len(s) - n - 1
  /\ Joined(SubSeq(s, 1, n), <<s[n + 1]>>, SubSeq(s, 1, n + 1))
  /\ Joined(SubSeq(s, 1, n + 1), SubSeq(s, n + 2, Len(s)), s)
  /\ JoinedBy(SubSeq(s, 1, n), s[n + 1], SubSeq(s, n + 2, Len(s)), s)

LEMMA CutJoinsBy ==
  ASSUME NEW S, NEW s \in Seq(S), NEW n \in 0 .. Len(s) - 1
  PROVE  CutByIs(S, s, n)
<1>1. Len(s) \in Nat /\ n \in 0 .. Len(s) /\ n + 1 \in 0 .. Len(s) /\ n + 1 \in 1 .. Len(s)
      /\ (n + 1) + 1 = n + 2 /\ Len(s) - (n + 1) = Len(s) - n - 1 /\ n \in Nat
  BY Elements
<1>2. s[n + 1] \in S
  BY <1>1, Elements
<1>3. /\ SubSeq(s, 1, n) \in Seq(S) /\ Len(SubSeq(s, 1, n)) = n
      /\ Joined(SubSeq(s, 1, n), SubSeq(s, n + 1, Len(s)), s)
  BY <1>1, CutJoins
<1>4. /\ SubSeq(s, 1, n + 1) \in Seq(S) /\ SubSeq(s, (n + 1) + 1, Len(s)) \in Seq(S)
      /\ Len(SubSeq(s, 1, n + 1)) = n + 1 /\ Len(SubSeq(s, (n + 1) + 1, Len(s))) = Len(s) - (n + 1)
      /\ Joined(SubSeq(s, 1, n + 1), SubSeq(s, (n + 1) + 1, Len(s)), s)
  BY <1>1, CutJoins
<1>5. Joined(SubSeq(s, 1, n), <<s[n + 1]>>, SubSeq(s, 1, n + 1))
  <2> DEFINE a == SubSeq(s, 1, n)
             b == SubSeq(s, 1, n + 1)
             y == <<s[n + 1]>>
  <2>1. Len(y) = 1 /\ y[1] = s[n + 1] /\ Len(a) = n /\ Len(b) = n + 1
    BY <1>3, <1>4
  <2>2. \A j \in 1 .. n : s[j] = a[j]
    BY <1>3 DEF Joined
  <2>3. \A j \in 1 .. n + 1 : s[j] = b[j]
    BY <1>4 DEF Joined
  <2>4. (\A j \in 1 .. n : b[j] = a[j]) /\ b[n + 1] = s[n + 1]
    <3>1. n + 1 \in 1 .. n + 1 /\ \A j \in 1 .. n : j \in 1 .. n + 1
      BY <1>1
    <3> HIDE DEF a, b
    <3> QED BY <2>2, <2>3, <3>1
  <2> HIDE DEF a, b, y
  <2>5. \A j \in 1 .. 1 : b[n + j] = y[j]
    BY <2>1, <2>4
  <2>6. Joined(a, y, b)
    BY <1>1, <2>1, <2>4, <2>5 DEF Joined
  <2> QED BY <2>6 DEF a, b, y
<1>6. JoinedBy(SubSeq(s, 1, n), s[n + 1], SubSeq(s, (n + 1) + 1, Len(s)), s)
  BY <1>4, <1>5, KeyJoins
<1> QED BY <1>1, <1>2, <1>3, <1>4, <1>5, <1>6 DEF CutByIs

\* Three parts become two.
MergedIs(S, a, b, c, n) ==
  /\ a \o SubSeq(b, 1, n) \in Seq(S) /\ SubSeq(b, n + 1, Len(b)) \o c \in Seq(S)
  /\ Len(a \o SubSeq(b, 1, n)) = Len(a) + n
  /\ Len(SubSeq(b, n + 1, Len(b)) \o c) = Len(b) - n + Len(c)
  /\ Joined(a \o SubSeq(b, 1, n), SubSeq(b, n + 1, Len(b)) \o c, a \o (b \o c))

LEMMA MergedJoins ==
  ASSUME NEW S, NEW a \in Seq(S), NEW b \in Seq(S), NEW c \in Seq(S), NEW n \in 0 .. Len(b)
  PROVE  MergedIs(S, a, b, c, n)
<1> DEFINE b1 == SubSeq(b, 1, n)
           b2 == SubSeq(b, n + 1, Len(b))
<1>1. /\ b1 \in Seq(S) /\ b2 \in Seq(S) /\ Len(b1) = n /\ Len(b2) = Len(b) - n
      /\ Joined(b1, b2, b)
  BY CutJoins
<1> HIDE DEF b1, b2
<1>2. /\ a \o b1 \in Seq(S) /\ Joined(a, b1, a \o b1)
      /\ b2 \o c \in Seq(S) /\ Joined(b2, c, b2 \o c)
      /\ b \o c \in Seq(S) /\ Joined(b, c, b \o c)
  BY <1>1, ConcatJoins
<1>3. Joined(a, b \o c, a \o (b \o c))
  BY <1>2, ConcatJoins
<1>4. Joined(b1, b2 \o c, b \o c)
  BY <1>1, <1>2, Grouped
<1>5. Joined(a \o b1, b2 \o c, a \o (b \o c))
  BY <1>2, <1>3, <1>4, Grouped
<1>6. Len(a \o b1) = Len(a) + n /\ Len(b2 \o c) = Len(b) - n + Len(c)
  BY <1>1, <1>2 DEF Joined
<1> QED BY <1>2, <1>5, <1>6 DEF b1, b2, MergedIs

MergedByIs(S, a, b, c, key1, key2, n) ==
  /\ Append(a, key1) \o SubSeq(b, 1, n) \in Seq(S)
  /\ b[n + 1] \in S
  /\ Append(SubSeq(b, n + 2, Len(b)), key2) \o c \in Seq(S)
  /\ Len(Append(a, key1) \o SubSeq(b, 1, n)) = Len(a) + 1 + n
  /\ Len(Append(SubSeq(b, n + 2, Len(b)), key2) \o c) = Len(b) - n + Len(c)
  /\ JoinedBy(Append(a, key1) \o SubSeq(b, 1, n), b[n + 1],
              Append(SubSeq(b, n + 2, Len(b)), key2) \o c,
              Append(a, key1) \o (Append(b, key2) \o c))

LEMMA MergedJoinsBy ==
  ASSUME NEW S, NEW a \in Seq(S), NEW b \in Seq(S), NEW c \in Seq(S),
         NEW key1 \in S, NEW key2 \in S, NEW n \in 0 .. Len(b) - 1
  PROVE  MergedByIs(S, a, b, c, key1, key2, n)
<1> DEFINE A == Append(a, key1)
           B == Append(b, key2)
           b1 == SubSeq(b, 1, n)
           b1k == SubSeq(b, 1, n + 1)
           b2 == SubSeq(b, n + 2, Len(b))
           B2 == Append(b2, key2)
<1>1. A \in Seq(S) /\ B \in Seq(S) /\ Joined(b, <<key2>>, B) /\ Len(A) = Len(a) + 1
  BY AppendJoins, AppendProperties
<1>2. /\ b1 \in Seq(S) /\ b[n + 1] \in S /\ b2 \in Seq(S)
      /\ Len(b1) = n /\ Len(b2) = Len(b) - n - 1
      /\ Joined(b1, <<b[n + 1]>>, b1k) /\ Joined(b1k, b2, b)
  BY CutJoinsBy DEF CutByIs
<1> HIDE DEF b1, b1k, b2
<1>3. B2 \in Seq(S) /\ Joined(b2, <<key2>>, B2) /\ Len(B2) = Len(b2) + 1
  BY <1>2, AppendJoins, AppendProperties
<1>4. Joined(b1k, B2, B)
  BY <1>1, <1>2, <1>3, Grouped
<1> HIDE DEF A, B, B2
<1>5. /\ B2 \o c \in Seq(S) /\ Joined(B2, c, B2 \o c)
      /\ B \o c \in Seq(S) /\ Joined(B, c, B \o c)
      /\ A \o b1 \in Seq(S) /\ Joined(A, b1, A \o b1)
  BY <1>1, <1>2, <1>3, ConcatJoins
<1>6. Joined(A, B \o c, A \o (B \o c))
  BY <1>1, <1>5, ConcatJoins
<1>7. Joined(b1k, B2 \o c, B \o c)
  BY <1>4, <1>5, Grouped
<1>8. b1k \in Seq(S)
  <2>1. Len(b) \in Nat /\ n + 1 \in 0 .. Len(b)
    BY Elements
  <2> QED BY <2>1, CutJoins DEF b1k
<1>9. Joined(A, b1k, A \o b1k)
  BY <1>1, <1>8, ConcatJoins
<1>10. Joined(A \o b1k, B2 \o c, A \o (B \o c))
  BY <1>6, <1>7, <1>9, Grouped
<1>11. Joined(A \o b1, <<b[n + 1]>>, A \o b1k)
  BY <1>2, <1>5, <1>9, Grouped
<1>12. JoinedBy(A \o b1, b[n + 1], B2 \o c, A \o (B \o c))
  BY <1>10, <1>11, KeyJoins
<1>13. Len(A \o b1) = Len(a) + 1 + n /\ Len(B2 \o c) = Len(b) - n + Len(c)
  <2>1. Len(A \o b1) = Len(A) + Len(b1) /\ Len(B2 \o c) = Len(B2) + Len(c)
    BY <1>5 DEF Joined
  <2>2. Len(b) \in Nat /\ Len(c) \in Nat /\ Len(a) \in Nat
    BY Elements
  <2>3. Len(A) = Len(a) + 1 /\ Len(b1) = n
    BY <1>1, <1>2
  <2>4. Len(B2) = Len(b) - n
    BY <1>2, <1>3, <2>2
  <2> QED BY <2>1, <2>3, <2>4
<1>14. /\ A \o b1 \in Seq(S) /\ b[n + 1] \in S /\ B2 \o c \in Seq(S)
       /\ Len(A \o b1) = Len(a) + 1 + n /\ Len(B2 \o c) = Len(b) - n + Len(c)
       /\ JoinedBy(A \o b1, b[n + 1], B2 \o c, A \o (B \o c))
  BY <1>2, <1>5, <1>12, <1>13
<1> QED BY <1>14 DEF A, B, B2, b1, b2, MergedByIs

-----------------------------------------------------------------------------
(* Nodes *)

LEMMA LeafNode ==
  ASSUME NEW next, NEW copies, NEW data \in Seq(Keys \X Values)
  PROVE  /\ IsLeaf(Leaf(next, copies, data))
         /\ Leaf(next, copies, data).data = data
         /\ Leaf(next, copies, data).leaf = TRUE
         /\ Size(Leaf(next, copies, data)) = Len(data)
BY DEF IsLeaf, Leaf, Size

SameLinks(m, n) == m.next = n.next /\ m.copies = n.copies

LEMMA WithDataLinks ==
  ASSUME NEW node, NEW data
  PROVE  SameLinks(WithData(node, data), node)
BY DEF SameLinks, WithData, Leaf

LEMMA LeafLinks ==
  ASSUME NEW node, NEW data
  PROVE  SameLinks(Leaf(node.next, node.copies, data), node)
BY DEF SameLinks, Leaf

LEMMA InternalNode ==
  ASSUME NEW D, NEW keys \in Seq(Int), NEW kids \in Seq(D), Len(kids) = Len(keys) + 1
  PROVE  /\ IsInternal(Internal(keys, kids), D)
         /\ Internal(keys, kids).keys = keys
         /\ Internal(keys, kids).kids = kids
         /\ Internal(keys, kids).leaf = FALSE
         /\ Size(Internal(keys, kids)) = Len(keys)
BY DEF IsInternal, Internal, Size

LEMMA RemovedOne ==
  ASSUME NEW S, NEW s \in Seq(S), NEW i \in 1 .. Len(s)
  PROVE  RemoveAt(s, i) \in Seq(S) /\ Without1(s, RemoveAt(s, i), i)
<1>1. Len(s) \in Nat
  BY Elements
<1>2. /\ RemoveAt(s, i) \in Seq(S)
      /\ Len(RemoveAt(s, i)) = Len(s) - 1
      /\ \A j \in 1 .. i - 1 : RemoveAt(s, i)[j] = s[j]
      /\ \A j \in i .. Len(s) - 1 : RemoveAt(s, i)[j] = s[j + 1]
  BY RemovedAt
<1>3. Len(s) - 1 \in Nat /\ Len(s) = (Len(s) - 1) + 1
  BY <1>1
<1> QED BY <1>2, <1>3 DEF Without1

LEMMA InsertedOne ==
  ASSUME NEW S, NEW s \in Seq(S), NEW e \in S, NEW i \in 1 .. Len(s) + 1
  PROVE  /\ InsertAt(s, i, e) \in Seq(S) /\ Without1(InsertAt(s, i, e), s, i)
         /\ InsertAt(s, i, e)[i] = e /\ Len(InsertAt(s, i, e)) = Len(s) + 1
<1>1. Len(s) \in Nat
  BY Elements
<1>2. /\ InsertAt(s, i, e) \in Seq(S)
      /\ Len(InsertAt(s, i, e)) = Len(s) + 1
      /\ \A j \in 1 .. i - 1 : InsertAt(s, i, e)[j] = s[j]
      /\ InsertAt(s, i, e)[i] = e
      /\ \A j \in i .. Len(s) : InsertAt(s, i, e)[j + 1] = s[j]
  BY InsertedAt
<1> QED BY <1>1, <1>2 DEF Without1

\* An internal node with n separators: without the one at i, or with another there.
LEMMA ShortenedNode ==
  ASSUME NEW D, NEW node, IsInternal(node, D), NEW i \in 1 .. Len(node.keys)
  PROVE  /\ IsInternal(Shortened(node, i), D)
         /\ Without1(node.keys, Shortened(node, i).keys, i)
         /\ Without1(node.kids, Shortened(node, i).kids, i + 1)
         /\ Size(Shortened(node, i)) = Len(node.keys) - 1
<1> DEFINE s == node.keys
           c == node.kids
<1>1. s \in Seq(Int) /\ c \in Seq(D) /\ Len(c) = Len(s) + 1
  BY DEF IsInternal
<1>2. Len(s) \in Nat /\ i + 1 \in 1 .. Len(c)
  BY <1>1, Elements
<1> HIDE DEF s, c
<1>3. RemoveAt(s, i) \in Seq(Int) /\ Without1(s, RemoveAt(s, i), i)
  BY <1>1, RemovedOne DEF s
<1>4. RemoveAt(c, i + 1) \in Seq(D) /\ Without1(c, RemoveAt(c, i + 1), i + 1)
  BY <1>1, <1>2, RemovedOne
<1>5. Len(RemoveAt(s, i)) \in Nat /\ Len(s) = Len(RemoveAt(s, i)) + 1
  BY <1>3 DEF Without1
<1>6. Len(RemoveAt(c, i + 1)) \in Nat /\ Len(c) = Len(RemoveAt(c, i + 1)) + 1
  BY <1>4 DEF Without1
<1>7. Len(RemoveAt(c, i + 1)) = Len(RemoveAt(s, i)) + 1 /\ Len(RemoveAt(s, i)) = Len(s) - 1
  BY <1>1, <1>5, <1>6
<1>8. Shortened(node, i) = Internal(RemoveAt(s, i), RemoveAt(c, i + 1))
  BY DEF Shortened, s, c
<1>9. /\ IsInternal(Internal(RemoveAt(s, i), RemoveAt(c, i + 1)), D)
      /\ Internal(RemoveAt(s, i), RemoveAt(c, i + 1)).keys = RemoveAt(s, i)
      /\ Internal(RemoveAt(s, i), RemoveAt(c, i + 1)).kids = RemoveAt(c, i + 1)
      /\ Size(Internal(RemoveAt(s, i), RemoveAt(c, i + 1))) = Len(RemoveAt(s, i))
  BY <1>3, <1>4, <1>7, InternalNode
<1> QED BY <1>3, <1>4, <1>7, <1>8, <1>9 DEF s, c

IsKey(key) == key \in Int

\* t is u but for position i.
But1(t, u, i) == Len(t) = Len(u) /\ \A j \in 1 .. Len(u) : j # i => t[j] = u[j]

RenewedIs(node, i, key, n) ==
  /\ n.kids = node.kids /\ n.leaf = FALSE
  /\ n.keys[i] = key /\ But1(n.keys, node.keys, i)
  /\ Size(n) = Len(node.keys)

LEMMA RenewedNode ==
  ASSUME NEW D, NEW node, IsInternal(node, D), NEW i \in 1 .. Len(node.keys), NEW key, IsKey(key)
  PROVE  /\ IsInternal(Renewed(node, i, key), D)
         /\ RenewedIs(node, i, key, Renewed(node, i, key))
<1> DEFINE s == node.keys
           t == [s EXCEPT ![i] = key]
<1>1. s \in Seq(Int) /\ node.kids \in Seq(D) /\ Len(node.kids) = Len(s) + 1
  BY DEF IsInternal
<1>2. Len(s) \in Nat /\ DOMAIN s = 1 .. Len(s)
  BY <1>1, Elements
<1>3. t \in Seq(Int) /\ Len(t) = Len(s)
  <2> DEFINE Z == Int
  <2>1. s \in Seq(Z) /\ key \in Z
    BY <1>1 DEF IsKey
  <2> HIDE DEF Z, s
  <2>2. i \in 1 .. Len(s)
    BY DEF s
  <2>3. t \in Seq(Z) /\ Len(t) = Len(s)
    BY <2>1, <2>2, ExceptSeq
  <2> QED BY <2>3 DEF Z
<1>4. t[i] = key /\ \A j \in 1 .. Len(s) : j # i => t[j] = s[j]
  BY <1>2
<1> HIDE DEF t
<1>5. Renewed(node, i, key) = Internal(t, node.kids)
  BY DEF Renewed, t
<1> HIDE DEF s
<1>6. /\ IsInternal(Internal(t, node.kids), D)
      /\ Internal(t, node.kids).keys = t
      /\ Internal(t, node.kids).kids = node.kids
      /\ Internal(t, node.kids).leaf = FALSE
      /\ Size(Internal(t, node.kids)) = Len(t)
  <2>1. t \in Seq(Int) /\ node.kids \in Seq(D) /\ Len(node.kids) = Len(t) + 1
    BY <1>1, <1>3
  <2> QED BY <2>1, InternalNode
<1>7. But1(t, s, i)
  BY <1>3, <1>4 DEF But1
<1> QED BY <1>3, <1>4, <1>5, <1>6, <1>7 DEF s, RenewedIs

ExtendedIs(node, i, key, q, n) ==
  /\ Without1(n.keys, node.keys, i)
  /\ Without1(n.kids, node.kids, i + 1)
  /\ n.keys[i] = key /\ n.leaf = FALSE
  /\ n.kids[i] = node.kids[i] /\ n.kids[i + 1] = q
  /\ Size(n) = Len(node.keys) + 1

LEMMA ExtendedNode ==
  ASSUME NEW D, NEW node, IsInternal(node, D), NEW i \in 1 .. Len(node.kids), NEW key, IsKey(key),
         NEW q
  PROVE  /\ IsInternal(Extended(node, i, key, q), D \cup {q})
         /\ ExtendedIs(node, i, key, q, Extended(node, i, key, q))
<1> DEFINE s == node.keys
           c == node.kids
           E == D \cup {q}
           t == InsertAt(s, i, key)
           d == InsertAt(c, i + 1, q)
<1>1. s \in Seq(Int) /\ c \in Seq(D) /\ Len(c) = Len(s) + 1
  BY DEF IsInternal
<1>2. Len(s) \in Nat /\ i \in 1 .. Len(s) + 1 /\ i + 1 \in 1 .. Len(c) + 1
  BY <1>1, Elements
<1>3. c \in Seq(E) /\ q \in E
  <2>1. \A j \in 1 .. Len(c) : c[j] \in E
    BY <1>1, Elements
  <2> QED BY <1>1, <2>1, Elements
<1> HIDE DEF s, c, E
<1>4. t \in Seq(Int) /\ Without1(t, s, i) /\ t[i] = key /\ Len(t) = Len(s) + 1
  <2> DEFINE Z == Int
  <2>1. s \in Seq(Z) /\ key \in Z
    BY <1>1 DEF IsKey
  <2> HIDE DEF Z
  <2>2. t \in Seq(Z) /\ Without1(t, s, i) /\ t[i] = key /\ Len(t) = Len(s) + 1
    BY <1>2, <2>1, InsertedOne
  <2> QED BY <2>2 DEF Z
<1>5. /\ d \in Seq(E) /\ Without1(d, c, i + 1) /\ d[i + 1] = q /\ Len(d) = Len(c) + 1
  BY <1>2, <1>3, InsertedOne
<1>6. d[i] = c[i]
  <2>1. i \in 1 .. (i + 1) - 1
    BY <1>2
  <2> QED BY <1>5, <2>1 DEF Without1
<1> HIDE DEF t, d
<1>7. Len(d) = Len(t) + 1
  BY <1>1, <1>2, <1>4, <1>5
<1>8. Extended(node, i, key, q) = Internal(t, d)
  BY DEF Extended, s, c, t, d
<1>9. /\ IsInternal(Internal(t, d), E) /\ Internal(t, d).keys = t /\ Internal(t, d).kids = d
      /\ Size(Internal(t, d)) = Len(t)
  BY <1>4, <1>5, <1>7, InternalNode
<1>10. Internal(t, d).leaf = FALSE
  BY DEF Internal
<1>11. IsInternal(Internal(t, d), E) /\ ExtendedIs(node, i, key, q, Internal(t, d))
  BY <1>4, <1>5, <1>6, <1>9, <1>10 DEF ExtendedIs, s, c
<1> QED BY <1>8, <1>11 DEF E

-----------------------------------------------------------------------------
(* Neighbours *)

\* l and r are children of p, on the sides of its separator i.
Neighbours(h, ht, iv, p, i, l, r) ==
  /\ p \in DOMAIN h /\ l \in DOMAIN h /\ r \in DOMAIN h /\ p # l /\ p # r /\ l # r
  /\ IsInternal(h[p], DOMAIN h) /\ InternalFits(h, ht, iv, p)
  /\ i \in 1 .. Len(h[p].keys) /\ h[p].keys[i] \in Int
  /\ h[p].kids[i] = l /\ h[p].kids[i + 1] = r
  /\ \/ IsLeaf(h[l]) /\ IsLeaf(h[r]) /\ h[l].leaf = TRUE /\ h[r].leaf = TRUE
     \/ /\ IsInternal(h[l], DOMAIN h) /\ IsInternal(h[r], DOMAIN h)
        /\ h[l].leaf = FALSE /\ h[r].leaf = FALSE

LEMMA NodeKind ==
  ASSUME NEW h, NEW ht, NEW iv, Tree(h, ht, iv), NEW p \in DOMAIN h
  PROVE  \/ ht[p] = 0 /\ IsLeaf(h[p]) /\ h[p].leaf = TRUE
         \/ ht[p] > 0 /\ IsInternal(h[p], DOMAIN h) /\ h[p].leaf = FALSE
<1>1. CASE LeafFits(h, ht, iv, p)
  BY <1>1 DEF LeafFits, IsLeaf, Leaf
<1>2. CASE InternalFits(h, ht, iv, p)
  BY <1>2 DEF InternalFits, IsInternal, Internal
<1> QED BY <1>1, <1>2 DEF Tree

LEMMA AreNeighbours ==
  ASSUME NEW h, NEW ht, NEW iv, Tree(h, ht, iv), NEW p \in DOMAIN h, h[p].leaf = FALSE,
         NEW i \in 1 .. Len(h[p].keys)
  PROVE  Neighbours(h, ht, iv, p, i, h[p].kids[i], h[p].kids[i + 1])
<1> DEFINE l == h[p].kids[i]
           r == h[p].kids[i + 1]
<1>1. InternalFits(h, ht, iv, p) /\ IsInternal(h[p], DOMAIN h)
  BY Kind, NodeKind
<1>2. Parent(h, ht, iv, p) /\ Children(h, ht, iv, p)
  BY <1>1, Family
<1>3. i \in 1 .. Len(h[p].kids) /\ i + 1 \in 1 .. Len(h[p].kids) /\ i # i + 1 /\ i \in Int
  <2>1. Len(h[p].keys) \in Nat /\ Len(h[p].kids) = Len(h[p].keys) + 1
    BY <1>2 DEF Parent
  <2> QED BY <2>1
<1>4. /\ l \in DOMAIN h /\ r \in DOMAIN h /\ l # p /\ r # p
      /\ ht[l] = ht[p] - 1 /\ ht[r] = ht[p] - 1
  BY <1>2, <1>3 DEF Children
<1>5. l # r
  BY <1>1, <1>3, OneParent
<1>6. h[p].keys[i] \in Int
  BY <1>2 DEF Parent
<1>7. \/ ht[l] = 0 /\ IsLeaf(h[l]) /\ h[l].leaf = TRUE
      \/ ht[l] > 0 /\ IsInternal(h[l], DOMAIN h) /\ h[l].leaf = FALSE
  BY <1>4, NodeKind
<1>8. \/ ht[r] = 0 /\ IsLeaf(h[r]) /\ h[r].leaf = TRUE
      \/ ht[r] > 0 /\ IsInternal(h[r], DOMAIN h) /\ h[r].leaf = FALSE
  BY <1>4, NodeKind
<1>9. ht[l] = ht[r] /\ ht[l] \in Nat
  BY <1>4, Kind
<1> HIDE DEF l, r
<1>10. Neighbours(h, ht, iv, p, i, l, r)
  BY <1>1, <1>4, <1>5, <1>6, <1>7, <1>8, <1>9 DEF Neighbours, l, r
<1> QED BY <1>10 DEF l, r

\* Two neighbours made one.
Merged(h, l, key, r) ==
  IF h[l].leaf THEN Leaf(h[r].next, h[r].copies, h[l].data \o h[r].data)
  ELSE Internal(Append(h[l].keys, key) \o h[r].keys, h[l].kids \o h[r].kids)

JoinAt(h, p, i) ==
  LET l == h[p].kids[i]  r == h[p].kids[i + 1] IN
  [q \in DOMAIN h \ {r} |->
     IF q = l THEN Merged(h, l, h[p].keys[i], r)
     ELSE IF q = p THEN Shortened(h[p], i) ELSE h[q]]

MergedLeafIs(a, b, n) ==
  /\ HalvedLeaf(a, b, n) /\ n.leaf = TRUE
  /\ n.data = a.data \o b.data
  /\ Size(n) = Size(a) + Size(b)

MergedInternalIs(a, key, b, n, D) ==
  /\ HalvedInternal(a, key, b, n, D) /\ n.leaf = FALSE
  /\ n.keys = Append(a.keys, key) \o b.keys
  /\ n.kids = a.kids \o b.kids
  /\ Size(n) = Size(a) + 1 + Size(b)

LEMMA MergedLeaves ==
  ASSUME NEW h, NEW ht, NEW iv, NEW p, NEW i, NEW l, NEW r, Neighbours(h, ht, iv, p, i, l, r),
         h[l].leaf
  PROVE  MergedLeafIs(h[l], h[r], Merged(h, l, h[p].keys[i], r))
<1> DEFINE n == Merged(h, l, h[p].keys[i], r)
           a == h[l].data
           b == h[r].data
<1>1. IsLeaf(h[l]) /\ IsLeaf(h[r]) /\ h[l].leaf = TRUE /\ h[r].leaf = TRUE
  BY DEF Neighbours
<1>2. a \in Seq(Keys \X Values) /\ b \in Seq(Keys \X Values)
  BY <1>1 DEF IsLeaf
<1>3. n = Leaf(h[r].next, h[r].copies, a \o b)
  BY <1>1 DEF Merged
<1>4. Size(h[l]) = Len(a) /\ Size(h[r]) = Len(b)
  BY <1>1 DEF Size
<1> HIDE DEF a, b, n
<1>5. a \o b \in Seq(Keys \X Values) /\ Joined(a, b, a \o b)
  BY <1>2, ConcatJoins
<1>6. IsLeaf(n) /\ n.data = a \o b /\ n.leaf = TRUE /\ Size(n) = Len(a \o b)
  BY <1>3, <1>5, LeafNode
<1>9. SameLinks(n, h[r])
  BY <1>3, LeafLinks
<1>7. HalvedLeaf(h[l], h[r], n)
  BY <1>1, <1>5, <1>6, <1>9 DEF HalvedLeaf, SameLinks, a, b
<1>8. Len(a \o b) = Len(a) + Len(b)
  BY <1>5 DEF Joined
<1> QED BY <1>4, <1>6, <1>7, <1>8 DEF a, b, n, MergedLeafIs

LEMMA MergedInternals ==
  ASSUME NEW h, NEW ht, NEW iv, NEW p, NEW i, NEW l, NEW r, Neighbours(h, ht, iv, p, i, l, r),
         ~h[l].leaf
  PROVE  MergedInternalIs(h[l], h[p].keys[i], h[r], Merged(h, l, h[p].keys[i], r), DOMAIN h)
<1> DEFINE key == h[p].keys[i]
           n == Merged(h, l, key, r)
           a == h[l].keys
           b == h[r].keys
           c == h[l].kids
           d == h[r].kids
           ak == Append(a, key)
<1>1. /\ IsInternal(h[l], DOMAIN h) /\ IsInternal(h[r], DOMAIN h)
      /\ h[l].leaf = FALSE /\ h[r].leaf = FALSE /\ key \in Int
  BY DEF Neighbours
<1>2. /\ a \in Seq(Int) /\ b \in Seq(Int) /\ c \in Seq(DOMAIN h) /\ d \in Seq(DOMAIN h)
      /\ Len(c) = Len(a) + 1 /\ Len(d) = Len(b) + 1
  BY <1>1 DEF IsInternal
<1>3. n = Internal(ak \o b, c \o d)
  BY <1>1 DEF Merged
<1>4. Size(h[l]) = Len(a) /\ Size(h[r]) = Len(b)
  BY <1>1 DEF Size
<1> HIDE DEF a, b, c, d, n, key
<1>5. ak \in Seq(Int) /\ Joined(a, <<key>>, ak) /\ Len(ak) = Len(a) + 1
  BY <1>1, <1>2, AppendJoins, AppendProperties
<1> HIDE DEF ak
<1>6. /\ ak \o b \in Seq(Int) /\ Joined(ak, b, ak \o b)
      /\ c \o d \in Seq(DOMAIN h) /\ Joined(c, d, c \o d)
  BY <1>2, <1>5, ConcatJoins
<1>7. JoinedBy(a, key, b, ak \o b)
  BY <1>5, <1>6, KeyJoins
<1>8. Len(ak \o b) = Len(a) + 1 + Len(b) /\ Len(c \o d) = Len(ak \o b) + 1
  <2>1. Len(ak \o b) = Len(ak) + Len(b) /\ Len(c \o d) = Len(c) + Len(d) /\ Len(b) \in Nat
        /\ Len(a) \in Nat
    BY <1>6, <1>7 DEF Joined, JoinedBy
  <2> QED BY <1>2, <1>5, <2>1
<1>9. IsInternal(n, DOMAIN h) /\ n.keys = ak \o b /\ n.kids = c \o d /\ n.leaf = FALSE
      /\ Size(n) = Len(ak \o b)
  BY <1>3, <1>6, <1>8, InternalNode
<1>10. HalvedInternal(h[l], key, h[r], n, DOMAIN h)
  BY <1>1, <1>6, <1>7, <1>9 DEF HalvedInternal, a, b, c, d
<1> QED BY <1>4, <1>8, <1>9, <1>10 DEF a, b, c, d, ak, key, n, MergedInternalIs

JoinAtIs(h, m, p, i, l, r) ==
  /\ DOMAIN m = DOMAIN h \ {r}
  /\ m[p] = Shortened(h[p], i)
  /\ m[l] = Merged(h, l, h[p].keys[i], r)
  /\ \A q \in DOMAIN h \ {p, l, r} : m[q] = h[q]

LEMMA JoinAtHalves ==
  ASSUME NEW h, NEW ht, NEW iv, IsHeap(h),
         NEW p, NEW i, NEW l, NEW r, Neighbours(h, ht, iv, p, i, l, r)
  PROVE  Halves(h, JoinAt(h, p, i), p, i, l, r) /\ JoinAtIs(h, JoinAt(h, p, i), p, i, l, r)
<1> DEFINE m == JoinAt(h, p, i)
           key == h[p].keys[i]
<1>1. /\ p \in DOMAIN h /\ l \in DOMAIN h /\ r \in DOMAIN h /\ p # l /\ p # r /\ l # r
      /\ IsInternal(h[p], DOMAIN h)
      /\ i \in 1 .. Len(h[p].keys)
      /\ h[p].kids[i] = l /\ h[p].kids[i + 1] = r
  BY DEF Neighbours
<1>2. m = [q \in DOMAIN h \ {r} |->
             IF q = l THEN Merged(h, l, key, r)
             ELSE IF q = p THEN Shortened(h[p], i) ELSE h[q]]
  BY <1>1 DEF JoinAt
<1>3. /\ DOMAIN m = DOMAIN h \ {r}
      /\ m[p] = Shortened(h[p], i)
      /\ m[l] = Merged(h, l, key, r)
      /\ \A q \in DOMAIN h \ {p, l, r} : m[q] = h[q]
      /\ m = [q \in DOMAIN m |-> m[q]]
  BY <1>1, <1>2
<1> HIDE DEF m
<1>4. IsHeap(m)
  <2>1. IsFiniteSet(DOMAIN h) /\ DOMAIN h \subseteq Nat \ {0}
    BY DEF IsHeap
  <2>2. IsFiniteSet(DOMAIN h \ {r})
    BY <2>1, FS_Subset
  <2> QED BY <1>3, <2>1, <2>2 DEF IsHeap
<1>5. Halved(h, m, p, i, l, r)
  BY <1>1, <1>3 DEF Halved
<1>6. HalvedAbove(h[p], m[p], i, l, r, DOMAIN h)
  <2>1. /\ IsInternal(Shortened(h[p], i), DOMAIN h)
        /\ Without1(h[p].keys, Shortened(h[p], i).keys, i)
        /\ Without1(h[p].kids, Shortened(h[p], i).kids, i + 1)
    BY <1>1, ShortenedNode
  <2> QED BY <1>1, <1>3, <2>1 DEF HalvedAbove
<1>7. \/ HalvedLeaf(h[l], h[r], m[l])
      \/ HalvedInternal(h[l], key, h[r], m[l], DOMAIN h)
  <2>1. CASE h[l].leaf
    <3>1. HalvedLeaf(h[l], h[r], Merged(h, l, h[p].keys[i], r))
      BY <2>1, MergedLeaves DEF MergedLeafIs
    <3> QED BY <1>3, <3>1
  <2>2. CASE ~h[l].leaf
    <3>1. HalvedInternal(h[l], key, h[r], Merged(h, l, h[p].keys[i], r), DOMAIN h)
      BY <2>2, MergedInternals DEF MergedInternalIs
    <3> QED BY <1>3, <3>1
  <2> QED BY <2>1, <2>2
<1>8. JoinAtIs(h, m, p, i, l, r)
  BY <1>3 DEF JoinAtIs
<1>9. Halves(h, m, p, i, l, r)
  <2>1. IsHeap(h)
    OBVIOUS
  <2> QED BY <1>4, <1>5, <1>6, <1>7, <2>1 DEF Halves
<1> QED BY <1>8, <1>9 DEF m

\* Nodes lend to each other: what the two have together is as before, and key is
\* the separator between them now.
Redistributed(h, g, p, i, l, r, key) ==
  /\ g = [q \in DOMAIN h |-> g[q]]
  /\ \A q \in DOMAIN h \ {p, l, r} : g[q] = h[q]
  /\ key \in Int /\ g[p] = Renewed(h[p], i, key)
  /\ h[l].leaf => /\ HalvedLeaf(g[l], g[r], Merged(h, l, h[p].keys[i], r))
                  /\ SameLinks(g[l], h[l])
  /\ ~h[l].leaf => HalvedInternal(g[l], key, g[r], Merged(h, l, h[p].keys[i], r), DOMAIN h)

LEMMA RedistributedHalves ==
  ASSUME NEW h, NEW ht, NEW iv, IsHeap(h),
         NEW p, NEW i, NEW l, NEW r, Neighbours(h, ht, iv, p, i, l, r),
         NEW g, NEW key, Redistributed(h, g, p, i, l, r, key)
  PROVE  Halves(g, JoinAt(h, p, i), p, i, l, r)
<1> DEFINE m == JoinAt(h, p, i)
<1>1. /\ p \in DOMAIN h /\ l \in DOMAIN h /\ r \in DOMAIN h /\ p # l /\ p # r /\ l # r
      /\ IsInternal(h[p], DOMAIN h)
      /\ i \in 1 .. Len(h[p].keys)
      /\ h[p].kids[i] = l /\ h[p].kids[i + 1] = r
  BY DEF Neighbours
<1>2. /\ g = [q \in DOMAIN h |-> g[q]]
      /\ \A q \in DOMAIN h \ {p, l, r} : g[q] = h[q]
      /\ key \in Int /\ g[p] = Renewed(h[p], i, key)
  BY DEF Redistributed
<1>3. DOMAIN g = DOMAIN h
  BY <1>2
<1>4. /\ Halves(h, m, p, i, l, r)
      /\ DOMAIN m = DOMAIN h \ {r}
      /\ m[p] = Shortened(h[p], i)
      /\ m[l] = Merged(h, l, h[p].keys[i], r)
      /\ \A q \in DOMAIN h \ {p, l, r} : m[q] = h[q]
  <2>1. Halves(h, m, p, i, l, r) /\ JoinAtIs(h, m, p, i, l, r)
    BY JoinAtHalves
  <2> QED BY <2>1 DEF JoinAtIs
<1> HIDE DEF m
<1>5. IsHeap(g) /\ IsHeap(m)
  <2>1. IsFiniteSet(DOMAIN h) /\ DOMAIN h \subseteq Nat \ {0}
    BY DEF IsHeap
  <2>2. g = [q \in DOMAIN g |-> g[q]]
    BY <1>2, <1>3
  <2>3. IsHeap(g)
    BY <1>3, <2>1, <2>2 DEF IsHeap
  <2> QED BY <1>4, <2>3 DEF Halves
<1>6. Halved(g, m, p, i, l, r)
  BY <1>1, <1>2, <1>3, <1>4 DEF Halved
<1>7. /\ IsInternal(g[p], DOMAIN h) /\ g[p].kids = h[p].kids /\ g[p].keys[i] = key
      /\ But1(g[p].keys, h[p].keys, i)
  <2> DEFINE node == h[p]
  <2>1. IsInternal(node, DOMAIN h) /\ i \in 1 .. Len(node.keys) /\ IsKey(key)
    BY <1>1, <1>2 DEF IsKey
  <2> HIDE DEF node
  <2>2. /\ IsInternal(Renewed(node, i, key), DOMAIN h)
        /\ RenewedIs(node, i, key, Renewed(node, i, key))
    BY <2>1, RenewedNode
  <2> QED BY <1>2, <2>2 DEF node, RenewedIs
<1>8. HalvedAbove(h[p], m[p], i, l, r, DOMAIN h)
  BY <1>4 DEF Halves
<1>9. HalvedAbove(g[p], m[p], i, l, r, DOMAIN h)
  <2>1. Without1(h[p].keys, m[p].keys, i) /\ Without1(h[p].kids, m[p].kids, i + 1)
    BY <1>8 DEF HalvedAbove
  <2> DEFINE t == g[p].keys
             u == h[p].keys
             s == m[p].keys
  <2>2. Without1(u, s, i) /\ Len(t) = Len(u) /\ \A j \in 1 .. Len(u) : j # i => t[j] = u[j]
    BY <1>7, <2>1 DEF But1
  <2> HIDE DEF t, u, s
  <2>3. i \in 1 .. Len(u) /\ Len(s) \in Nat /\ Len(u) = Len(s) + 1
    BY <2>2 DEF Without1
  <2>4. \A j \in 1 .. i - 1 : s[j] = t[j]
    <3>1. \A j \in 1 .. i - 1 : j \in 1 .. Len(u) /\ j # i
      BY <2>3
    <3> QED BY <2>2, <3>1 DEF Without1
  <2>5. \A j \in i .. Len(s) : s[j] = t[j + 1]
    <3>1. \A j \in i .. Len(s) : j + 1 \in 1 .. Len(u) /\ j + 1 # i
      BY <2>3
    <3> QED BY <2>2, <3>1 DEF Without1
  <2>6. Without1(t, s, i)
    BY <2>2, <2>3, <2>4, <2>5 DEF Without1
  <2>7. Without1(g[p].keys, m[p].keys, i)
    BY <2>6 DEF t, s
  <2> QED BY <1>1, <1>7, <1>8, <2>1, <2>7 DEF HalvedAbove
<1>10. \/ HalvedLeaf(g[l], g[r], m[l])
       \/ HalvedInternal(g[l], g[p].keys[i], g[r], m[l], DOMAIN h)
  BY <1>4, <1>7 DEF Redistributed
<1> QED BY <1>3, <1>5, <1>6, <1>9, <1>10 DEF Halves, m

LEMMA RedistributeRearranges ==
  ASSUME NEW h, NEW ht, NEW iv, Tree(h, ht, iv),
         NEW p, NEW i, NEW l, NEW r, Neighbours(h, ht, iv, p, i, l, r),
         NEW g, NEW key, Redistributed(h, g, p, i, l, r, key), Proper(g, p, i, l, r)
  PROVE  Rearranged(h, ht, iv, g, p)
<1> DEFINE m == JoinAt(h, p, i)
<1>1. IsHeap(h) /\ p \in DOMAIN h
  BY DEF Tree, Neighbours
<1>2. Halves(h, m, p, i, l, r)
  BY <1>1, JoinAtHalves
<1>3. Halves(g, m, p, i, l, r)
  BY <1>1, RedistributedHalves
<1> HIDE DEF m
<1>4. PICK ht1, iv1 :
        /\ Tree(m, ht1, iv1) /\ Kept(h, ht, iv, m, ht1, iv1, p) /\ Entries(m) = Entries(h)
        /\ KeepsChain(h, iv, m, iv1)
  BY <1>2, JoinRearranges DEF Rearranged
<1>5. PICK ht2, iv2 :
        /\ Tree(g, ht2, iv2) /\ Kept(m, ht1, iv1, g, ht2, iv2, p) /\ Entries(g) = Entries(m)
        /\ LeadsTo(g, l, r) => KeepsChain(m, iv1, g, iv2)
  BY <1>3, <1>4, CutMoves
<1>6. Kept(h, ht, iv, g, ht2, iv2, p)
  <2>1. ht \in [DOMAIN h -> Nat] /\ ht1 \in [DOMAIN m -> Nat] /\ ht2 \in [DOMAIN g -> Nat]
    BY <1>4, <1>5 DEF Tree, Ranges
  <2> QED BY <1>1, <1>4, <1>5, <2>1, KeptBelow
<1>7. ASSUME Chained(h, iv) PROVE LeadsTo(g, l, r)
  <2>1. CASE h[l].leaf = TRUE
    <3>1. h[l].next = r /\ h[l].copies = <<>>
      BY <1>2, <1>7, <2>1, NextIsRight
    <3> QED BY <2>1, <3>1 DEF LeadsTo, Redistributed, SameLinks
  <2>2. CASE h[l].leaf = FALSE
    <3>1. HalvedInternal(g[l], key, g[r], Merged(h, l, h[p].keys[i], r), DOMAIN h)
      BY <2>2 DEF Redistributed
    <3>2. g[l].leaf = FALSE
      BY <3>1 DEF HalvedInternal, IsInternal, Internal
    <3> QED BY <3>2 DEF LeadsTo
  <2> QED BY <2>1, <2>2 DEF Neighbours
<1>8. KeepsChain(h, iv, g, iv2)
  BY <1>4, <1>5, <1>7 DEF KeepsChain
<1> QED BY <1>4, <1>5, <1>6, <1>8 DEF Rearranged

-----------------------------------------------------------------------------
(* Lending *)

LeafIs(n, data) ==
  /\ IsLeaf(n) /\ n.data = data /\ n.leaf = TRUE
  /\ data \in Seq(Keys \X Values) /\ Size(n) = Len(data)

LEMMA LeafNodeIs ==
  ASSUME NEW next, NEW copies, NEW data \in Seq(Keys \X Values)
  PROVE  LeafIs(Leaf(next, copies, data), data)
BY DEF LeafIs, IsLeaf, Leaf, Size

LEMMA WithDataNode ==
  ASSUME NEW node, NEW data \in Seq(Keys \X Values)
  PROVE  LeafIs(WithData(node, data), data)
BY LeafNodeIs DEF WithData

InternalIs(n, D, keys, kids) ==
  /\ IsInternal(n, D) /\ n.keys = keys /\ n.kids = kids /\ n.leaf = FALSE
  /\ Size(n) = Len(keys)

LEMMA InternalNodeIs ==
  ASSUME NEW D, NEW keys \in Seq(Int), NEW kids \in Seq(D), Len(kids) = Len(keys) + 1
  PROVE  InternalIs(Internal(keys, kids), D, keys, kids)
BY DEF InternalIs, IsInternal, Internal, Size

\* Only p and nodes of T are touched, and p has d separators more.
Effect(h, g, p, T, d) ==
  /\ \A q \in DOMAIN g : q \in T \cup {p} \/ (q \in DOMAIN h /\ g[q] = h[q])
  /\ Count(g, p) = Count(h, p) + d

\* One entry goes from node a to node b.
Lent(h, ht, iv, g, p, a, b) ==
  /\ Rearranged(h, ht, iv, g, p)
  /\ Effect(h, g, p, {a, b}, 0)
  /\ DOMAIN g = DOMAIN h
  /\ g[p].kids = h[p].kids /\ g[p].leaf = FALSE
  /\ Len(g[p].keys) = Len(h[p].keys)
  /\ Count(g, a) = Count(h, a) - 1
  /\ Count(g, b) = Count(h, b) + 1

\* The sizes of the two.
LEMMA RedistributedLent ==
  ASSUME NEW h, NEW ht, NEW iv, Tree(h, ht, iv),
         NEW p, NEW i, NEW l, NEW r, Neighbours(h, ht, iv, p, i, l, r),
         NEW g, NEW key, Redistributed(h, g, p, i, l, r, key), Proper(g, p, i, l, r),
         NEW a, NEW b, (a = l /\ b = r) \/ (a = r /\ b = l),
         Count(g, a) = Count(h, a) - 1, Count(g, b) = Count(h, b) + 1
  PROVE  Lent(h, ht, iv, g, p, a, b)
<1>1. Rearranged(h, ht, iv, g, p)
  BY RedistributeRearranges
<1>2. /\ p \in DOMAIN h /\ IsInternal(h[p], DOMAIN h) /\ i \in 1 .. Len(h[p].keys)
      /\ h[p].leaf = FALSE
  BY DEF Neighbours, IsInternal, Internal
<1>3. /\ g = [q \in DOMAIN h |-> g[q]]
      /\ \A q \in DOMAIN h \ {p, l, r} : g[q] = h[q]
      /\ key \in Int /\ g[p] = Renewed(h[p], i, key)
  BY DEF Redistributed
<1>4. IsKey(key)
  BY <1>3 DEF IsKey
<1> DEFINE node == h[p]
<1> HIDE DEF node
<1>5. RenewedIs(node, i, key, Renewed(node, i, key))
  BY <1>2, <1>4, RenewedNode DEF node
<1>6. RenewedIs(h[p], i, key, g[p])
  BY <1>3, <1>5 DEF node
<1>7. g[p].kids = h[p].kids /\ g[p].leaf = FALSE /\ Size(g[p]) = Len(h[p].keys)
      /\ Len(g[p].keys) = Len(h[p].keys)
  BY <1>6 DEF RenewedIs, But1
<1>8. Size(h[p]) = Len(h[p].keys) /\ Len(h[p].keys) \in Nat
  <2>1. h[p].keys \in Seq(Int)
    BY <1>2 DEF IsInternal
  <2> QED BY <1>2, <2>1, Elements DEF Size
<1>9. Effect(h, g, p, {a, b}, 0)
  <2>1. Count(g, p) = Count(h, p) + 0
    BY <1>7, <1>8 DEF Count
  <2> QED BY <1>3, <2>1 DEF Effect
<1> QED BY <1>1, <1>3, <1>7, <1>9 DEF Lent

LEMMA LendsRightLeaf ==
  ASSUME NEW h, NEW ht, NEW iv, Tree(h, ht, iv),
         NEW p, NEW i \in Nat, NEW l, NEW r, Neighbours(h, ht, iv, p, i - 1, l, r),
         Count(h, l) >= 2, h[r].leaf
  PROVE  Lent(h, ht, iv, BorrowFromLeft(h, p, i), p, l, r)
<1> DEFINE a == h[l].data
           b == h[r].data
           x == Last(a)
           g == BorrowFromLeft(h, p, i)
           j == i - 1
           T == Keys \X Values
<1>1. /\ p \in DOMAIN h /\ l \in DOMAIN h /\ r \in DOMAIN h /\ p # l /\ p # r /\ l # r
      /\ h[p].kids[j] = l /\ h[p].kids[j + 1] = r
      /\ IsLeaf(h[l]) /\ IsLeaf(h[r]) /\ h[l].leaf = TRUE /\ h[r].leaf = TRUE
  BY DEF Neighbours
<1>2. h = [q \in DOMAIN h |-> h[q]]
  BY DEF Tree, IsHeap
<1>3. h[p].kids[i] = r
  <2>1. j + 1 = i
    OBVIOUS
  <2> QED BY <1>1, <2>1
<1>4. /\ g = [q \in DOMAIN h |-> g[q]]
      /\ \A q \in DOMAIN h \ {p, l, r} : g[q] = h[q]
      /\ g[r] = WithData(h[r], <<x>> \o b)
      /\ g[p] = Renewed(h[p], j, x[1])
      /\ g[l] = WithData(h[l], Front(a))
  BY <1>1, <1>2, <1>3 DEF BorrowFromLeft
<1>5. a \in Seq(T) /\ b \in Seq(T) /\ Count(h, l) = Len(a) /\ Count(h, r) = Len(b)
  BY <1>1 DEF IsLeaf, Count, Size
<1> HIDE DEF a, b, g, j, T
<1>6. Len(a) \in Nat /\ Len(b) \in Nat /\ Len(a) >= 2 /\ Len(a) >= 1
  BY <1>5, Elements
<1>7. /\ Front(a) \in Seq(T) /\ x \in T /\ <<x>> \o b \in Seq(T)
      /\ Len(Front(a)) = Len(a) - 1 /\ Len(<<x>> \o b) = Len(b) + 1
      /\ (<<x>> \o b)[1] = x
      /\ Joined(Front(a), <<x>> \o b, a \o b)
  <2>1. LentRightIs(T, a, b)
    BY <1>5, <1>6, LentRight
  <2> QED BY <2>1 DEF LentRightIs
<1>8. x[1] \in Int
  BY <1>7, TreeAssumption DEF T
<1> HIDE DEF x
<1>9. /\ IsLeaf(g[r]) /\ g[r].data = <<x>> \o b /\ Size(g[r]) = Len(b) + 1
      /\ IsLeaf(g[l]) /\ g[l].data = Front(a) /\ g[l].leaf = TRUE /\ Size(g[l]) = Len(a) - 1
  <2>1. LeafIs(g[r], <<x>> \o b) /\ LeafIs(g[l], Front(a))
    BY <1>4, <1>7, WithDataNode DEF T
  <2> QED BY <1>7, <2>1 DEF LeafIs
<1> DEFINE w == Merged(h, l, h[p].keys[j], r)
<1> HIDE DEF w
<1>10. HalvedLeaf(g[l], g[r], w)
  <2>1. HalvedLeaf(h[l], h[r], w) /\ w.data = a \o b
    <3>1. MergedLeafIs(h[l], h[r], w)
      BY <1>1, MergedLeaves DEF w, j
    <3> QED BY <3>1 DEF MergedLeafIs, a, b
  <2>2. SameLinks(w, g[r])
    <3>1. SameLinks(g[r], h[r])
      BY <1>4, WithDataLinks
    <3> QED BY <2>1, <3>1 DEF HalvedLeaf, SameLinks
  <2> QED BY <1>7, <1>9, <2>1, <2>2 DEF HalvedLeaf, SameLinks
<1>17. SameLinks(g[l], h[l])
  BY <1>4, WithDataLinks
<1>11. Redistributed(h, g, p, j, l, r, x[1])
  BY <1>1, <1>4, <1>8, <1>10, <1>17 DEF Redistributed, w
<1>12. g[p].keys[j] = x[1]
  <2>1. IsInternal(h[p], DOMAIN h) /\ j \in 1 .. Len(h[p].keys)
    BY DEF Neighbours, j
  <2>2. IsKey(x[1])
    BY <1>8 DEF IsKey
  <2> DEFINE node == h[p]
             key == x[1]
  <2> HIDE DEF node, key
  <2>3. RenewedIs(node, j, key, Renewed(node, j, key))
    BY <2>1, <2>2, RenewedNode DEF node, key
  <2> QED BY <1>4, <2>3 DEF RenewedIs, node, key
<1>13. Proper(g, p, j, l, r)
  BY <1>6, <1>7, <1>9, <1>12 DEF Proper
<1>14. Count(g, l) = Count(h, l) - 1 /\ Count(g, r) = Count(h, r) + 1
  BY <1>5, <1>9 DEF Count
<1>15. Neighbours(h, ht, iv, p, j, l, r)
  BY DEF j
<1>16. Lent(h, ht, iv, g, p, l, r)
  BY <1>11, <1>13, <1>14, <1>15, RedistributedLent
<1> QED BY <1>16 DEF g

LEMMA LendsRightInternal ==
  ASSUME NEW h, NEW ht, NEW iv, Tree(h, ht, iv),
         NEW p, NEW i \in Nat, NEW l, NEW r, Neighbours(h, ht, iv, p, i - 1, l, r),
         Count(h, l) >= 2, ~h[r].leaf
  PROVE  Lent(h, ht, iv, BorrowFromLeft(h, p, i), p, l, r)
<1> DEFINE a == h[l].keys
           b == h[r].keys
           c == h[l].kids
           d == h[r].kids
           g == BorrowFromLeft(h, p, i)
           j == i - 1
           old == h[p].keys[j]
           key == Last(a)
           D == DOMAIN h
<1>1. /\ p \in DOMAIN h /\ l \in DOMAIN h /\ r \in DOMAIN h /\ p # l /\ p # r /\ l # r
      /\ h[p].kids[j] = l /\ h[p].kids[j + 1] = r /\ old \in Int
      /\ IsInternal(h[l], D) /\ IsInternal(h[r], D) /\ h[l].leaf = FALSE /\ h[r].leaf = FALSE
  BY DEF Neighbours
<1>2. h = [q \in DOMAIN h |-> h[q]]
  BY DEF Tree, IsHeap
<1>3. h[p].kids[i] = r
  <2>1. j + 1 = i
    OBVIOUS
  <2> QED BY <1>1, <2>1
<1>4. /\ g = [q \in DOMAIN h |-> g[q]]
      /\ \A q \in DOMAIN h \ {p, l, r} : g[q] = h[q]
      /\ g[r] = Internal(<<old>> \o b, <<Last(c)>> \o d)
      /\ g[p] = Renewed(h[p], j, key)
      /\ g[l] = Internal(Front(a), Front(c))
  BY <1>1, <1>2, <1>3 DEF BorrowFromLeft
<1>5. /\ a \in Seq(Int) /\ b \in Seq(Int) /\ c \in Seq(D) /\ d \in Seq(D)
      /\ Len(c) = Len(a) + 1 /\ Len(d) = Len(b) + 1
      /\ Count(h, l) = Len(a) /\ Count(h, r) = Len(b)
  BY <1>1 DEF IsInternal, Count, Size
<1> HIDE DEF a, b, c, d, g, j, old, D
<1>6. Len(a) \in Nat /\ Len(b) \in Nat /\ Len(a) >= 2 /\ Len(a) >= 1 /\ Len(c) >= 1
  BY <1>5, Elements
<1>7. /\ Front(a) \in Seq(Int) /\ key \in Int /\ <<old>> \o b \in Seq(Int)
      /\ Len(Front(a)) = Len(a) - 1 /\ Len(<<old>> \o b) = Len(b) + 1
      /\ JoinedBy(Front(a), key, <<old>> \o b, Append(a, old) \o b)
  <2> DEFINE Z == Int
  <2>1. a \in Seq(Z) /\ b \in Seq(Z) /\ old \in Z
    BY <1>1, <1>5
  <2> HIDE DEF Z
  <2>2. LentRightByIs(Z, a, b, old)
    BY <1>6, <2>1, LentRightBy
  <2> QED BY <2>2 DEF LentRightByIs, Z
<1> HIDE DEF key
<1>8. /\ Front(c) \in Seq(D) /\ <<Last(c)>> \o d \in Seq(D)
      /\ Len(Front(c)) = Len(c) - 1 /\ Len(<<Last(c)>> \o d) = Len(d) + 1
      /\ Joined(Front(c), <<Last(c)>> \o d, c \o d)
  <2>1. LentRightIs(D, c, d)
    BY <1>5, <1>6, LentRight
  <2> QED BY <2>1 DEF LentRightIs
<1>9. /\ IsInternal(g[r], D) /\ g[r].keys = <<old>> \o b /\ g[r].kids = <<Last(c)>> \o d
      /\ IsInternal(g[l], D) /\ g[l].keys = Front(a) /\ g[l].kids = Front(c)
      /\ g[l].leaf = FALSE /\ Size(g[r]) = Len(b) + 1 /\ Size(g[l]) = Len(a) - 1
  <2>1. InternalIs(g[r], D, <<old>> \o b, <<Last(c)>> \o d)
    <3>1. Len(<<Last(c)>> \o d) = Len(<<old>> \o b) + 1
      BY <1>5, <1>6, <1>7, <1>8
    <3> QED BY <1>4, <1>7, <1>8, <3>1, InternalNodeIs
  <2>2. InternalIs(g[l], D, Front(a), Front(c))
    <3>1. Len(Front(c)) = Len(Front(a)) + 1
      BY <1>5, <1>6, <1>7, <1>8
    <3> QED BY <1>4, <1>7, <1>8, <3>1, InternalNodeIs
  <2> QED BY <1>7, <2>1, <2>2 DEF InternalIs
<1>10. HalvedInternal(g[l], key, g[r], Merged(h, l, old, r), D)
  <2>1. /\ HalvedInternal(h[l], old, h[r], Merged(h, l, old, r), D)
        /\ Merged(h, l, old, r).keys = Append(a, old) \o b
        /\ Merged(h, l, old, r).kids = c \o d
    <3>1. MergedInternalIs(h[l], old, h[r], Merged(h, l, old, r), D)
      BY <1>1, MergedInternals DEF j, old, D
    <3> QED BY <3>1 DEF MergedInternalIs, a, b, c, d
  <2> QED BY <1>7, <1>8, <1>9, <2>1 DEF HalvedInternal
<1>11. Redistributed(h, g, p, j, l, r, key)
  BY <1>1, <1>4, <1>7, <1>10 DEF Redistributed, old, D
<1>12. Proper(g, p, j, l, r)
  BY <1>6, <1>7, <1>9 DEF Proper
<1>13. Count(g, l) = Count(h, l) - 1 /\ Count(g, r) = Count(h, r) + 1
  BY <1>5, <1>9 DEF Count
<1>14. Neighbours(h, ht, iv, p, j, l, r)
  BY DEF j
<1>15. Lent(h, ht, iv, g, p, l, r)
  BY <1>11, <1>12, <1>13, <1>14, RedistributedLent
<1> QED BY <1>15 DEF g

LEMMA LendsLeftLeaf ==
  ASSUME NEW h, NEW ht, NEW iv, Tree(h, ht, iv),
         NEW p, NEW i \in Nat, NEW l, NEW r, Neighbours(h, ht, iv, p, i, l, r),
         Count(h, r) >= 2, h[l].leaf
  PROVE  Lent(h, ht, iv, BorrowFromRight(h, p, i), p, r, l)
<1> DEFINE a == h[l].data
           b == h[r].data
           x == b[1]
           y == b[2]
           g == BorrowFromRight(h, p, i)
           T == Keys \X Values
<1>1. /\ p \in DOMAIN h /\ l \in DOMAIN h /\ r \in DOMAIN h /\ p # l /\ p # r /\ l # r
      /\ h[p].kids[i] = l /\ h[p].kids[i + 1] = r
      /\ IsLeaf(h[l]) /\ IsLeaf(h[r]) /\ h[l].leaf = TRUE /\ h[r].leaf = TRUE
  BY DEF Neighbours
<1>2. h = [q \in DOMAIN h |-> h[q]]
  BY DEF Tree, IsHeap
<1>4. /\ g = [q \in DOMAIN h |-> g[q]]
      /\ \A q \in DOMAIN h \ {p, l, r} : g[q] = h[q]
      /\ g[l] = WithData(h[l], Append(a, x))
      /\ g[p] = Renewed(h[p], i, y[1])
      /\ g[r] = WithData(h[r], Tail(b))
  BY <1>1, <1>2 DEF BorrowFromRight
<1>5. a \in Seq(T) /\ b \in Seq(T) /\ Count(h, l) = Len(a) /\ Count(h, r) = Len(b)
  BY <1>1 DEF IsLeaf, Count, Size
<1> HIDE DEF a, b, g, T
<1>6. Len(a) \in Nat /\ Len(b) \in Nat /\ Len(b) >= 2 /\ Len(b) >= 1
  BY <1>5, Elements
<1>7. /\ Append(a, x) \in Seq(T) /\ Tail(b) \in Seq(T)
      /\ Len(Append(a, x)) = Len(a) + 1 /\ Len(Tail(b)) = Len(b) - 1
      /\ Tail(b)[1] = y
      /\ Joined(Append(a, x), Tail(b), a \o b)
  <2>1. LentLeftIs(T, a, b)
    BY <1>5, <1>6, LentLeft
  <2> QED BY <1>6, <2>1 DEF LentLeftIs
<1>8. y[1] \in Int
  <2>1. 2 \in 1 .. Len(b)
    BY <1>6
  <2>2. y \in T
    BY <1>5, <2>1, Elements
  <2> QED BY <2>2, TreeAssumption DEF T
<1> HIDE DEF x, y
<1>9. /\ IsLeaf(g[r]) /\ g[r].data = Tail(b) /\ Size(g[r]) = Len(b) - 1
      /\ IsLeaf(g[l]) /\ g[l].data = Append(a, x) /\ g[l].leaf = TRUE /\ Size(g[l]) = Len(a) + 1
  <2>1. LeafIs(g[r], Tail(b)) /\ LeafIs(g[l], Append(a, x))
    BY <1>4, <1>7, WithDataNode DEF T
  <2> QED BY <1>7, <2>1 DEF LeafIs
<1> DEFINE w == Merged(h, l, h[p].keys[i], r)
<1> HIDE DEF w
<1>10. HalvedLeaf(g[l], g[r], w)
  <2>1. HalvedLeaf(h[l], h[r], w) /\ w.data = a \o b
    <3>1. MergedLeafIs(h[l], h[r], w)
      BY <1>1, MergedLeaves DEF w
    <3> QED BY <3>1 DEF MergedLeafIs, a, b
  <2>2. SameLinks(w, g[r])
    <3>1. SameLinks(g[r], h[r])
      BY <1>4, WithDataLinks
    <3> QED BY <2>1, <3>1 DEF HalvedLeaf, SameLinks
  <2> QED BY <1>7, <1>9, <2>1, <2>2 DEF HalvedLeaf, SameLinks
<1>16. SameLinks(g[l], h[l])
  BY <1>4, WithDataLinks
<1>11. Redistributed(h, g, p, i, l, r, y[1])
  BY <1>1, <1>4, <1>8, <1>10, <1>16 DEF Redistributed, w
<1>12. g[p].keys[i] = y[1]
  <2>1. IsInternal(h[p], DOMAIN h) /\ i \in 1 .. Len(h[p].keys)
    BY DEF Neighbours
  <2>2. IsKey(y[1])
    BY <1>8 DEF IsKey
  <2> DEFINE node == h[p]
             key == y[1]
  <2> HIDE DEF node, key
  <2>3. RenewedIs(node, i, key, Renewed(node, i, key))
    BY <2>1, <2>2, RenewedNode DEF node, key
  <2> QED BY <1>4, <2>3 DEF RenewedIs, node, key
<1>13. Proper(g, p, i, l, r)
  BY <1>6, <1>7, <1>9, <1>12 DEF Proper
<1>14. Count(g, r) = Count(h, r) - 1 /\ Count(g, l) = Count(h, l) + 1
  BY <1>5, <1>9 DEF Count
<1>15. Lent(h, ht, iv, g, p, r, l)
  BY <1>11, <1>13, <1>14, RedistributedLent
<1> QED BY <1>15 DEF g

LEMMA LendsLeftInternal ==
  ASSUME NEW h, NEW ht, NEW iv, Tree(h, ht, iv),
         NEW p, NEW i \in Nat, NEW l, NEW r, Neighbours(h, ht, iv, p, i, l, r),
         Count(h, r) >= 2, ~h[l].leaf
  PROVE  Lent(h, ht, iv, BorrowFromRight(h, p, i), p, r, l)
<1> DEFINE a == h[l].keys
           b == h[r].keys
           c == h[l].kids
           d == h[r].kids
           g == BorrowFromRight(h, p, i)
           old == h[p].keys[i]
           key == b[1]
           D == DOMAIN h
<1>1. /\ p \in DOMAIN h /\ l \in DOMAIN h /\ r \in DOMAIN h /\ p # l /\ p # r /\ l # r
      /\ h[p].kids[i] = l /\ h[p].kids[i + 1] = r /\ old \in Int
      /\ IsInternal(h[l], D) /\ IsInternal(h[r], D) /\ h[l].leaf = FALSE /\ h[r].leaf = FALSE
  BY DEF Neighbours
<1>2. h = [q \in DOMAIN h |-> h[q]]
  BY DEF Tree, IsHeap
<1>4. /\ g = [q \in DOMAIN h |-> g[q]]
      /\ \A q \in DOMAIN h \ {p, l, r} : g[q] = h[q]
      /\ g[l] = Internal(Append(a, old), Append(c, d[1]))
      /\ g[p] = Renewed(h[p], i, key)
      /\ g[r] = Internal(Tail(b), Tail(d))
  BY <1>1, <1>2 DEF BorrowFromRight
<1>5. /\ a \in Seq(Int) /\ b \in Seq(Int) /\ c \in Seq(D) /\ d \in Seq(D)
      /\ Len(c) = Len(a) + 1 /\ Len(d) = Len(b) + 1
      /\ Count(h, l) = Len(a) /\ Count(h, r) = Len(b)
  BY <1>1 DEF IsInternal, Count, Size
<1> HIDE DEF a, b, c, d, g, old, D
<1>6. Len(a) \in Nat /\ Len(b) \in Nat /\ Len(b) >= 1 /\ Len(d) >= 1
  BY <1>5, Elements
<1>7. /\ Append(a, old) \in Seq(Int) /\ key \in Int /\ Tail(b) \in Seq(Int)
      /\ Len(Append(a, old)) = Len(a) + 1 /\ Len(Tail(b)) = Len(b) - 1
      /\ JoinedBy(Append(a, old), key, Tail(b), Append(a, old) \o b)
  <2> DEFINE Z == Int
  <2>1. a \in Seq(Z) /\ b \in Seq(Z) /\ old \in Z
    BY <1>1, <1>5
  <2> HIDE DEF Z
  <2>2. LentLeftByIs(Z, a, b, old)
    BY <1>6, <2>1, LentLeftBy
  <2> QED BY <2>2 DEF LentLeftByIs, Z
<1> HIDE DEF key
<1>8. /\ Append(c, d[1]) \in Seq(D) /\ Tail(d) \in Seq(D)
      /\ Len(Append(c, d[1])) = Len(c) + 1 /\ Len(Tail(d)) = Len(d) - 1
      /\ Joined(Append(c, d[1]), Tail(d), c \o d)
  <2>1. LentLeftIs(D, c, d)
    BY <1>5, <1>6, LentLeft
  <2> QED BY <2>1 DEF LentLeftIs
<1>9. /\ IsInternal(g[l], D) /\ g[l].keys = Append(a, old) /\ g[l].kids = Append(c, d[1])
      /\ IsInternal(g[r], D) /\ g[r].keys = Tail(b) /\ g[r].kids = Tail(d)
      /\ g[l].leaf = FALSE /\ Size(g[l]) = Len(a) + 1 /\ Size(g[r]) = Len(b) - 1
  <2>1. InternalIs(g[l], D, Append(a, old), Append(c, d[1]))
    <3>1. Len(Append(c, d[1])) = Len(Append(a, old)) + 1
      BY <1>5, <1>6, <1>7, <1>8
    <3> QED BY <1>4, <1>7, <1>8, <3>1, InternalNodeIs
  <2>2. InternalIs(g[r], D, Tail(b), Tail(d))
    <3>1. Len(Tail(d)) = Len(Tail(b)) + 1
      BY <1>5, <1>6, <1>7, <1>8
    <3> QED BY <1>4, <1>7, <1>8, <3>1, InternalNodeIs
  <2> QED BY <1>7, <2>1, <2>2 DEF InternalIs
<1>10. HalvedInternal(g[l], key, g[r], Merged(h, l, old, r), D)
  <2>1. /\ HalvedInternal(h[l], old, h[r], Merged(h, l, old, r), D)
        /\ Merged(h, l, old, r).keys = Append(a, old) \o b
        /\ Merged(h, l, old, r).kids = c \o d
    <3>1. MergedInternalIs(h[l], old, h[r], Merged(h, l, old, r), D)
      BY <1>1, MergedInternals DEF old, D
    <3> QED BY <3>1 DEF MergedInternalIs, a, b, c, d
  <2> QED BY <1>7, <1>8, <1>9, <2>1 DEF HalvedInternal
<1>11. Redistributed(h, g, p, i, l, r, key)
  BY <1>1, <1>4, <1>7, <1>10 DEF Redistributed, old, D
<1>12. Proper(g, p, i, l, r)
  BY <1>6, <1>7, <1>9 DEF Proper
<1>13. Count(g, r) = Count(h, r) - 1 /\ Count(g, l) = Count(h, l) + 1
  BY <1>5, <1>9 DEF Count
<1>15. Lent(h, ht, iv, g, p, r, l)
  BY <1>11, <1>12, <1>13, RedistributedLent
<1> QED BY <1>15 DEF g

\* The left one of two neighbours gives its last entry to the right one, and the
\* other way round.
LEMMA LendsRight ==
  ASSUME NEW h, NEW ht, NEW iv, Tree(h, ht, iv),
         NEW p, NEW i \in Nat, NEW l, NEW r, Neighbours(h, ht, iv, p, i - 1, l, r),
         Count(h, l) >= 2
  PROVE  Lent(h, ht, iv, BorrowFromLeft(h, p, i), p, l, r)
BY LendsRightLeaf, LendsRightInternal

LEMMA LendsLeft ==
  ASSUME NEW h, NEW ht, NEW iv, Tree(h, ht, iv),
         NEW p, NEW i \in Nat, NEW l, NEW r, Neighbours(h, ht, iv, p, i, l, r),
         Count(h, r) >= 2
  PROVE  Lent(h, ht, iv, BorrowFromRight(h, p, i), p, r, l)
BY LendsLeftLeaf, LendsLeftInternal

-----------------------------------------------------------------------------
(* Splitting *)

LEMMA FreshNode ==
  ASSUME NEW h, IsHeap(h)
  PROVE  Fresh(h) \notin DOMAIN h /\ Fresh(h) \in Nat \ {0}
<1> DEFINE n == Cardinality(DOMAIN h)
<1>1. IsFiniteSet(DOMAIN h) /\ n \in Nat
  BY FS_CardinalityType DEF IsHeap
<1>2. \E q \in 1 .. (n + 1) : q \notin DOMAIN h
  <2> SUFFICES ASSUME 1 .. (n + 1) \subseteq DOMAIN h PROVE FALSE
    OBVIOUS
  <2>1. Cardinality(1 .. (n + 1)) <= n
    BY <1>1, FS_Subset
  <2>2. Cardinality(1 .. (n + 1)) = n + 1
    <3>1. 1 \in Int /\ n + 1 \in Int /\ ~(1 > n + 1) /\ (n + 1) - 1 + 1 = n + 1
      BY <1>1
    <3>2. Cardinality(1 .. (n + 1)) = IF 1 > n + 1 THEN 0 ELSE (n + 1) - 1 + 1
      BY <3>1, FS_Interval
    <3> QED BY <3>1, <3>2
  <2> QED BY <1>1, <2>1, <2>2
<1>3. Fresh(h) \in 1 .. (n + 1) /\ Fresh(h) \notin DOMAIN h
  BY <1>2 DEF Fresh
<1> QED BY <1>1, <1>3

LEMMA InternalGrows ==
  ASSUME NEW D, NEW E, D \subseteq E, NEW node, IsInternal(node, D)
  PROVE  IsInternal(node, E)
<1>1. node.kids \in Seq(D)
  BY DEF IsInternal
<1>2. \A j \in 1 .. Len(node.kids) : node.kids[j] \in E
  BY <1>1, Elements
<1>3. node.kids \in Seq(E)
  BY <1>1, <1>2, Elements
<1> QED BY <1>3 DEF IsInternal

\* The child l of p at position i keeps "left" keys, a new node n behind it has
\* "right" keys.
SplitInto(h, ht, iv, g, p, i, l, n, left, right) ==
  /\ Rearranged(h, ht, iv, g, p)
  /\ Effect(h, g, p, {l, n}, 1)
  /\ n \notin DOMAIN h /\ DOMAIN g = DOMAIN h \cup {n}
  /\ g[p].leaf = FALSE
  /\ Count(g, l) = left /\ Count(g, n) = right

\* The heap after a split, and what it takes to be the one before with a child of
\* p in two halves.
SplitHeap(h, g, p, i, l, n, key) ==
  /\ DOMAIN g = DOMAIN h \cup {n} /\ g = [q \in DOMAIN g |-> g[q]]
  /\ \A q \in DOMAIN h \ {p, l} : g[q] = h[q]
  /\ key \in Int /\ g[p] = Extended(h[p], i, key, n)
  /\ h[l].leaf => HalvedLeaf(g[l], g[n], h[l])
  /\ ~h[l].leaf => HalvedInternal(g[l], key, g[n], h[l], DOMAIN g)
  /\ LeadsTo(g, l, n)

LEMMA SplitHeapSplits ==
  ASSUME NEW h, NEW ht, NEW iv, Tree(h, ht, iv), NEW p \in DOMAIN h, h[p].leaf = FALSE,
         NEW i \in 1 .. Len(h[p].kids), NEW l, l = h[p].kids[i],
         NEW n, n \notin DOMAIN h, n \in Nat \ {0},
         NEW g, NEW key, SplitHeap(h, g, p, i, l, n, key),
         g[p].keys[i] = key => Proper(g, p, i, l, n)
  PROVE  SplitInto(h, ht, iv, g, p, i, l, n, Count(g, l), Count(g, n))
<1>1. InternalFits(h, ht, iv, p) /\ IsInternal(h[p], DOMAIN h) /\ IsHeap(h)
  BY Kind, NodeKind DEF Tree
<1>2. Children(h, ht, iv, p)
  BY <1>1, Family
<1>3. l \in DOMAIN h /\ l # p
  BY <1>2 DEF Children
<1>4. /\ DOMAIN g = DOMAIN h \cup {n} /\ g = [q \in DOMAIN g |-> g[q]]
      /\ \A q \in DOMAIN h \ {p, l} : g[q] = h[q]
      /\ key \in Int /\ g[p] = Extended(h[p], i, key, n)
  BY DEF SplitHeap
<1> DEFINE node == h[p]
<1>5. IsInternal(node, DOMAIN h) /\ i \in 1 .. Len(node.kids) /\ IsKey(key)
  BY <1>1, <1>4 DEF IsKey
<1> HIDE DEF node
<1>6. /\ IsInternal(Extended(node, i, key, n), DOMAIN h \cup {n})
      /\ ExtendedIs(node, i, key, n, Extended(node, i, key, n))
  BY <1>5, ExtendedNode
<1>7. IsInternal(g[p], DOMAIN g) /\ ExtendedIs(h[p], i, key, n, g[p])
  BY <1>4, <1>6 DEF node
<1>8. HalvedAbove(g[p], h[p], i, l, n, DOMAIN g)
  <2>1. IsInternal(h[p], DOMAIN g)
    BY <1>1, <1>4, InternalGrows
  <2> QED BY <1>7, <2>1 DEF HalvedAbove, ExtendedIs
<1>9. IsHeap(g)
  <2>1. IsFiniteSet(DOMAIN h) /\ DOMAIN h \subseteq Nat \ {0}
    BY <1>1 DEF IsHeap
  <2>2. IsFiniteSet(DOMAIN h \cup {n})
    BY <2>1, FS_AddElement
  <2> QED BY <1>4, <2>1, <2>2 DEF IsHeap
<1>10. Halved(g, h, p, i, l, n)
  BY <1>3, <1>4 DEF Halved
<1>11. HalvedLeaf(g[l], g[n], h[l]) \/ HalvedInternal(g[l], g[p].keys[i], g[n], h[l], DOMAIN g)
  BY <1>7 DEF SplitHeap, ExtendedIs
<1>12. Halves(g, h, p, i, l, n)
  BY <1>1, <1>8, <1>9, <1>10, <1>11 DEF Halves
<1>13. Proper(g, p, i, l, n)
  BY <1>7 DEF ExtendedIs
<1>17. LeadsTo(g, l, n)
  BY DEF SplitHeap
<1>14. Rearranged(h, ht, iv, g, p)
  BY <1>12, <1>13, <1>17, CutRearranges
<1>15. Effect(h, g, p, {l, n}, 1)
  <2>1. Size(h[p]) = Len(h[p].keys)
    BY DEF Size
  <2>2. Count(g, p) = Count(h, p) + 1
    BY <1>7, <2>1 DEF ExtendedIs, Count
  <2> QED BY <1>4, <2>2 DEF Effect
<1>16. g[p].leaf = FALSE
  BY <1>7 DEF ExtendedIs
<1> QED BY <1>4, <1>14, <1>15, <1>16 DEF SplitInto

LEMMA SplitsLeaf ==
  ASSUME NEW h, NEW ht, NEW iv, Tree(h, ht, iv), NEW p \in DOMAIN h, h[p].leaf = FALSE,
         NEW i \in 1 .. Len(h[p].kids), NEW l, l = h[p].kids[i], h[l].leaf,
         NEW at \in 1 .. Count(h, l) - 1
  PROVE  SplitInto(h, ht, iv, SplitAt(h, p, i, at), p, i, l, Fresh(h), at, Count(h, l) - at)
<1> DEFINE n == Fresh(h)
           g == SplitAt(h, p, i, at)
           s == h[l].data
           a == SubSeq(s, 1, at)
           b == SubSeq(s, at + 1, Len(s))
           key == s[at + 1][1]
           T == Keys \X Values
<1>1. IsHeap(h) /\ h = [q \in DOMAIN h |-> h[q]] /\ n \notin DOMAIN h /\ n \in Nat \ {0}
  <2>1. IsHeap(h)
    BY DEF Tree
  <2> QED BY <2>1, FreshNode DEF IsHeap
<1>2. l \in DOMAIN h /\ l # p
  <2>1. Children(h, ht, iv, p)
    BY Kind, Family
  <2> QED BY <2>1 DEF Children
<1>3. IsLeaf(h[l]) /\ h[l].leaf = TRUE
  BY <1>2, NodeKind
<1>4. s \in Seq(T) /\ Count(h, l) = Len(s)
  BY <1>3 DEF IsLeaf, Count, Size
<1> HIDE DEF n
<1>5. /\ DOMAIN g = DOMAIN h \cup {n} /\ g = [q \in DOMAIN g |-> g[q]]
      /\ \A q \in DOMAIN h \ {p, l} : g[q] = h[q]
      /\ g[p] = Extended(h[p], i, key, n)
      /\ g[l] = Leaf(n, <<>>, a)
      /\ g[n] = WithData(h[l], b)
  BY <1>1, <1>2, <1>3 DEF SplitAt, Put, n
<1> HIDE DEF s, g
<1>6. Len(s) \in Nat /\ at \in 0 .. Len(s) /\ at \in Nat /\ at >= 1 /\ Len(s) - at >= 1
      /\ at + 1 \in 1 .. Len(s)
  <2>1. Len(s) \in Nat /\ at \in 1 .. Len(s) - 1
    BY <1>4, Elements
  <2> QED BY <2>1
<1>7. /\ a \in Seq(T) /\ b \in Seq(T) /\ Len(a) = at /\ Len(b) = Len(s) - at
      /\ Joined(a, b, s)
  BY <1>4, <1>6, CutJoins
<1>8. b[1] = s[at + 1]
  <2> DEFINE m == Len(a)
  <2>1. 1 \in 1 .. Len(b) /\ \A j \in 1 .. Len(b) : s[Len(a) + j] = b[j]
    BY <1>6, <1>7 DEF Joined
  <2> QED BY <1>7, <2>1
<1>9. key \in Int
  <2>1. s[at + 1] \in T
    BY <1>4, <1>6, Elements
  <2> QED BY <2>1, TreeAssumption DEF T
<1> HIDE DEF a, b, key
<1>10. /\ IsLeaf(g[l]) /\ g[l].data = a /\ g[l].leaf = TRUE /\ Size(g[l]) = at
       /\ IsLeaf(g[n]) /\ g[n].data = b /\ Size(g[n]) = Len(s) - at
  <2>1. LeafIs(g[l], a)
    BY <1>5, <1>7, LeafNodeIs DEF T
  <2>2. LeafIs(g[n], b)
    BY <1>5, <1>7, WithDataNode DEF T
  <2> QED BY <1>7, <2>1, <2>2 DEF LeafIs
<1>16. SameLinks(g[n], h[l])
  BY <1>5, WithDataLinks
<1>11. HalvedLeaf(g[l], g[n], h[l])
  BY <1>3, <1>7, <1>10, <1>16 DEF HalvedLeaf, SameLinks, s
<1>17. LeadsTo(g, l, n)
  BY <1>5 DEF LeadsTo, Leaf
<1>12. SplitHeap(h, g, p, i, l, n, key)
  BY <1>3, <1>5, <1>9, <1>11, <1>17 DEF SplitHeap
<1>13. g[p].keys[i] = key => Proper(g, p, i, l, n)
  BY <1>6, <1>7, <1>8, <1>10 DEF Proper, key
<1>14. SplitInto(h, ht, iv, g, p, i, l, n, Count(g, l), Count(g, n))
  BY <1>1, <1>12, <1>13, SplitHeapSplits
<1>15. Count(g, l) = at /\ Count(g, n) = Count(h, l) - at
  BY <1>4, <1>10 DEF Count
<1> QED BY <1>14, <1>15 DEF g, n

LEMMA SplitsInternal ==
  ASSUME NEW h, NEW ht, NEW iv, Tree(h, ht, iv), NEW p \in DOMAIN h, h[p].leaf = FALSE,
         NEW i \in 1 .. Len(h[p].kids), NEW l, l = h[p].kids[i], ~h[l].leaf,
         NEW at \in 1 .. Count(h, l) - 1
  PROVE  SplitInto(h, ht, iv, SplitAt(h, p, i, at), p, i, l, Fresh(h), at, Count(h, l) - at - 1)
<1> DEFINE n == Fresh(h)
           g == SplitAt(h, p, i, at)
           D == DOMAIN h
           s == h[l].keys
           c == h[l].kids
           a == SubSeq(s, 1, at)
           b == SubSeq(s, at + 2, Len(s))
           d == SubSeq(c, 1, at + 1)
           e == SubSeq(c, at + 2, Len(c))
           key == s[at + 1]
<1>1. IsHeap(h) /\ h = [q \in DOMAIN h |-> h[q]] /\ n \notin DOMAIN h /\ n \in Nat \ {0}
  <2>1. IsHeap(h)
    BY DEF Tree
  <2> QED BY <2>1, FreshNode DEF IsHeap
<1>2. l \in DOMAIN h /\ l # p
  <2>1. Children(h, ht, iv, p)
    BY Kind, Family
  <2> QED BY <2>1 DEF Children
<1>3. IsInternal(h[l], D) /\ h[l].leaf = FALSE
  BY <1>2, NodeKind
<1>4. s \in Seq(Int) /\ c \in Seq(D) /\ Len(c) = Len(s) + 1 /\ Count(h, l) = Len(s)
  BY <1>3 DEF IsInternal, Count, Size
<1> HIDE DEF n
<1>5. /\ DOMAIN g = DOMAIN h \cup {n} /\ g = [q \in DOMAIN g |-> g[q]]
      /\ \A q \in DOMAIN h \ {p, l} : g[q] = h[q]
      /\ g[p] = Extended(h[p], i, key, n)
      /\ g[l] = Internal(a, d)
      /\ g[n] = Internal(b, e)
  BY <1>1, <1>2, <1>3 DEF SplitAt, Put, n
<1> HIDE DEF s, c, g, D
<1>6. /\ Len(s) \in Nat /\ at \in 0 .. Len(s) - 1 /\ at \in Nat /\ at >= 1
      /\ at + 1 \in 0 .. Len(c) /\ (at + 1) + 1 = at + 2
  <2>1. Len(s) \in Nat /\ at \in 1 .. Len(s) - 1
    BY <1>4, Elements
  <2> QED BY <1>4, <2>1
<1>7. /\ a \in Seq(Int) /\ key \in Int /\ b \in Seq(Int)
      /\ Len(a) = at /\ Len(b) = Len(s) - at - 1
      /\ JoinedBy(a, key, b, s)
  <2> DEFINE Z == Int
  <2>1. s \in Seq(Z)
    BY <1>4
  <2> HIDE DEF Z
  <2>2. CutByIs(Z, s, at)
    BY <1>6, <2>1, CutJoinsBy
  <2> QED BY <2>2 DEF CutByIs, Z
<1>8. /\ d \in Seq(D) /\ e \in Seq(D) /\ Len(d) = at + 1 /\ Len(e) = Len(c) - (at + 1)
      /\ Joined(d, e, c)
  <2>1. /\ d \in Seq(D) /\ SubSeq(c, (at + 1) + 1, Len(c)) \in Seq(D)
        /\ Len(d) = at + 1 /\ Len(SubSeq(c, (at + 1) + 1, Len(c))) = Len(c) - (at + 1)
        /\ Joined(d, SubSeq(c, (at + 1) + 1, Len(c)), c)
    BY <1>4, <1>6, CutJoins
  <2>2. (at + 1) + 1 = at + 2
    BY <1>6
  <2>3. e \in Seq(D) /\ Len(e) = Len(c) - (at + 1) /\ Joined(d, e, c)
    BY <2>1, <2>2
  <2> QED BY <2>1, <2>3
<1> HIDE DEF a, b, d, e, key
<1>9. /\ IsInternal(g[l], DOMAIN g) /\ g[l].keys = a /\ g[l].kids = d /\ g[l].leaf = FALSE
      /\ Size(g[l]) = at
      /\ IsInternal(g[n], DOMAIN g) /\ g[n].keys = b /\ g[n].kids = e
      /\ Size(g[n]) = Len(s) - at - 1
  <2>1. Len(d) = Len(a) + 1 /\ Len(e) = Len(b) + 1
    BY <1>4, <1>6, <1>7, <1>8, SMTT(40)
  <2>2. InternalIs(g[l], D, a, d)
    BY <1>5, <1>7, <1>8, <2>1, InternalNodeIs
  <2>3. InternalIs(g[n], D, b, e)
    BY <1>5, <1>7, <1>8, <2>1, InternalNodeIs
  <2>4. D \subseteq DOMAIN g
    BY <1>5 DEF D
  <2>5. IsInternal(g[l], DOMAIN g) /\ IsInternal(g[n], DOMAIN g)
    BY <2>2, <2>3, <2>4, InternalGrows DEF InternalIs
  <2> QED BY <1>7, <2>2, <2>3, <2>5 DEF InternalIs
<1>10. IsInternal(h[l], DOMAIN g)
  BY <1>3, <1>5, InternalGrows DEF D
<1>11. HalvedInternal(g[l], key, g[n], h[l], DOMAIN g)
  BY <1>7, <1>8, <1>9, <1>10 DEF HalvedInternal, s, c
<1>16. LeadsTo(g, l, n)
  BY <1>5 DEF LeadsTo, Internal
<1>12. SplitHeap(h, g, p, i, l, n, key)
  BY <1>3, <1>5, <1>7, <1>11, <1>16 DEF SplitHeap
<1>13. Proper(g, p, i, l, n)
  BY <1>6, <1>7, <1>9 DEF Proper
<1>14. SplitInto(h, ht, iv, g, p, i, l, n, Count(g, l), Count(g, n))
  BY <1>1, <1>12, <1>13, SplitHeapSplits
<1>15. Count(g, l) = at /\ Count(g, n) = Count(h, l) - at - 1
  BY <1>4, <1>9 DEF Count
<1> QED BY <1>14, <1>15 DEF g, n

-----------------------------------------------------------------------------
(* Merging *)

\* The child l of p takes in the next one, r.
MergedInto(h, ht, iv, g, p, l, r, n) ==
  /\ Rearranged(h, ht, iv, g, p)
  /\ Effect(h, g, p, {l}, -1)
  /\ DOMAIN g = DOMAIN h \ {r}
  /\ g[p].leaf = FALSE
  /\ Count(g, l) = n

LEMMA Merge2IsJoin ==
  ASSUME NEW h, NEW ht, NEW iv, Tree(h, ht, iv),
         NEW p, NEW l, NEW r, Neighbours(h, ht, iv, p, 1, l, r)
  PROVE  Merge2(h, p) = JoinAt(h, p, 1)
<1>1. /\ p \in DOMAIN h /\ l \in DOMAIN h /\ r \in DOMAIN h /\ p # l /\ p # r /\ l # r
      /\ h[p].kids[1] = l /\ h[p].kids[1 + 1] = r
  BY DEF Neighbours
<1>2. h[p].kids[2] = r
  <2>1. 1 + 1 = 2
    OBVIOUS
  <2> QED BY <1>1, <2>1
<1>3. h = [q \in DOMAIN h |-> h[q]]
  BY DEF Tree, IsHeap
<1>4. /\ Merge2(h, p) = [q \in DOMAIN Merge2(h, p) |-> Merge2(h, p)[q]]
      /\ DOMAIN Merge2(h, p) = DOMAIN h \ {r}
      /\ \A q \in DOMAIN h \ {r} :
           Merge2(h, p)[q] = IF q = l THEN Merged(h, l, h[p].keys[1], r)
                             ELSE IF q = p THEN Shortened(h[p], 1) ELSE h[q]
  BY <1>1, <1>2, <1>3 DEF Merge2, Without, Merged
<1>5. JoinAt(h, p, 1) = [q \in DOMAIN h \ {r} |->
                           IF q = l THEN Merged(h, l, h[p].keys[1], r)
                           ELSE IF q = p THEN Shortened(h[p], 1) ELSE h[q]]
  BY <1>1 DEF JoinAt
<1> DEFINE g == Merge2(h, p)
           F(q) == IF q = l THEN Merged(h, l, h[p].keys[1], r)
                   ELSE IF q = p THEN Shortened(h[p], 1) ELSE h[q]
<1> HIDE DEF g, F
<1>6. g = [q \in DOMAIN h \ {r} |-> F(q)]
  BY <1>4 DEF g, F
<1> QED BY <1>5, <1>6 DEF g, F

LEMMA JoinsInto ==
  ASSUME NEW h, NEW ht, NEW iv, Tree(h, ht, iv),
         NEW p, NEW i, NEW l, NEW r, Neighbours(h, ht, iv, p, i, l, r)
  PROVE  MergedInto(h, ht, iv, JoinAt(h, p, i), p, l, r,
                    IF h[l].leaf THEN Count(h, l) + Count(h, r)
                    ELSE Count(h, l) + 1 + Count(h, r))
<1> DEFINE g == JoinAt(h, p, i)
           key == h[p].keys[i]
<1>1. IsHeap(h)
  BY DEF Tree
<1>2. Halves(h, g, p, i, l, r) /\ JoinAtIs(h, g, p, i, l, r)
  BY <1>1, JoinAtHalves
<1> HIDE DEF g
<1>3. Rearranged(h, ht, iv, g, p)
  BY <1>2, JoinRearranges
<1>4. /\ DOMAIN g = DOMAIN h \ {r}
      /\ g[p] = Shortened(h[p], i)
      /\ g[l] = Merged(h, l, key, r)
      /\ \A q \in DOMAIN h \ {p, l, r} : g[q] = h[q]
  BY <1>2 DEF JoinAtIs
<1>5. IsInternal(h[p], DOMAIN h) /\ i \in 1 .. Len(h[p].keys)
  BY DEF Neighbours
<1>6. g[p].leaf = FALSE /\ Size(g[p]) = Len(h[p].keys) - 1
  <2> DEFINE node == h[p]
  <2> HIDE DEF node
  <2>1. Size(Shortened(node, i)) = Len(node.keys) - 1
    BY <1>5, ShortenedNode DEF node
  <2>2. Shortened(node, i).leaf = FALSE
    BY DEF Shortened, Internal
  <2> QED BY <1>4, <2>1, <2>2 DEF node
<1>7. Size(h[p]) = Len(h[p].keys) /\ Len(h[p].keys) \in Nat
  <2>1. h[p].keys \in Seq(Int) /\ h[p].leaf = FALSE
    BY <1>5 DEF IsInternal, Internal
  <2> QED BY <2>1, Elements DEF Size
<1>8. Effect(h, g, p, {l}, -1)
  <2>1. Count(g, p) = Count(h, p) + -1
    BY <1>6, <1>7 DEF Count
  <2> QED BY <1>4, <2>1 DEF Effect
<1>9. Count(g, l) = IF h[l].leaf THEN Count(h, l) + Count(h, r)
                    ELSE Count(h, l) + 1 + Count(h, r)
  <2>1. CASE h[l].leaf
    <3>1. MergedLeafIs(h[l], h[r], g[l])
      BY <1>4, <2>1, MergedLeaves
    <3> QED BY <2>1, <3>1 DEF MergedLeafIs, Count
  <2>2. CASE ~h[l].leaf
    <3>1. MergedInternalIs(h[l], key, h[r], g[l], DOMAIN h)
      BY <1>4, <2>2, MergedInternals
    <3> QED BY <2>2, <3>1 DEF MergedInternalIs, Count
  <2> QED BY <2>1, <2>2
<1> QED BY <1>3, <1>4, <1>6, <1>8, <1>9 DEF MergedInto, g

\* Renewing one separator and removing the next one commute.
LEMMA RenewShorten ==
  ASSUME NEW S, NEW s \in Seq(S), NEW m \in Nat, m >= 2, m <= Len(s), NEW key \in S
  PROVE  RemoveAt([s EXCEPT ![m - 1] = key], m) = [RemoveAt(s, m) EXCEPT ![m - 1] = key]
<1> DEFINE t == [s EXCEPT ![m - 1] = key]
           u == RemoveAt(s, m)
           v == RemoveAt(t, m)
           w == [u EXCEPT ![m - 1] = key]
<1>1. Len(s) \in Nat /\ DOMAIN s = 1 .. Len(s) /\ m \in 1 .. Len(s) /\ m - 1 \in 1 .. Len(s)
      /\ m - 1 \in 1 .. Len(s) - 1
  BY Elements
<1>2. t \in Seq(S) /\ Len(t) = Len(s) /\ t[m - 1] = key
      /\ \A j \in 1 .. Len(s) : j # m - 1 => t[j] = s[j]
  BY <1>1, ExceptSeq
<1> HIDE DEF t
<1>3. /\ u \in Seq(S) /\ Len(u) = Len(s) - 1
      /\ \A j \in 1 .. m - 1 : u[j] = s[j]
      /\ \A j \in m .. Len(s) - 1 : u[j] = s[j + 1]
  BY <1>1, RemovedAt
<1>4. /\ v \in Seq(S) /\ Len(v) = Len(s) - 1
      /\ \A j \in 1 .. m - 1 : v[j] = t[j]
      /\ \A j \in m .. Len(s) - 1 : v[j] = t[j + 1]
  <2>1. m \in 1 .. Len(t)
    BY <1>1, <1>2
  <2>2. /\ v \in Seq(S) /\ Len(v) = Len(t) - 1
        /\ \A j \in 1 .. m - 1 : v[j] = t[j]
        /\ \A j \in m .. Len(t) - 1 : v[j] = t[j + 1]
    BY <1>2, <2>1, RemovedAt
  <2> QED BY <1>2, <2>2
<1> HIDE DEF u, v
<1>5. w \in Seq(S) /\ Len(w) = Len(u) /\ w[m - 1] = key
      /\ \A j \in 1 .. Len(u) : j # m - 1 => w[j] = u[j]
  <2>1. m - 1 \in 1 .. Len(u)
    BY <1>1, <1>3
  <2>2. /\ w \in Seq(S) /\ Len(w) = Len(u)
        /\ \A j \in 1 .. Len(u) : w[j] = IF j = m - 1 THEN key ELSE u[j]
    BY <1>3, <2>1, ExceptSeq
  <2> QED BY <2>1, <2>2
<1> HIDE DEF w
<1>6. ASSUME NEW j \in 1 .. Len(s) - 1 PROVE v[j] = w[j]
  <2>1. CASE j < m - 1
    <3>1. j \in 1 .. m - 1 /\ j # m - 1 /\ j \in 1 .. Len(s) /\ j \in 1 .. Len(u)
      BY <1>1, <1>3, <2>1
    <3> QED BY <1>2, <1>3, <1>4, <1>5, <3>1
  <2>2. CASE j = m - 1
    <3>1. j \in 1 .. m - 1
      BY <1>1, <2>2
    <3> QED BY <1>2, <1>4, <1>5, <2>2, <3>1
  <2>3. CASE j >= m
    <3>1. j \in m .. Len(s) - 1 /\ j # m - 1 /\ j \in 1 .. Len(u) /\ j + 1 # m - 1
          /\ j + 1 \in 1 .. Len(s)
      BY <1>1, <1>3, <2>3
    <3> QED BY <1>2, <1>3, <1>4, <1>5, <3>1
  <2> QED BY <1>1, <2>1, <2>2, <2>3
<1>7. v = w
  BY <1>3, <1>4, <1>5, <1>6, SeqEqual
<1> QED BY <1>7 DEF t, u, v, w

LEMMA RenewShortenNode ==
  ASSUME NEW D, NEW node, IsInternal(node, D), NEW m \in Nat, m >= 2, m <= Len(node.keys),
         NEW key, IsKey(key)
  PROVE  Shortened(Renewed(node, m - 1, key), m) = Renewed(Shortened(node, m), m - 1, key)
<1> DEFINE s == node.keys
           Z == Int
<1>1. s \in Seq(Z) /\ key \in Z /\ m <= Len(s)
  BY DEF IsInternal, IsKey
<1> HIDE DEF s, Z
<1>2. RemoveAt([s EXCEPT ![m - 1] = key], m) = [RemoveAt(s, m) EXCEPT ![m - 1] = key]
  BY <1>1, RenewShorten
<1> QED BY <1>2 DEF Shortened, Renewed, Internal, s

\* Three children of p in a row, and what becomes of them when the second takes in
\* the third.
Three(h, ht, iv, m1, p, m, l, c, r) ==
  /\ Neighbours(h, ht, iv, p, m - 1, l, c)
  /\ Neighbours(h, ht, iv, p, m, c, r)
  /\ l # r
  /\ IsHeap(m1)
  /\ Rearranged(h, ht, iv, m1, p)
  /\ DOMAIN m1 = DOMAIN h \ {r}
  /\ m1[p] = Shortened(h[p], m)
  /\ m1[c] = Merged(h, c, h[p].keys[m], r)
  /\ \A q \in DOMAIN h \ {p, c, r} : m1[q] = h[q]
  /\ m1[p].keys[m - 1] = h[p].keys[m - 1]
  /\ \A ht1, iv1 : Tree(m1, ht1, iv1) => Neighbours(m1, ht1, iv1, p, m - 1, l, c)

LEMMA ThreeChildren ==
  ASSUME NEW h, NEW ht, NEW iv, Tree(h, ht, iv), NEW p \in DOMAIN h, h[p].leaf = FALSE,
         NEW m \in Nat, m >= 2, m <= Len(h[p].keys)
  PROVE  Three(h, ht, iv, JoinAt(h, p, m), p, m, h[p].kids[m - 1], h[p].kids[m], h[p].kids[m + 1])
<1> DEFINE l == h[p].kids[m - 1]
           c == h[p].kids[m]
           r == h[p].kids[m + 1]
           m1 == JoinAt(h, p, m)
<1>1. InternalFits(h, ht, iv, p) /\ IsInternal(h[p], DOMAIN h) /\ IsHeap(h)
  BY Kind, NodeKind DEF Tree
<1>2. Parent(h, ht, iv, p)
  BY <1>1, Family
<1>3. Len(h[p].keys) \in Nat /\ Len(h[p].kids) = Len(h[p].keys) + 1
  BY <1>2 DEF Parent
<1>4. /\ m \in 1 .. Len(h[p].keys) /\ m - 1 \in 1 .. Len(h[p].keys)
      /\ m - 1 \in 1 .. Len(h[p].kids) /\ m + 1 \in 1 .. Len(h[p].kids) /\ m - 1 # m + 1
      /\ (m - 1) + 1 = m
  BY <1>3
<1>5. Neighbours(h, ht, iv, p, m, c, r)
  BY <1>4, AreNeighbours
<1>6. Neighbours(h, ht, iv, p, m - 1, l, c)
  <2>1. Neighbours(h, ht, iv, p, m - 1, h[p].kids[m - 1], h[p].kids[(m - 1) + 1])
    BY <1>4, AreNeighbours
  <2> QED BY <1>4, <2>1
<1>7. l # r
  BY <1>1, <1>4, OneParent
<1>8. Halves(h, m1, p, m, c, r) /\ JoinAtIs(h, m1, p, m, c, r)
  BY <1>1, <1>5, JoinAtHalves
<1> HIDE DEF m1
<1>9. Rearranged(h, ht, iv, m1, p) /\ IsHeap(m1)
  BY <1>8, JoinRearranges DEF Halves
<1>10. /\ DOMAIN m1 = DOMAIN h \ {r}
       /\ m1[p] = Shortened(h[p], m)
       /\ m1[c] = Merged(h, c, h[p].keys[m], r)
       /\ \A q \in DOMAIN h \ {p, c, r} : m1[q] = h[q]
  BY <1>8 DEF JoinAtIs
<1>11. /\ IsInternal(m1[p], DOMAIN h)
       /\ Without1(h[p].keys, m1[p].keys, m)
       /\ Without1(h[p].kids, m1[p].kids, m + 1)
  <2> DEFINE node == h[p]
  <2>1. IsInternal(node, DOMAIN h) /\ m \in 1 .. Len(node.keys)
    BY <1>1, <1>4
  <2> HIDE DEF node
  <2>2. /\ IsInternal(Shortened(node, m), DOMAIN h)
        /\ Without1(node.keys, Shortened(node, m).keys, m)
        /\ Without1(node.kids, Shortened(node, m).kids, m + 1)
    BY <2>1, ShortenedNode
  <2> QED BY <1>10, <2>2 DEF node
<1>12. m1[p].keys[m - 1] = h[p].keys[m - 1]
  <2>1. m - 1 \in 1 .. m - 1
    BY <1>4
  <2> QED BY <1>11, <2>1 DEF Without1
<1>13. m1[p].kids[m - 1] = l /\ m1[p].kids[m] = c /\ m1[p].leaf = FALSE
  <2>1. m - 1 \in 1 .. (m + 1) - 1 /\ m \in 1 .. (m + 1) - 1
    BY <1>4
  <2> QED BY <1>11, <2>1 DEF Without1, IsInternal, Internal
<1>14. m - 1 \in 1 .. Len(m1[p].keys)
  <2>1. Len(m1[p].keys) \in Nat /\ Len(h[p].keys) = Len(m1[p].keys) + 1
    BY <1>11 DEF Without1
  <2> QED BY <2>1
<1>15. p \in DOMAIN m1
  BY <1>5, <1>10 DEF Neighbours
<1> HIDE DEF l, c, r
<1>16. ASSUME NEW ht1, NEW iv1, Tree(m1, ht1, iv1)
       PROVE  Neighbours(m1, ht1, iv1, p, m - 1, l, c)
  <2>1. Neighbours(m1, ht1, iv1, p, m - 1, m1[p].kids[m - 1], m1[p].kids[(m - 1) + 1])
    BY <1>13, <1>14, <1>15, <1>16, AreNeighbours
  <2> QED BY <1>4, <1>13, <2>1
<1>17. Three(h, ht, iv, m1, p, m, l, c, r)
  BY <1>5, <1>6, <1>7, <1>9, <1>10, <1>12, <1>16 DEF Three
<1> QED BY <1>17 DEF m1, l, c, r

\* Three children become two, which have x and y keys.
Merged3Into(h, ht, iv, g, p, l, c, r, x, y) ==
  /\ Rearranged(h, ht, iv, g, p)
  /\ Effect(h, g, p, {l, c}, -1)
  /\ DOMAIN g = DOMAIN h \ {r}
  /\ g[p].leaf = FALSE
  /\ Count(g, l) = x /\ Count(g, c) = y

\* What it takes.
Merge3Heap(h, g, m1, p, m, l, c, r, key) ==
  /\ DOMAIN g = DOMAIN h \ {r} /\ g = [q \in DOMAIN g |-> g[q]]
  /\ \A q \in DOMAIN h \ {p, l, c, r} : g[q] = h[q]
  /\ key \in Int /\ g[p] = Shortened(Renewed(h[p], m - 1, key), m)
  /\ h[l].leaf => HalvedLeaf(g[l], g[c], Merged(m1, l, h[p].keys[m - 1], c))
  /\ ~h[l].leaf => HalvedInternal(g[l], key, g[c], Merged(m1, l, h[p].keys[m - 1], c), DOMAIN g)
  /\ h[l].leaf => SameLinks(g[l], h[l])

LEMMA Merge3HeapMerges ==
  ASSUME NEW h, NEW ht, NEW iv, Tree(h, ht, iv), NEW p \in DOMAIN h, h[p].leaf = FALSE,
         NEW m \in Nat, m >= 2, m <= Len(h[p].keys), NEW m1, NEW l, NEW c, NEW r,
         Three(h, ht, iv, m1, p, m, l, c, r),
         NEW g, NEW key, Merge3Heap(h, g, m1, p, m, l, c, r, key),
         g[p].keys[m - 1] = key => Proper(g, p, m - 1, l, c)
  PROVE  Merged3Into(h, ht, iv, g, p, l, c, r, Count(g, l), Count(g, c))
<1>1. /\ DOMAIN g = DOMAIN h \ {r} /\ g = [q \in DOMAIN g |-> g[q]]
      /\ \A q \in DOMAIN h \ {p, l, c, r} : g[q] = h[q]
      /\ key \in Int /\ g[p] = Shortened(Renewed(h[p], m - 1, key), m)
  BY DEF Merge3Heap
<1>2. /\ Rearranged(h, ht, iv, m1, p)
      /\ DOMAIN m1 = DOMAIN h \ {r}
      /\ m1[p] = Shortened(h[p], m)
      /\ \A q \in DOMAIN h \ {p, c, r} : m1[q] = h[q]
      /\ m1[p].keys[m - 1] = h[p].keys[m - 1]
      /\ \A ht1, iv1 : Tree(m1, ht1, iv1) => Neighbours(m1, ht1, iv1, p, m - 1, l, c)
  BY DEF Three
<1>3. /\ l \in DOMAIN h /\ c \in DOMAIN h /\ r \in DOMAIN h
      /\ l # r /\ l # c /\ l # p /\ c # r /\ c # p /\ r # p
  BY DEF Three, Neighbours
<1> DEFINE node == h[p]
<1>4. IsInternal(node, DOMAIN h) /\ m <= Len(node.keys) /\ IsKey(key)
      /\ m \in 1 .. Len(node.keys)
  <2>1. IsInternal(h[p], DOMAIN h) /\ Len(h[p].keys) \in Nat
    BY NodeKind, Elements DEF IsInternal
  <2> QED BY <1>1, <2>1 DEF IsKey
<1> HIDE DEF node
<1>5. Shortened(Renewed(node, m - 1, key), m) = Renewed(Shortened(node, m), m - 1, key)
  BY <1>4, RenewShortenNode
<1>6. g[p] = Renewed(m1[p], m - 1, key)
  BY <1>1, <1>2, <1>5 DEF node
<1>7. IsInternal(m1[p], DOMAIN h) /\ Len(m1[p].keys) = Len(h[p].keys) - 1 /\ Size(m1[p]) = Len(m1[p].keys)
  <2>1. /\ IsInternal(Shortened(node, m), DOMAIN h)
        /\ Size(Shortened(node, m)) = Len(node.keys) - 1
    BY <1>4, ShortenedNode
  <2>2. Size(Shortened(node, m)) = Len(Shortened(node, m).keys)
    BY DEF Size, Shortened, Internal
  <2> QED BY <1>2, <2>1, <2>2 DEF node
<1>8. g[p].keys[m - 1] = key /\ g[p].leaf = FALSE /\ Size(g[p]) = Len(h[p].keys) - 1
  <2> DEFINE n1 == m1[p]
  <2>1. IsInternal(n1, DOMAIN h) /\ m - 1 \in 1 .. Len(n1.keys)
    <3>1. Len(h[p].keys) \in Nat
      BY <1>4, Elements DEF IsInternal, node
    <3> QED BY <1>7, <3>1
  <2> HIDE DEF n1
  <2>2. RenewedIs(n1, m - 1, key, Renewed(n1, m - 1, key))
    BY <1>4, <2>1, RenewedNode
  <2>3. RenewedIs(m1[p], m - 1, key, g[p])
    BY <1>6, <2>2 DEF n1
  <2> QED BY <1>7, <2>3 DEF RenewedIs
<1>9. Proper(g, p, m - 1, l, c)
  BY <1>8
<1>10. h[l] = m1[l]
  BY <1>2, <1>3
<1>11. ASSUME NEW ht1, NEW iv1, Tree(m1, ht1, iv1)
       PROVE  Rearranged(m1, ht1, iv1, g, p)
  <2>1. Neighbours(m1, ht1, iv1, p, m - 1, l, c)
    BY <1>2, <1>11
  <2>2. \A q \in DOMAIN m1 \ {p, l, c} : g[q] = m1[q]
    BY <1>1, <1>2, <1>3
  <2>3. h[l].leaf => HalvedLeaf(g[l], g[c], Merged(m1, l, m1[p].keys[m - 1], c))
    BY <1>2 DEF Merge3Heap
  <2>4. ~h[l].leaf => HalvedInternal(g[l], key, g[c], Merged(m1, l, m1[p].keys[m - 1], c), DOMAIN m1)
    BY <1>1, <1>2 DEF Merge3Heap
  <2>6. h[l].leaf => SameLinks(g[l], m1[l])
    BY <1>10 DEF Merge3Heap
  <2>5. Redistributed(m1, g, p, m - 1, l, c, key)
    BY <1>1, <1>2, <1>6, <1>10, <2>2, <2>3, <2>4, <2>6 DEF Redistributed
  <2> QED BY <1>9, <1>11, <2>1, <2>5, RedistributeRearranges
<1>12. Rearranged(h, ht, iv, g, p)
  BY <1>2, <1>11, RearrangedTwice
<1>13. Effect(h, g, p, {l, c}, -1)
  <2>1. Count(h, p) = Len(h[p].keys) /\ Len(h[p].keys) \in Nat
    BY <1>4, Elements DEF Count, Size, IsInternal, node
  <2>2. Count(g, p) = Count(h, p) + -1
    BY <1>8, <2>1 DEF Count
  <2>3. \A q \in DOMAIN g : q \in {l, c} \cup {p} \/ (q \in DOMAIN h /\ g[q] = h[q])
    BY <1>1
  <2> QED BY <2>2, <2>3 DEF Effect
<1> QED BY <1>1, <1>8, <1>12, <1>13 DEF Merged3Into

LEMMA Merges3Leaves ==
  ASSUME NEW h, NEW ht, NEW iv, Tree(h, ht, iv), NEW p \in DOMAIN h, h[p].leaf = FALSE,
         NEW m \in Nat, m >= 2, m <= Len(h[p].keys),
         NEW l, NEW c, NEW r, l = h[p].kids[m - 1], c = h[p].kids[m], r = h[p].kids[m + 1],
         h[c].leaf, NEW n \in Nat,
         n = (Count(h, l) + Count(h, c) + Count(h, r)) \div 2 - Count(h, l),
         n < Count(h, c), Count(h, l) + n >= 1
  PROVE  Merged3Into(h, ht, iv, Merge3(h, p, m), p, l, c, r,
                     Count(h, l) + n, Count(h, c) - n + Count(h, r))
<1> DEFINE g == Merge3(h, p, m)
           m1 == JoinAt(h, p, m)
           a == h[l].data
           b == h[c].data
           d == h[r].data
           x == a \o SubSeq(b, 1, n)
           y == SubSeq(b, n + 1, Len(b)) \o d
           key == b[n + 1][1]
           T == Keys \X Values
<1>1. Three(h, ht, iv, m1, p, m, l, c, r)
  BY ThreeChildren
<1> HIDE DEF m1
<1>2. /\ Neighbours(h, ht, iv, p, m - 1, l, c) /\ Neighbours(h, ht, iv, p, m, c, r)
      /\ m1[c] = Merged(h, c, h[p].keys[m], r)
      /\ \A q \in DOMAIN h \ {p, c, r} : m1[q] = h[q]
      /\ l # r
      /\ \A ht1, iv1 : Tree(m1, ht1, iv1) => Neighbours(m1, ht1, iv1, p, m - 1, l, c)
      /\ Rearranged(h, ht, iv, m1, p)
      /\ m1[p].keys[m - 1] = h[p].keys[m - 1]
  BY <1>1 DEF Three
<1>3. /\ l \in DOMAIN h /\ c \in DOMAIN h /\ r \in DOMAIN h
      /\ l # r /\ l # c /\ l # p /\ c # r /\ c # p /\ r # p
      /\ IsLeaf(h[l]) /\ IsLeaf(h[c]) /\ IsLeaf(h[r])
      /\ h[l].leaf = TRUE /\ h[c].leaf = TRUE /\ h[r].leaf = TRUE
  BY <1>2 DEF Neighbours
<1>4. h = [q \in DOMAIN h |-> h[q]]
  BY DEF Tree, IsHeap
<1>5. /\ DOMAIN g = DOMAIN h \ {r} /\ g = [q \in DOMAIN g |-> g[q]]
      /\ \A q \in DOMAIN h \ {p, l, c, r} : g[q] = h[q]
      /\ g[p] = Shortened(Renewed(h[p], m - 1, key), m)
      /\ g[l] = WithData(h[l], x)
      /\ g[c] = Leaf(h[r].next, h[r].copies, y)
  <2>1. g = Merge3Leaves(h, p, m)
    BY <1>3 DEF Merge3
  <2> QED BY <1>3, <1>4, <2>1, ZenonT(40) DEF Merge3Leaves, Without
<1>6. /\ a \in Seq(T) /\ b \in Seq(T) /\ d \in Seq(T)
      /\ Count(h, l) = Len(a) /\ Count(h, c) = Len(b) /\ Count(h, r) = Len(d)
  BY <1>3 DEF IsLeaf, Count, Size
<1> HIDE DEF a, b, d, g, T
<1>7. /\ Len(a) \in Nat /\ Len(b) \in Nat /\ Len(d) \in Nat
      /\ n \in 0 .. Len(b) /\ n + 1 \in 1 .. Len(b)
  <2>1. Len(a) \in Nat /\ Len(b) \in Nat /\ Len(d) \in Nat
    BY <1>6, Elements
  <2> QED BY <1>6, <2>1
<1>8. /\ x \in Seq(T) /\ y \in Seq(T) /\ Len(x) = Len(a) + n /\ Len(y) = Len(b) - n + Len(d)
      /\ Joined(x, y, a \o (b \o d))
  <2>1. MergedIs(T, a, b, d, n)
    BY <1>6, <1>7, MergedJoins
  <2> QED BY <2>1 DEF MergedIs
<1>9. y[1] = b[n + 1]
  <2> DEFINE e == SubSeq(b, n + 1, Len(b))
  <2>1. e \in Seq(T) /\ Len(e) = Len(b) - n /\ Joined(SubSeq(b, 1, n), e, b) /\ Len(SubSeq(b, 1, n)) = n
    BY <1>6, <1>7, CutJoins
  <2>2. 1 \in 1 .. Len(e)
    BY <1>7, <2>1
  <2> DEFINE f == SubSeq(b, 1, n)
  <2>5. Joined(f, e, b) /\ Len(f) = n
    BY <2>1
  <2> HIDE DEF e, f
  <2>3. b[n + 1] = e[1]
    BY <2>2, <2>5 DEF Joined
  <2>4. (e \o d)[1] = e[1]
    BY <1>6, <2>1, <2>2, Concat
  <2> QED BY <2>3, <2>4 DEF e
<1>10. key \in Int
  <2>1. b[n + 1] \in T
    BY <1>6, <1>7, Elements
  <2> QED BY <2>1, TreeAssumption DEF T
<1> HIDE DEF x, y, key
<1>11. /\ IsLeaf(g[l]) /\ g[l].data = x /\ g[l].leaf = TRUE /\ Size(g[l]) = Len(x)
       /\ IsLeaf(g[c]) /\ g[c].data = y /\ Size(g[c]) = Len(y)
  <2>1. LeafIs(g[l], x)
    BY <1>5, <1>8, WithDataNode DEF T
  <2>2. LeafIs(g[c], y)
    BY <1>5, <1>8, LeafNodeIs DEF T
  <2> QED BY <2>1, <2>2 DEF LeafIs
<1>12. HalvedLeaf(g[l], g[c], Merged(m1, l, h[p].keys[m - 1], c))
  <2>1. PICK ht1, iv1 : Tree(m1, ht1, iv1)
    BY <1>2 DEF Rearranged
  <2>2. Neighbours(m1, ht1, iv1, p, m - 1, l, c)
    BY <1>2, <2>1
  <2>3. MergedLeafIs(h[c], h[r], m1[c])
    BY <1>2, <1>3, MergedLeaves
  <2>4. m1[c].data = b \o d
    BY <2>3 DEF MergedLeafIs, b, d
  <2>5. m1[l] = h[l]
    BY <1>2, <1>3
  <2>6. MergedLeafIs(m1[l], m1[c], Merged(m1, l, m1[p].keys[m - 1], c))
    BY <1>3, <2>2, <2>5, MergedLeaves
  <2> DEFINE w == Merged(m1, l, h[p].keys[m - 1], c)
  <2>7. MergedLeafIs(m1[l], m1[c], w)
    BY <1>2, <2>6
  <2> HIDE DEF w
  <2>8. w.data = a \o (b \o d) /\ IsLeaf(w)
    BY <2>4, <2>5, <2>7 DEF MergedLeafIs, HalvedLeaf, a
  <2>10. SameLinks(g[c], w)
    <3>2. g[c] = Leaf(h[r].next, h[r].copies, y)
      BY <1>5
    <3>1. SameLinks(g[c], h[r])
      BY <3>2, LeafLinks
    <3> QED BY <2>3, <2>7, <3>1 DEF MergedLeafIs, HalvedLeaf, SameLinks
  <2>9. HalvedLeaf(g[l], g[c], w)
    BY <1>8, <1>11, <2>8, <2>10 DEF HalvedLeaf, SameLinks
  <2> QED BY <2>9 DEF w
<1>17. SameLinks(g[l], h[l])
  BY <1>5, WithDataLinks
<1>13. Merge3Heap(h, g, m1, p, m, l, c, r, key)
  BY <1>3, <1>5, <1>10, <1>12, <1>17, SMTT(40) DEF Merge3Heap
<1>14. g[p].keys[m - 1] = key => Proper(g, p, m - 1, l, c)
  <2>1. Len(x) >= 1
    BY <1>6, <1>7, <1>8
  <2>2. Len(y) >= 1
    BY <1>6, <1>7, <1>8, SMTT(40)
  <2> QED BY <1>9, <1>11, <2>1, <2>2 DEF Proper, key
<1>15. Merged3Into(h, ht, iv, g, p, l, c, r, Count(g, l), Count(g, c))
  BY <1>1, <1>13, <1>14, Merge3HeapMerges
<1>16. Count(g, l) = Count(h, l) + n /\ Count(g, c) = Count(h, c) - n + Count(h, r)
  BY <1>6, <1>8, <1>11 DEF Count
<1> QED BY <1>15, <1>16 DEF g

LEMMA Merges3Internal ==
  ASSUME NEW h, NEW ht, NEW iv, Tree(h, ht, iv), NEW p \in DOMAIN h, h[p].leaf = FALSE,
         NEW m \in Nat, m >= 2, m <= Len(h[p].keys),
         NEW l, NEW c, NEW r, l = h[p].kids[m - 1], c = h[p].kids[m], r = h[p].kids[m + 1],
         ~h[c].leaf, NEW n \in Nat,
         n = (Count(h, l) + Count(h, c) + Count(h, r) + 2) \div 2 - Count(h, l) - 1,
         n < Count(h, c)
  PROVE  Merged3Into(h, ht, iv, Merge3(h, p, m), p, l, c, r,
                     Count(h, l) + 1 + n, Count(h, c) - n + Count(h, r))
<1> DEFINE g == Merge3(h, p, m)
           m1 == JoinAt(h, p, m)
           D == DOMAIN h
           a == h[l].keys
           b == h[c].keys
           d == h[r].keys
           key1 == h[p].keys[m - 1]
           key2 == h[p].keys[m]
           ka == h[l].kids
           kb == h[c].kids
           kd == h[r].kids
           x == Append(a, key1) \o SubSeq(b, 1, n)
           y == Append(SubSeq(b, n + 2, Len(b)), key2) \o d
           kx == ka \o SubSeq(kb, 1, n + 1)
           ky == SubSeq(kb, n + 2, Len(kb)) \o kd
           key == b[n + 1]
<1>1. Three(h, ht, iv, m1, p, m, l, c, r)
  BY ThreeChildren
<1> HIDE DEF m1
<1>2. /\ Neighbours(h, ht, iv, p, m - 1, l, c) /\ Neighbours(h, ht, iv, p, m, c, r)
      /\ m1[c] = Merged(h, c, key2, r)
      /\ \A q \in DOMAIN h \ {p, c, r} : m1[q] = h[q]
      /\ DOMAIN m1 = DOMAIN h \ {r}
      /\ l # r
      /\ \A ht1, iv1 : Tree(m1, ht1, iv1) => Neighbours(m1, ht1, iv1, p, m - 1, l, c)
      /\ Rearranged(h, ht, iv, m1, p)
      /\ m1[p].keys[m - 1] = key1
  BY <1>1 DEF Three
<1>3. /\ l \in DOMAIN h /\ c \in DOMAIN h /\ r \in DOMAIN h
      /\ l # r /\ l # c /\ l # p /\ c # r /\ c # p /\ r # p
      /\ IsInternal(h[l], D) /\ IsInternal(h[c], D) /\ IsInternal(h[r], D)
      /\ h[l].leaf = FALSE /\ h[c].leaf = FALSE /\ h[r].leaf = FALSE
      /\ key1 \in Int /\ key2 \in Int
  BY <1>2 DEF Neighbours
<1>4. h = [q \in DOMAIN h |-> h[q]]
  BY DEF Tree, IsHeap
<1>5. /\ DOMAIN g = DOMAIN h \ {r} /\ g = [q \in DOMAIN g |-> g[q]]
      /\ \A q \in DOMAIN h \ {p, l, c, r} : g[q] = h[q]
      /\ g[p] = Shortened(Renewed(h[p], m - 1, key), m)
      /\ g[l] = Internal(x, kx)
      /\ g[c] = Internal(y, ky)
  <2>1. g = Merge3Internal(h, p, m)
    BY <1>3 DEF Merge3
  <2> QED BY <1>3, <1>4, <2>1 DEF Merge3Internal, Without
<1>6. /\ a \in Seq(Int) /\ b \in Seq(Int) /\ d \in Seq(Int)
      /\ ka \in Seq(D) /\ kb \in Seq(D) /\ kd \in Seq(D)
      /\ Len(ka) = Len(a) + 1 /\ Len(kb) = Len(b) + 1 /\ Len(kd) = Len(d) + 1
      /\ Count(h, l) = Len(a) /\ Count(h, c) = Len(b) /\ Count(h, r) = Len(d)
  BY <1>3 DEF IsInternal, Count, Size
<1> HIDE DEF a, b, d, g, D, ka, kb, kd, key1, key2
<1>7. /\ Len(a) \in Nat /\ Len(b) \in Nat /\ Len(d) \in Nat
      /\ n \in 0 .. Len(b) - 1 /\ n + 1 \in 1 .. Len(b) /\ n + 1 \in 0 .. Len(kb)
      /\ (n + 1) + 1 = n + 2
  <2>1. Len(a) \in Nat /\ Len(b) \in Nat /\ Len(d) \in Nat
    BY <1>6, Elements
  <2>2. n < Len(b) /\ Len(kb) = Len(b) + 1
    BY <1>6
  <2> QED BY <2>1, <2>2
<1>8. /\ x \in Seq(Int) /\ y \in Seq(Int) /\ key \in Int
      /\ Len(x) = Len(a) + 1 + n /\ Len(y) = Len(b) - n + Len(d)
      /\ JoinedBy(x, key, y, Append(a, key1) \o (Append(b, key2) \o d))
  <2> DEFINE Z == Int
  <2>1. a \in Seq(Z) /\ b \in Seq(Z) /\ d \in Seq(Z) /\ key1 \in Z /\ key2 \in Z
    BY <1>3, <1>6
  <2> HIDE DEF Z
  <2>2. MergedByIs(Z, a, b, d, key1, key2, n)
    BY <1>7, <2>1, MergedJoinsBy
  <2> QED BY <2>2 DEF MergedByIs, Z
<1>9. /\ kx \in Seq(D) /\ ky \in Seq(D) /\ Len(kx) = Len(ka) + n + 1
      /\ Len(ky) = Len(kb) - (n + 1) + Len(kd)
      /\ Joined(kx, ky, ka \o (kb \o kd))
  <2>1. MergedIs(D, ka, kb, kd, n + 1)
    BY <1>6, <1>7, MergedJoins
  <2>2. /\ kx \in Seq(D) /\ SubSeq(kb, (n + 1) + 1, Len(kb)) \o kd \in Seq(D)
        /\ Len(kx) = Len(ka) + (n + 1)
        /\ Len(SubSeq(kb, (n + 1) + 1, Len(kb)) \o kd) = Len(kb) - (n + 1) + Len(kd)
        /\ Joined(kx, SubSeq(kb, (n + 1) + 1, Len(kb)) \o kd, ka \o (kb \o kd))
    BY <2>1 DEF MergedIs
  <2>3. Len(ka) + (n + 1) = Len(ka) + n + 1
    BY <1>6, <1>7
  <2> QED BY <1>7, <2>2, <2>3
<1> HIDE DEF x, y, kx, ky, key
<1>10. Len(kx) = Len(x) + 1 /\ Len(ky) = Len(y) + 1
  <2>1. Len(ka) = Len(a) + 1 /\ Len(kb) = Len(b) + 1 /\ Len(kd) = Len(d) + 1
    BY <1>6
  <2>2. Len(x) = Len(a) + 1 + n /\ Len(y) = Len(b) - n + Len(d)
    BY <1>8
  <2>3. Len(kx) = Len(ka) + n + 1 /\ Len(ky) = Len(kb) - (n + 1) + Len(kd)
    BY <1>9
  <2>4. PICK i \in Nat, j \in Nat, o \in Nat : Len(a) = i /\ Len(b) = j /\ Len(d) = o
    BY <1>7
  <2>5. Len(x) = i + 1 + n /\ Len(kx) = i + 1 + n + 1
    BY <2>1, <2>2, <2>3, <2>4
  <2>6. Len(y) = j - n + o /\ Len(ky) = j + 1 - (n + 1) + (o + 1)
    BY <2>1, <2>2, <2>3, <2>4
  <2>7. \A u \in Nat : /\ i + 1 + u + 1 = (i + 1 + u) + 1
                       /\ j + 1 - (u + 1) + (o + 1) = (j - u + o) + 1
    <3> TAKE u \in Nat
    <3> QED OBVIOUS
  <2>8. Len(kx) = Len(x) + 1
    BY <2>5, <2>7
  <2>9. Len(ky) = Len(y) + 1
    BY <2>6, <2>7
  <2> QED BY <2>8, <2>9
<1>11. /\ IsInternal(g[l], D) /\ g[l].keys = x /\ g[l].kids = kx /\ g[l].leaf = FALSE
       /\ Size(g[l]) = Len(x)
       /\ IsInternal(g[c], D) /\ g[c].keys = y /\ g[c].kids = ky /\ Size(g[c]) = Len(y)
  <2>0. /\ x \in Seq(Int) /\ kx \in Seq(D) /\ y \in Seq(Int) /\ ky \in Seq(D)
        /\ g[l] = Internal(x, kx) /\ g[c] = Internal(y, ky)
    BY <1>5, <1>8, <1>9
  <2>1. InternalIs(g[l], D, x, kx)
    BY <1>10, <2>0, InternalNodeIs
  <2>2. InternalIs(g[c], D, y, ky)
    BY <1>10, <2>0, InternalNodeIs
  <2> QED BY <2>1, <2>2 DEF InternalIs
<1> DEFINE w == Merged(m1, l, key1, c)
           E == DOMAIN m1
<1>12. /\ IsInternal(w, E) /\ w.keys = Append(a, key1) \o (Append(b, key2) \o d)
       /\ w.kids = ka \o (kb \o kd)
  <2>1. PICK ht1, iv1 : Tree(m1, ht1, iv1)
    BY <1>2 DEF Rearranged
  <2>2. Neighbours(m1, ht1, iv1, p, m - 1, l, c)
    BY <1>2, <2>1
  <2>3. MergedInternalIs(h[c], key2, h[r], m1[c], D)
    BY <1>2, <1>3, MergedInternals DEF key2, D
  <2>4. m1[c].keys = Append(b, key2) \o d /\ m1[c].kids = kb \o kd
    BY <2>3 DEF MergedInternalIs, b, d, kb, kd
  <2>5. m1[l] = h[l]
    BY <1>2, <1>3
  <2>6. MergedInternalIs(m1[l], m1[p].keys[m - 1], m1[c],
                         Merged(m1, l, m1[p].keys[m - 1], c), DOMAIN m1)
    BY <1>3, <2>2, <2>5, MergedInternals
  <2>7. MergedInternalIs(m1[l], key1, m1[c], w, E)
    BY <1>2, <2>6
  <2> HIDE DEF w, E
  <2> QED BY <2>4, <2>5, <2>7 DEF MergedInternalIs, HalvedInternal, a, ka
<1> HIDE DEF w
<1>13. kx \in Seq(E) /\ ky \in Seq(E)
  <2> HIDE DEF E
  <2>1. w.kids \in Seq(E) /\ Joined(kx, ky, w.kids)
    BY <1>9, <1>12 DEF IsInternal
  <2>2. /\ Len(kx) \in Nat /\ Len(ky) \in Nat /\ Len(w.kids) = Len(kx) + Len(ky)
        /\ \A j \in 1 .. Len(kx) : w.kids[j] = kx[j]
        /\ \A j \in 1 .. Len(ky) : w.kids[Len(kx) + j] = ky[j]
    BY <2>1 DEF Joined
  <2>3. \A j \in 1 .. Len(w.kids) : w.kids[j] \in E
    BY <2>1, Elements
  <2>4. \A j \in 1 .. Len(kx) : kx[j] \in E
    BY <2>2, <2>3
  <2>5. \A j \in 1 .. Len(ky) : ky[j] \in E
    <3> TAKE j \in 1 .. Len(ky)
    <3>1. Len(kx) + j \in 1 .. Len(w.kids)
      BY <2>2
    <3> QED BY <2>2, <2>3, <3>1
  <2> QED BY <1>9, <2>4, <2>5, Elements
<1>14. HalvedInternal(g[l], key, g[c], w, E)
  <2>1. IsInternal(g[l], E) /\ IsInternal(g[c], E)
    BY <1>11, <1>13 DEF IsInternal
  <2>2. JoinedBy(g[l].keys, key, g[c].keys, w.keys)
    BY <1>8, <1>11, <1>12
  <2>3. Joined(g[l].kids, g[c].kids, w.kids)
    BY <1>9, <1>11, <1>12
  <2> QED BY <1>12, <2>1, <2>2, <2>3 DEF HalvedInternal
<1>15. Merge3Heap(h, g, m1, p, m, l, c, r, key)
  BY <1>2, <1>3, <1>5, <1>8, <1>14 DEF Merge3Heap, w, key1
<1>16. Proper(g, p, m - 1, l, c)
  <2>1. Len(x) >= 1
    <3>1. \A u, v \in Nat : u + 1 + v >= 1
      OBVIOUS
    <3>2. Len(x) = Len(a) + 1 + n /\ Len(a) \in Nat /\ n \in Nat
      BY <1>7, <1>8
    <3> QED BY <3>1, <3>2
  <2> QED BY <1>11, <2>1 DEF Proper
<1>17. Merged3Into(h, ht, iv, g, p, l, c, r, Count(g, l), Count(g, c))
  BY <1>1, <1>15, <1>16, Merge3HeapMerges
<1>18. Count(g, l) = Count(h, l) + 1 + n /\ Count(g, c) = Count(h, c) - n + Count(h, r)
  BY <1>6, <1>8, <1>11 DEF Count
<1> QED BY <1>17, <1>18 DEF g

-----------------------------------------------------------------------------
(* The sizes of nodes *)

Fits(n) == n \in LeastKeys .. MaxKeys

LEMMA Limits ==
  /\ Order \in Nat /\ Order >= 1
  /\ MinKeys = 2 * Order - 1 /\ MaxKeys = 3 * Order - 1 /\ MaxRootKeys = 4 * Order - 1
  /\ LeastKeys \in Nat /\ 2 * LeastKeys <= 3 * Order - 1 /\ 3 * Order - 2 <= 2 * LeastKeys
  /\ LeastKeys >= 1
BY TreeAssumption DEF MinKeys, MaxKeys, MaxRootKeys, LeastKeys

LEMMA Counts ==
  ASSUME NEW h, NEW ht, NEW iv, Tree(h, ht, iv), NEW q \in DOMAIN h
  PROVE  /\ Count(h, q) \in Nat
         /\ h[q].leaf = FALSE =>
              /\ Count(h, q) = Len(h[q].keys) /\ Len(h[q].kids) = Count(h, q) + 1
              /\ Len(h[q].keys) \in Nat /\ DOMAIN h[q].kids = 1 .. Len(h[q].kids)
              /\ \A j \in 1 .. Len(h[q].kids) : h[q].kids[j] \in DOMAIN h /\ h[q].kids[j] # q
         /\ h[q].leaf = TRUE => Count(h, q) = Len(h[q].data)
         /\ h[q].leaf \in BOOLEAN
<1>1. CASE IsLeaf(h[q]) /\ h[q].leaf = TRUE
  <2>1. h[q].data \in Seq(Keys \X Values)
    BY <1>1 DEF IsLeaf
  <2>2. Len(h[q].data) \in Nat
    BY <2>1, Elements
  <2> QED BY <1>1, <2>2 DEF Count, Size
<1>2. CASE InternalFits(h, ht, iv, q) /\ IsInternal(h[q], DOMAIN h) /\ h[q].leaf = FALSE
  <2>1. h[q].kids \in Seq(DOMAIN h) /\ h[q].keys \in Seq(Int) /\ Len(h[q].kids) = Len(h[q].keys) + 1
    BY <1>2 DEF IsInternal
  <2>2. Len(h[q].keys) \in Nat
    BY <2>1, Elements
  <2>3. DOMAIN h[q].kids = 1 .. Len(h[q].kids)
    BY <2>1, Elements
  <2>4. Count(h, q) = Len(h[q].keys)
    BY <1>2 DEF Count, Size
  <2>5. \A j \in 1 .. Len(h[q].kids) : h[q].kids[j] \in DOMAIN h /\ h[q].kids[j] # q
    BY <1>2, Family DEF Children
  <2> QED BY <1>2, <2>1, <2>2, <2>3, <2>4, <2>5
<1> QED BY <1>1, <1>2, NodeKind, Kind

LEMMA RearrangedNot ==
  ASSUME NEW h, NEW ht, NEW iv, Tree(h, ht, iv), NEW p \in DOMAIN h
  PROVE  Rearranged(h, ht, iv, h, p)
<1>1. Kept(h, ht, iv, h, ht, iv, p) /\ KeepsChain(h, iv, h, iv)
  BY DEF Kept, KeepsChain
<1> QED BY <1>1 DEF Rearranged

\* What becomes of a node p whose child c has grown: p has a key more or not, and
\* all nodes that are changed but p keep within their limits.
Relieved(h, ht, iv, g, p, c) ==
  /\ Rearranged(h, ht, iv, g, p)
  /\ p \in DOMAIN g /\ g[p].leaf = FALSE
  /\ Count(g, p) \in Count(h, p) .. Count(h, p) + 1
  /\ \A q \in DOMAIN g :
       q = p \/ Fits(Count(g, q)) \/ (q \in DOMAIN h /\ g[q] = h[q] /\ q # c)

LEMMA SplitRelieves ==
  ASSUME NEW h, NEW ht, NEW iv, Tree(h, ht, iv), NEW p \in DOMAIN h, h[p].leaf = FALSE,
         NEW i \in 1 .. Len(h[p].kids), Count(h, h[p].kids[i]) = MaxKeys + 1
  PROVE  Relieved(h, ht, iv, SplitChild(h, p, i), p, h[p].kids[i])
<1> DEFINE c == h[p].kids[i]
           n == Count(h, c)
           at == n \div 2
           g == SplitChild(h, p, i)
           new == Fresh(h)
<1>1. c \in DOMAIN h /\ c # p /\ Count(h, p) \in Nat
  BY Counts
<1>2. n = 3 * Order
  BY Limits
<1>3. /\ at \in 1 .. n - 1 /\ Fits(at) /\ Fits(n - at) /\ Fits(n - at - 1)
  BY <1>2, Limits DEF Fits
<1>4. h[c].leaf => SplitInto(h, ht, iv, g, p, i, c, new, at, n - at)
  BY <1>3, SplitsLeaf DEF SplitChild
<1>5. ~h[c].leaf => SplitInto(h, ht, iv, g, p, i, c, new, at, n - at - 1)
  BY <1>3, SplitsInternal DEF SplitChild
<1> HIDE DEF c, n, at, g, new
<1>6. /\ Rearranged(h, ht, iv, g, p)
      /\ Effect(h, g, p, {c, new}, 1)
      /\ DOMAIN g = DOMAIN h \cup {new}
      /\ g[p].leaf = FALSE
      /\ Fits(Count(g, c)) /\ Fits(Count(g, new))
  BY <1>3, <1>4, <1>5 DEF SplitInto
<1>7. /\ Count(g, p) = Count(h, p) + 1
      /\ \A q \in DOMAIN g : q = c \/ q = new \/ q = p \/ (q \in DOMAIN h /\ g[q] = h[q])
  BY <1>6 DEF Effect
<1>8. ASSUME NEW q \in DOMAIN g
      PROVE  q = p \/ Fits(Count(g, q)) \/ (q \in DOMAIN h /\ g[q] = h[q] /\ q # c)
  BY <1>6, <1>7
<1>9. Count(g, p) \in Count(h, p) .. Count(h, p) + 1
  BY <1>1, <1>7
<1>10. Relieved(h, ht, iv, g, p, c)
  BY <1>6, <1>8, <1>9 DEF Relieved
<1> QED BY <1>10 DEF g, c

LEMMA LentRelieves ==
  ASSUME NEW h, NEW ht, NEW iv, Tree(h, ht, iv), NEW p \in DOMAIN h,
         NEW c \in DOMAIN h, NEW d \in DOMAIN h, NEW g, Lent(h, ht, iv, g, p, c, d),
         Count(h, c) = MaxKeys + 1, Fits(Count(h, d)), Count(h, d) < MaxKeys
  PROVE  Relieved(h, ht, iv, g, p, c)
<1>1. /\ Rearranged(h, ht, iv, g, p)
      /\ Effect(h, g, p, {c, d}, 0)
      /\ DOMAIN g = DOMAIN h
      /\ g[p].leaf = FALSE
      /\ Count(g, c) = Count(h, c) - 1
      /\ Count(g, d) = Count(h, d) + 1
  BY DEF Lent
<1>2. /\ Count(g, p) = Count(h, p) + 0
      /\ \A q \in DOMAIN g : q = c \/ q = d \/ q = p \/ (q \in DOMAIN h /\ g[q] = h[q])
  BY <1>1 DEF Effect
<1>3. Count(h, p) \in Nat /\ Count(h, c) \in Nat /\ Count(h, d) \in Nat
  BY Counts
<1>4. Fits(Count(g, c)) /\ Fits(Count(g, d))
  BY <1>1, <1>3, Limits DEF Fits
<1>5. Count(g, p) \in Count(h, p) .. Count(h, p) + 1
  BY <1>2, <1>3
<1> QED BY <1>1, <1>2, <1>4, <1>5 DEF Relieved

LEMMA Relieves ==
  ASSUME NEW h, NEW ht, NEW iv, Tree(h, ht, iv), NEW p \in DOMAIN h, h[p].leaf = FALSE,
         NEW i \in 1 .. Len(h[p].kids),
         \A j \in 1 .. Len(h[p].kids) : j # i => Fits(Count(h, h[p].kids[j])),
         Count(h, h[p].kids[i]) \in LeastKeys .. MaxKeys + 1
  PROVE  Relieved(h, ht, iv, Relieve(h, p, i), p, h[p].kids[i])
<1> DEFINE kids == h[p].kids
           c == kids[i]
           g == Relieve(h, p, i)
           HasRoom(j) == j \in DOMAIN kids /\ Count(h, kids[j]) < MaxKeys
<1>1. /\ Count(h, p) \in Nat /\ Len(kids) = Count(h, p) + 1 /\ DOMAIN kids = 1 .. Len(kids)
      /\ Count(h, p) = Len(h[p].keys)
      /\ \A j \in 1 .. Len(kids) : kids[j] \in DOMAIN h
  BY Counts
<1>2. c \in DOMAIN h /\ Count(h, c) \in Nat
  BY <1>1, Counts
<1>3. g = IF Count(h, c) <= MaxKeys THEN h
          ELSE IF HasRoom(i - 1) THEN BorrowFromRight(h, p, i - 1)
          ELSE IF HasRoom(i + 1) THEN BorrowFromLeft(h, p, i + 1)
          ELSE SplitChild(h, p, i)
  BY DEF Relieve
<1> HIDE DEF g
<1>4. CASE Count(h, c) <= MaxKeys
  <2>1. g = h
    BY <1>3, <1>4
  <2>2. Fits(Count(h, c))
    BY <1>2, <1>4, Limits DEF Fits
  <2>3. \A q \in DOMAIN h : Fits(Count(h, q)) \/ q # c
    BY <2>2
  <2>4. Rearranged(h, ht, iv, h, p)
    BY RearrangedNot
  <2>5. Count(h, p) \in Count(h, p) .. Count(h, p) + 1
    BY <1>1
  <2>6. Relieved(h, ht, iv, h, p, c)
    BY <2>3, <2>4, <2>5 DEF Relieved
  <2> QED BY <2>1, <2>6 DEF g
<1>5. CASE Count(h, c) > MaxKeys
  <2>1. Count(h, c) = MaxKeys + 1 /\ ~(Count(h, c) <= MaxKeys) /\ Count(h, c) >= 2
    <3>1. MaxKeys \in Nat /\ MaxKeys >= 2 /\ LeastKeys \in Nat
      BY Limits
    <3>2. Count(h, c) \in LeastKeys .. MaxKeys + 1
      OBVIOUS
    <3> HIDE DEF c
    <3> QED BY <1>2, <1>5, <3>1, <3>2
  <2>2. CASE HasRoom(i - 1)
    <3> DEFINE d == kids[i - 1]
    <3>1. i - 1 \in 1 .. Len(h[p].keys) /\ (i - 1) + 1 = i /\ i - 1 \in 1 .. Len(kids)
          /\ i - 1 # i /\ i - 1 \in Nat
      BY <1>1, <2>2
    <3>2. d \in DOMAIN h /\ Fits(Count(h, d)) /\ Count(h, d) < MaxKeys
      BY <1>1, <2>2, <3>1
    <3>3. Neighbours(h, ht, iv, p, i - 1, h[p].kids[i - 1], h[p].kids[(i - 1) + 1])
      BY <3>1, AreNeighbours
    <3>4. Neighbours(h, ht, iv, p, i - 1, d, c)
      BY <3>1, <3>3
    <3>5. g = BorrowFromRight(h, p, i - 1)
      BY <1>3, <2>1, <2>2
    <3> HIDE DEF c, d, kids, HasRoom
    <3>6. Lent(h, ht, iv, g, p, c, d)
      BY <2>1, <3>1, <3>4, <3>5, LendsLeft
    <3>7. Relieved(h, ht, iv, g, p, c)
      BY <1>2, <2>1, <3>2, <3>6, LentRelieves
    <3> QED BY <3>7 DEF c, g, kids
  <2>3. CASE ~HasRoom(i - 1) /\ HasRoom(i + 1)
    <3> DEFINE d == kids[i + 1]
    <3>1. i \in 1 .. Len(h[p].keys) /\ (i + 1) - 1 = i /\ i + 1 \in 1 .. Len(kids)
          /\ i + 1 # i /\ i + 1 \in Nat
      BY <1>1, <2>3
    <3>2. d \in DOMAIN h /\ Fits(Count(h, d)) /\ Count(h, d) < MaxKeys
      BY <1>1, <2>3, <3>1
    <3>3. Neighbours(h, ht, iv, p, i, c, d)
      BY <3>1, AreNeighbours
    <3>4. Neighbours(h, ht, iv, p, (i + 1) - 1, c, d)
      BY <3>1, <3>3
    <3>5. g = BorrowFromLeft(h, p, i + 1)
      BY <1>3, <2>1, <2>3
    <3> HIDE DEF c, d, kids, HasRoom
    <3>6. Lent(h, ht, iv, g, p, c, d)
      BY <2>1, <3>1, <3>4, <3>5, LendsRight
    <3>7. Relieved(h, ht, iv, g, p, c)
      BY <1>2, <2>1, <3>2, <3>6, LentRelieves
    <3> QED BY <3>7 DEF c, g, kids
  <2>4. CASE ~HasRoom(i - 1) /\ ~HasRoom(i + 1)
    <3>1. g = SplitChild(h, p, i)
      BY <1>3, <2>1, <2>4
    <3> HIDE DEF HasRoom
    <3> QED BY <2>1, <3>1, SplitRelieves DEF g
  <2> QED BY <2>2, <2>3, <2>4
<1> QED BY <1>2, <1>4, <1>5, Limits

\* The only child a node without keys has: it takes the place of the root.
OnlyChild(g, p, q) == Count(g, p) = 0 /\ q = g[p].kids[1] /\ Count(g, q) \in 1 .. MaxRootKeys

\* What becomes of a node p whose child c has shrunk: p has a key less or not, and
\* all nodes that are changed but p keep within their limits.
Refilled(h, ht, iv, g, p, c) ==
  /\ Rearranged(h, ht, iv, g, p)
  /\ p \in DOMAIN g /\ g[p].leaf = FALSE
  /\ Count(g, p) \in Count(h, p) - 1 .. Count(h, p)
  /\ \A q \in DOMAIN g :
       \/ q = p \/ Fits(Count(g, q)) \/ OnlyChild(g, p, q)
       \/ q \in DOMAIN h /\ g[q] = h[q] /\ q # c

Poor(n) == n \in LeastKeys - 1 .. MinKeys - 1

LEMMA LentRefills ==
  ASSUME NEW h, NEW ht, NEW iv, Tree(h, ht, iv), NEW p \in DOMAIN h,
         NEW c \in DOMAIN h, NEW d \in DOMAIN h, NEW g, Lent(h, ht, iv, g, p, d, c),
         Poor(Count(h, c)), Fits(Count(h, d)), Count(h, d) > MinKeys
  PROVE  Refilled(h, ht, iv, g, p, c)
<1>1. /\ Rearranged(h, ht, iv, g, p)
      /\ Effect(h, g, p, {d, c}, 0)
      /\ DOMAIN g = DOMAIN h
      /\ g[p].leaf = FALSE
      /\ Count(g, d) = Count(h, d) - 1
      /\ Count(g, c) = Count(h, c) + 1
  BY DEF Lent
<1>2. /\ Count(g, p) = Count(h, p) + 0
      /\ \A q \in DOMAIN g : q = c \/ q = d \/ q = p \/ (q \in DOMAIN h /\ g[q] = h[q])
  BY <1>1 DEF Effect
<1>3. Count(h, p) \in Nat /\ Count(h, c) \in Nat /\ Count(h, d) \in Nat
  BY Counts
<1>4. Fits(Count(g, c)) /\ Fits(Count(g, d))
  BY <1>1, <1>3, Limits DEF Fits, Poor
<1>5. Count(g, p) \in Count(h, p) - 1 .. Count(h, p)
  BY <1>2, <1>3
<1> QED BY <1>1, <1>2, <1>4, <1>5 DEF Refilled

\* A child lends to a neighbour, which then lends to the next one.
LEMMA LentTwiceRefills ==
  ASSUME NEW h, NEW ht, NEW iv, Tree(h, ht, iv), NEW p \in DOMAIN h,
         NEW c \in DOMAIN h, NEW d \in DOMAIN h, NEW e \in DOMAIN h,
         c # d, c # e, d # e, p # c, p # d, p # e,
         NEW m, Lent(h, ht, iv, m, p, e, d),
         NEW g, \A ht1, iv1 : Tree(m, ht1, iv1) => Lent(m, ht1, iv1, g, p, d, c),
         Poor(Count(h, c)), Fits(Count(h, d)), Fits(Count(h, e)), Count(h, e) > MinKeys
  PROVE  Refilled(h, ht, iv, g, p, c)
<1>1. /\ Rearranged(h, ht, iv, m, p)
      /\ Effect(h, m, p, {e, d}, 0)
      /\ DOMAIN m = DOMAIN h
      /\ Count(m, e) = Count(h, e) - 1
      /\ Count(m, d) = Count(h, d) + 1
  BY DEF Lent
<1>2. PICK ht1, iv1 : Tree(m, ht1, iv1)
  BY <1>1 DEF Rearranged
<1>3. Lent(m, ht1, iv1, g, p, d, c)
  BY <1>2
<1>4. /\ Effect(m, g, p, {d, c}, 0)
      /\ DOMAIN g = DOMAIN m
      /\ g[p].leaf = FALSE
      /\ Count(g, d) = Count(m, d) - 1
      /\ Count(g, c) = Count(m, c) + 1
  BY <1>3 DEF Lent
<1>5. Rearranged(h, ht, iv, g, p)
  <2>1. \A ht2, iv2 : Tree(m, ht2, iv2) => Rearranged(m, ht2, iv2, g, p)
    BY DEF Lent
  <2> QED BY <1>1, <2>1, RearrangedTwice
<1>6. /\ Count(m, p) = Count(h, p) + 0
      /\ \A q \in DOMAIN m : q = d \/ q = e \/ q = p \/ (q \in DOMAIN h /\ m[q] = h[q])
  BY <1>1 DEF Effect
<1>7. /\ Count(g, p) = Count(m, p) + 0
      /\ \A q \in DOMAIN g : q = c \/ q = d \/ q = p \/ (q \in DOMAIN m /\ g[q] = m[q])
  BY <1>4 DEF Effect
<1>8. m[c] = h[c] /\ g[e] = m[e]
  BY <1>1, <1>4, <1>6, <1>7
<1>9. /\ Count(h, p) \in Nat /\ Count(h, c) \in Nat /\ Count(h, d) \in Nat
      /\ Count(h, e) \in Nat
  BY Counts
<1>10. Count(g, c) = Count(h, c) + 1 /\ Count(g, d) = Count(h, d) /\ Count(g, e) = Count(h, e) - 1
  <2>1. Count(m, c) = Count(h, c) /\ Count(g, e) = Count(m, e)
    BY <1>8 DEF Count
  <2> QED BY <1>1, <1>4, <1>9, <2>1
<1>11. Fits(Count(g, c)) /\ Fits(Count(g, d)) /\ Fits(Count(g, e))
  BY <1>9, <1>10, Limits DEF Fits, Poor
<1>12. ASSUME NEW q \in DOMAIN g
       PROVE  q = p \/ Fits(Count(g, q)) \/ (q \in DOMAIN h /\ g[q] = h[q] /\ q # c)
  BY <1>1, <1>4, <1>6, <1>7, <1>11
<1>13. Count(g, p) \in Count(h, p) - 1 .. Count(h, p)
  BY <1>6, <1>7, <1>9
<1> QED BY <1>1, <1>4, <1>5, <1>12, <1>13 DEF Refilled

\* The sizes of two nodes made of three.
ThirdsFit(a, b, d) ==
  /\ (a + b + d) \div 2 - a \in Nat /\ (a + b + d) \div 2 - a < b
  /\ (a + b + d + 2) \div 2 - a - 1 = (a + b + d) \div 2 - a
  /\ Fits(a + ((a + b + d) \div 2 - a))
  /\ Fits(b - ((a + b + d) \div 2 - a) + d)
  /\ Fits(a + 1 + ((a + b + d) \div 2 - a))

LEMMA Thirds ==
  ASSUME NEW a \in Nat, NEW b \in Nat, NEW d \in Nat, Order >= 3,
         a <= MinKeys, b <= MinKeys, d <= MinKeys,
         \/ Poor(a) /\ b >= LeastKeys /\ d >= LeastKeys
         \/ Poor(b) /\ a >= LeastKeys /\ d >= LeastKeys
         \/ Poor(d) /\ a >= LeastKeys /\ b >= LeastKeys
  PROVE  ThirdsFit(a, b, d)
<1> DEFINE s == a + b + d
           n == s \div 2
<1>1. n \in Nat /\ 2 * n <= s /\ s <= 2 * n + 1
  OBVIOUS
<1>2. (s + 2) \div 2 = n + 1
  OBVIOUS
<1> HIDE DEF n
<1>3. /\ s <= 6 * Order - 4 /\ s >= 3 * LeastKeys - 1
      /\ a < b + d /\ d + 1 < a + b
  BY Limits DEF Poor
<1>4. n >= a /\ n < a + b
  BY <1>1, <1>3
<1>5. n >= LeastKeys /\ s - n >= LeastKeys /\ n + 1 <= MaxKeys /\ s - n <= MaxKeys
  BY <1>1, <1>3, Limits
<1>6. /\ n - a \in Nat /\ n - a < b /\ n + 1 - a - 1 = n - a
      /\ a + (n - a) = n /\ b - (n - a) + d = s - n /\ a + 1 + (n - a) = n + 1
  BY <1>1, <1>4
<1>7. Fits(n) /\ Fits(s - n) /\ Fits(n + 1)
  BY <1>1, <1>5, Limits DEF Fits
<1>8. (s + 2) \div 2 - a - 1 = n - a
  BY <1>1, <1>2
<1> QED BY <1>6, <1>7, <1>8 DEF n, ThirdsFit

LEMMA Merge3Refills ==
  ASSUME NEW h, NEW ht, NEW iv, Tree(h, ht, iv), NEW p \in DOMAIN h, h[p].leaf = FALSE,
         Order >= 3, NEW m \in Nat, m >= 2, m <= Len(h[p].keys),
         NEW l, NEW c, NEW r, l = h[p].kids[m - 1], c = h[p].kids[m], r = h[p].kids[m + 1],
         Count(h, l) <= MinKeys, Count(h, c) <= MinKeys, Count(h, r) <= MinKeys,
         NEW x \in {l, c, r}, Poor(Count(h, x)),
         \A q \in {l, c, r} : q # x => Count(h, q) >= LeastKeys
  PROVE  Refilled(h, ht, iv, Merge3(h, p, m), p, x)
<1> DEFINE g == Merge3(h, p, m)
           n == (Count(h, l) + Count(h, c) + Count(h, r)) \div 2 - Count(h, l)
           s == IF h[c].leaf THEN Count(h, l) + n ELSE Count(h, l) + 1 + n
           t == Count(h, c) - n + Count(h, r)
<1>1. Three(h, ht, iv, JoinAt(h, p, m), p, m, l, c, r)
  BY ThreeChildren
<1>2. /\ l \in DOMAIN h /\ c \in DOMAIN h /\ r \in DOMAIN h
      /\ l # r /\ l # c /\ c # r
  BY <1>1 DEF Three, Neighbours
<1>3. Count(h, l) \in Nat /\ Count(h, c) \in Nat /\ Count(h, r) \in Nat /\ Count(h, p) \in Nat
  BY <1>2, Counts
<1>4. \/ Poor(Count(h, l)) /\ Count(h, c) >= LeastKeys /\ Count(h, r) >= LeastKeys
      \/ Poor(Count(h, c)) /\ Count(h, l) >= LeastKeys /\ Count(h, r) >= LeastKeys
      \/ Poor(Count(h, r)) /\ Count(h, l) >= LeastKeys /\ Count(h, c) >= LeastKeys
  BY <1>2
<1>5. /\ n \in Nat /\ n < Count(h, c)
      /\ (Count(h, l) + Count(h, c) + Count(h, r) + 2) \div 2 - Count(h, l) - 1 = n
      /\ Fits(s) /\ Fits(t) /\ Fits(Count(h, l) + n)
  <2> DEFINE a == Count(h, l)
             b == Count(h, c)
             d == Count(h, r)
  <2>1. /\ a \in Nat /\ b \in Nat /\ d \in Nat
        /\ a <= MinKeys /\ b <= MinKeys /\ d <= MinKeys
        /\ \/ Poor(a) /\ b >= LeastKeys /\ d >= LeastKeys
           \/ Poor(b) /\ a >= LeastKeys /\ d >= LeastKeys
           \/ Poor(d) /\ a >= LeastKeys /\ b >= LeastKeys
    BY <1>3, <1>4
  <2> HIDE DEF a, b, d
  <2>2. ThirdsFit(a, b, d)
    BY <2>1, Thirds
  <2> QED BY <2>2 DEF ThirdsFit, a, b, d
<1>6. Count(h, l) + n >= 1
  BY <1>3, <1>5, Limits DEF Fits
<1>7. Merged3Into(h, ht, iv, g, p, l, c, r, s, t)
  <2>1. CASE h[c].leaf
    <3> HIDE DEF g, n
    <3>1. Merged3Into(h, ht, iv, g, p, l, c, r, Count(h, l) + n, t)
      BY <1>5, <1>6, <2>1, Merges3Leaves DEF g, n
    <3> QED BY <2>1, <3>1
  <2>2. CASE ~h[c].leaf
    <3> HIDE DEF g, n
    <3>1. Merged3Into(h, ht, iv, g, p, l, c, r, Count(h, l) + 1 + n, t)
      BY <1>5, <2>2, Merges3Internal DEF g, n
    <3> QED BY <2>2, <3>1
  <2> QED BY <2>1, <2>2
<1> HIDE DEF g, s, t, n
<1>8. /\ Rearranged(h, ht, iv, g, p)
       /\ Effect(h, g, p, {l, c}, -1)
       /\ DOMAIN g = DOMAIN h \ {r}
       /\ g[p].leaf = FALSE
       /\ Fits(Count(g, l)) /\ Fits(Count(g, c))
  BY <1>5, <1>7 DEF Merged3Into
<1>9. /\ Count(g, p) = Count(h, p) + -1
       /\ \A q \in DOMAIN g : q = l \/ q = c \/ q = p \/ (q \in DOMAIN h /\ g[q] = h[q])
  BY <1>8 DEF Effect
<1>10. ASSUME NEW q \in DOMAIN g
       PROVE  q = p \/ Fits(Count(g, q)) \/ (q \in DOMAIN h /\ g[q] = h[q] /\ q # x)
  BY <1>8, <1>9
<1>11. Count(g, p) \in Count(h, p) - 1 .. Count(h, p)
  BY <1>3, <1>9
<1>12. p \in DOMAIN g
  BY <1>1, <1>8 DEF Three, Neighbours
<1> QED BY <1>8, <1>10, <1>11, <1>12 DEF Refilled, g

LEMMA Merge2Refills ==
  ASSUME NEW h, NEW ht, NEW iv, Tree(h, ht, iv), NEW p \in DOMAIN h, h[p].leaf = FALSE,
         Len(h[p].keys) = 1,
         NEW l, NEW r, l = h[p].kids[1], r = h[p].kids[2],
         Count(h, l) <= MinKeys, Count(h, r) <= MinKeys,
         NEW x \in {l, r}, Poor(Count(h, x)),
         \A q \in {l, r} : q # x => Count(h, q) >= LeastKeys
  PROVE  Refilled(h, ht, iv, Merge2(h, p), p, x)
<1> DEFINE g == Merge2(h, p)
           n == IF h[l].leaf THEN Count(h, l) + Count(h, r) ELSE Count(h, l) + 1 + Count(h, r)
<1>1. Neighbours(h, ht, iv, p, 1, l, r)
  <2>1. 1 \in 1 .. Len(h[p].keys) /\ 1 + 1 = 2
    OBVIOUS
  <2>2. Neighbours(h, ht, iv, p, 1, h[p].kids[1], h[p].kids[1 + 1])
    BY <2>1, AreNeighbours
  <2> QED BY <2>1, <2>2
<1>2. l \in DOMAIN h /\ r \in DOMAIN h /\ l # r /\ p # r /\ IsInternal(h[p], DOMAIN h)
  BY <1>1 DEF Neighbours
<1>3. Count(h, l) \in Nat /\ Count(h, r) \in Nat /\ Count(h, p) \in Nat /\ Count(h, p) = 1
  BY <1>2, Counts
<1>4. g = JoinAt(h, p, 1)
  BY <1>1, Merge2IsJoin
<1> HIDE DEF g
<1>5. MergedInto(h, ht, iv, g, p, l, r, n)
  BY <1>1, <1>4, JoinsInto
<1>6. n \in 1 .. MaxRootKeys
  <2>1. CASE x = l
    <3>1. Poor(Count(h, l)) /\ Count(h, r) >= LeastKeys
      BY <1>2, <2>1
    <3> QED BY <1>3, <3>1, Limits DEF Poor
  <2>2. CASE x = r
    <3>1. Poor(Count(h, r)) /\ Count(h, l) >= LeastKeys
      BY <1>2, <2>2
    <3> QED BY <1>3, <3>1, Limits DEF Poor
  <2> QED BY <2>1, <2>2
<1> HIDE DEF n
<1>7. g[p].kids[1] = l
  <2>1. g[p] = Shortened(h[p], 1)
    <3>1. IsHeap(h)
      BY DEF Tree
    <3>2. JoinAtIs(h, JoinAt(h, p, 1), p, 1, l, r)
      BY <1>1, <3>1, JoinAtHalves
    <3> QED BY <1>4, <3>2 DEF JoinAtIs
  <2> DEFINE node == h[p]
  <2>2. IsInternal(node, DOMAIN h) /\ 1 \in 1 .. Len(node.keys) /\ node.kids[1] = l
    BY <1>2
  <2> HIDE DEF node
  <2>3. Without1(node.kids, Shortened(node, 1).kids, 1 + 1)
    BY <2>2, ShortenedNode
  <2>4. Shortened(node, 1).kids[1] = l
    <3>1. 1 \in 1 .. (1 + 1) - 1
      OBVIOUS
    <3> QED BY <2>2, <2>3, <3>1 DEF Without1
  <2> QED BY <2>1, <2>4 DEF node
<1>8. /\ Rearranged(h, ht, iv, g, p)
      /\ Effect(h, g, p, {l}, -1)
      /\ DOMAIN g = DOMAIN h \ {r}
      /\ g[p].leaf = FALSE
      /\ Count(g, l) = n
  BY <1>5 DEF MergedInto
<1>9. /\ Count(g, p) = Count(h, p) + -1
      /\ \A q \in DOMAIN g : q = l \/ q = p \/ (q \in DOMAIN h /\ g[q] = h[q])
  BY <1>8 DEF Effect
<1>10. Count(g, p) = 0 /\ Count(g, p) \in Count(h, p) - 1 .. Count(h, p)
  BY <1>3, <1>9
<1>11. OnlyChild(g, p, l)
  BY <1>6, <1>7, <1>8, <1>10 DEF OnlyChild
<1>12. ASSUME NEW q \in DOMAIN g
       PROVE  q = p \/ OnlyChild(g, p, q) \/ (q \in DOMAIN h /\ g[q] = h[q] /\ q # x)
  BY <1>8, <1>9, <1>11
<1>13. p \in DOMAIN g
  BY <1>2, <1>8
<1> QED BY <1>8, <1>10, <1>12, <1>13 DEF Refilled, g

LEMMA ApartKids ==
  ASSUME NEW h, NEW ht, NEW iv, Tree(h, ht, iv), NEW p \in DOMAIN h, h[p].leaf = FALSE,
         NEW i \in 1 .. Len(h[p].kids), NEW j \in 1 .. Len(h[p].kids), i # j
  PROVE  h[p].kids[i] # h[p].kids[j]
BY Kind, OneParent

\* The third child lends to the second, and that one to the first.
LEMMA LendsLeftTwice ==
  ASSUME NEW h, NEW ht, NEW iv, Tree(h, ht, iv), NEW p \in DOMAIN h, h[p].leaf = FALSE,
         Len(h[p].keys) >= 2,
         Poor(Count(h, h[p].kids[1])), Fits(Count(h, h[p].kids[2])),
         Fits(Count(h, h[p].kids[3])), Count(h, h[p].kids[3]) > MinKeys
  PROVE  Refilled(h, ht, iv, BorrowFromRight(BorrowFromRight(h, p, 2), p, 1), p, h[p].kids[1])
<1> DEFINE c == h[p].kids[1]
           d == h[p].kids[2]
           e == h[p].kids[3]
           m == BorrowFromRight(h, p, 2)
           g == BorrowFromRight(m, p, 1)
<1>1. /\ Len(h[p].keys) \in Nat /\ Len(h[p].kids) = Len(h[p].keys) + 1
      /\ \A j \in 1 .. Len(h[p].kids) : h[p].kids[j] \in DOMAIN h /\ h[p].kids[j] # p
  BY Counts
<1>2. /\ 1 \in 1 .. Len(h[p].kids) /\ 2 \in 1 .. Len(h[p].kids) /\ 3 \in 1 .. Len(h[p].kids)
      /\ 2 \in 1 .. Len(h[p].keys) /\ 1 \in 1 .. Len(h[p].keys) /\ 2 + 1 = 3 /\ 1 + 1 = 2
  BY <1>1
<1>3. /\ c \in DOMAIN h /\ d \in DOMAIN h /\ e \in DOMAIN h /\ c # p /\ d # p /\ e # p
      /\ c # d /\ c # e /\ d # e
  <2>1. 1 # 2 /\ 1 # 3 /\ 2 # 3
    OBVIOUS
  <2>2. c # d
    BY <1>2, <2>1, ApartKids
  <2>3. c # e
    BY <1>2, <2>1, ApartKids
  <2>4. d # e
    BY <1>2, <2>1, ApartKids
  <2> QED BY <1>1, <1>2, <2>2, <2>3, <2>4
<1>4. Count(h, e) >= 2 /\ Count(h, d) + 1 >= 2
  <2>1. Count(h, e) \in Nat /\ Count(h, d) \in Nat
    BY <1>3, Counts
  <2> HIDE DEF d, e
  <2> QED BY <2>1, Limits DEF Fits, d, e
<1>5. Neighbours(h, ht, iv, p, 2, d, e)
  <2>1. Neighbours(h, ht, iv, p, 2, h[p].kids[2], h[p].kids[2 + 1])
    BY <1>2, AreNeighbours
  <2> QED BY <1>2, <2>1
<1>6. Lent(h, ht, iv, m, p, e, d)
  BY <1>4, <1>5, LendsLeft
<1> HIDE DEF m
<1>7. /\ m[p].kids = h[p].kids /\ m[p].leaf = FALSE /\ DOMAIN m = DOMAIN h
      /\ Len(m[p].keys) = Len(h[p].keys) /\ Count(m, d) = Count(h, d) + 1
  BY <1>6 DEF Lent
<1>8. ASSUME NEW ht1, NEW iv1, Tree(m, ht1, iv1)
      PROVE  Lent(m, ht1, iv1, g, p, d, c)
  <2>1. Neighbours(m, ht1, iv1, p, 1, m[p].kids[1], m[p].kids[1 + 1])
    BY <1>2, <1>7, <1>8, AreNeighbours
  <2>2. Neighbours(m, ht1, iv1, p, 1, c, d)
    BY <1>2, <1>7, <2>1
  <2> HIDE DEF c, d
  <2> QED BY <1>4, <1>7, <1>8, <2>2, LendsLeft
<1> HIDE DEF c, d, e, g
<1>9. Poor(Count(h, c)) /\ Fits(Count(h, d)) /\ Fits(Count(h, e)) /\ Count(h, e) > MinKeys
  BY DEF c, d, e
<1>10. Refilled(h, ht, iv, g, p, c)
  BY <1>3, <1>6, <1>8, <1>9, LentTwiceRefills
<1> QED BY <1>10 DEF m, g, c

LEMMA LendsRightTwice ==
  ASSUME NEW h, NEW ht, NEW iv, Tree(h, ht, iv), NEW p \in DOMAIN h, h[p].leaf = FALSE,
         NEW n \in Nat, n >= 3, n = Len(h[p].kids),
         Poor(Count(h, h[p].kids[n])), Fits(Count(h, h[p].kids[n - 1])),
         Fits(Count(h, h[p].kids[n - 2])), Count(h, h[p].kids[n - 2]) > MinKeys
  PROVE  Refilled(h, ht, iv, BorrowFromLeft(BorrowFromLeft(h, p, n - 1), p, n), p, h[p].kids[n])
<1> DEFINE c == h[p].kids[n]
           d == h[p].kids[n - 1]
           e == h[p].kids[n - 2]
           m == BorrowFromLeft(h, p, n - 1)
           g == BorrowFromLeft(m, p, n)
<1>1. /\ Len(h[p].keys) \in Nat /\ Len(h[p].kids) = Len(h[p].keys) + 1
      /\ \A j \in 1 .. Len(h[p].kids) : h[p].kids[j] \in DOMAIN h /\ h[p].kids[j] # p
  BY Counts
<1>2. /\ n \in 1 .. Len(h[p].kids) /\ n - 1 \in 1 .. Len(h[p].kids) /\ n - 2 \in 1 .. Len(h[p].kids)
      /\ n - 1 \in 1 .. Len(h[p].keys) /\ n - 2 \in 1 .. Len(h[p].keys)
      /\ (n - 1) - 1 = n - 2 /\ (n - 2) + 1 = n - 1 /\ (n - 1) + 1 = n /\ n - 1 \in Nat
      /\ n # n - 1 /\ n # n - 2 /\ n - 1 # n - 2
  BY <1>1
<1>3. /\ c \in DOMAIN h /\ d \in DOMAIN h /\ e \in DOMAIN h /\ c # p /\ d # p /\ e # p
      /\ c # d /\ c # e /\ d # e
  <2>1. c # d
    BY <1>2, ApartKids
  <2>2. c # e
    BY <1>2, ApartKids
  <2>3. d # e
    BY <1>2, ApartKids
  <2> QED BY <1>1, <1>2, <2>1, <2>2, <2>3
<1>4. Count(h, e) >= 2 /\ Count(h, d) + 1 >= 2
  <2>1. Count(h, e) \in Nat /\ Count(h, d) \in Nat
    BY <1>3, Counts
  <2> HIDE DEF d, e
  <2> QED BY <2>1, Limits DEF Fits, d, e
<1>5. Neighbours(h, ht, iv, p, (n - 1) - 1, e, d)
  <2>1. Neighbours(h, ht, iv, p, n - 2, h[p].kids[n - 2], h[p].kids[(n - 2) + 1])
    BY <1>2, AreNeighbours
  <2> QED BY <1>2, <2>1
<1>6. Lent(h, ht, iv, m, p, e, d)
  <2> HIDE DEF d, e
  <2> QED BY <1>2, <1>4, <1>5, LendsRight
<1> HIDE DEF m
<1>7. /\ m[p].kids = h[p].kids /\ m[p].leaf = FALSE /\ DOMAIN m = DOMAIN h
      /\ Len(m[p].keys) = Len(h[p].keys) /\ Count(m, d) = Count(h, d) + 1
  BY <1>6 DEF Lent
<1>8. ASSUME NEW ht1, NEW iv1, Tree(m, ht1, iv1)
      PROVE  Lent(m, ht1, iv1, g, p, d, c)
  <2>1. Neighbours(m, ht1, iv1, p, n - 1, m[p].kids[n - 1], m[p].kids[(n - 1) + 1])
    BY <1>2, <1>7, <1>8, AreNeighbours
  <2>2. Neighbours(m, ht1, iv1, p, n - 1, d, c)
    BY <1>2, <1>7, <2>1
  <2> HIDE DEF c, d
  <2> QED BY <1>4, <1>7, <1>8, <2>2, LendsRight
<1> HIDE DEF c, d, e, g
<1>9. Poor(Count(h, c)) /\ Fits(Count(h, d)) /\ Fits(Count(h, e)) /\ Count(h, e) > MinKeys
  BY DEF c, d, e
<1>10. Refilled(h, ht, iv, g, p, c)
  BY <1>3, <1>6, <1>8, <1>9, LentTwiceRefills
<1> QED BY <1>10 DEF m, g, c

LEMMA OneLendsLeft ==
  ASSUME NEW h, NEW ht, NEW iv, Tree(h, ht, iv), NEW p \in DOMAIN h, h[p].leaf = FALSE,
         NEW i \in Nat, i \in 1 .. Len(h[p].keys),
         Poor(Count(h, h[p].kids[i])), Fits(Count(h, h[p].kids[i + 1])),
         Count(h, h[p].kids[i + 1]) > MinKeys
  PROVE  Refilled(h, ht, iv, BorrowFromRight(h, p, i), p, h[p].kids[i])
<1> DEFINE c == h[p].kids[i]
           d == h[p].kids[i + 1]
<1>1. Neighbours(h, ht, iv, p, i, c, d)
  BY AreNeighbours
<1>2. c \in DOMAIN h /\ d \in DOMAIN h
  BY <1>1 DEF Neighbours
<1> HIDE DEF c, d
<1>3. Poor(Count(h, c)) /\ Fits(Count(h, d)) /\ Count(h, d) > MinKeys
  BY DEF c, d
<1>4. Count(h, d) >= 2
  <2>1. Count(h, d) \in Nat
    BY <1>2, Counts
  <2> QED BY <1>3, <2>1, Limits
<1>5. Lent(h, ht, iv, BorrowFromRight(h, p, i), p, d, c)
  BY <1>1, <1>4, LendsLeft
<1>6. Refilled(h, ht, iv, BorrowFromRight(h, p, i), p, c)
  BY <1>2, <1>3, <1>5, LentRefills
<1> QED BY <1>6 DEF c

LEMMA OneLendsRight ==
  ASSUME NEW h, NEW ht, NEW iv, Tree(h, ht, iv), NEW p \in DOMAIN h, h[p].leaf = FALSE,
         NEW i \in Nat, i - 1 \in 1 .. Len(h[p].keys),
         Poor(Count(h, h[p].kids[i])), Fits(Count(h, h[p].kids[i - 1])),
         Count(h, h[p].kids[i - 1]) > MinKeys
  PROVE  Refilled(h, ht, iv, BorrowFromLeft(h, p, i), p, h[p].kids[i])
<1> DEFINE c == h[p].kids[i]
           d == h[p].kids[i - 1]
<1>1. Neighbours(h, ht, iv, p, i - 1, d, c)
  <2>1. (i - 1) + 1 = i
    OBVIOUS
  <2>2. Neighbours(h, ht, iv, p, i - 1, h[p].kids[i - 1], h[p].kids[(i - 1) + 1])
    BY AreNeighbours
  <2> QED BY <2>1, <2>2
<1>2. c \in DOMAIN h /\ d \in DOMAIN h
  BY <1>1 DEF Neighbours
<1> HIDE DEF c, d
<1>3. Poor(Count(h, c)) /\ Fits(Count(h, d)) /\ Count(h, d) > MinKeys
  BY DEF c, d
<1>4. Count(h, d) >= 2
  <2>1. Count(h, d) \in Nat
    BY <1>2, Counts
  <2> QED BY <1>3, <2>1, Limits
<1>5. Lent(h, ht, iv, BorrowFromLeft(h, p, i), p, d, c)
  BY <1>1, <1>4, LendsRight
<1>6. Refilled(h, ht, iv, BorrowFromLeft(h, p, i), p, c)
  BY <1>2, <1>3, <1>5, LentRefills
<1> QED BY <1>6 DEF c

LEMMA Refills ==
  ASSUME NEW h, NEW ht, NEW iv, Tree(h, ht, iv), NEW p \in DOMAIN h, h[p].leaf = FALSE,
         Order >= 3, Count(h, p) >= 1,
         NEW i \in 1 .. Len(h[p].kids),
         \A j \in 1 .. Len(h[p].kids) : j # i => Fits(Count(h, h[p].kids[j])),
         Count(h, h[p].kids[i]) \in LeastKeys - 1 .. MaxKeys
  PROVE  Refilled(h, ht, iv, Refill(h, p, i), p, h[p].kids[i])
<1> DEFINE kids == h[p].kids
           n == Len(kids)
           c == kids[i]
           g == Refill(h, p, i)
           Spare(j) == j \in DOMAIN kids /\ Count(h, kids[j]) > MinKeys
           m == IF i = 1 THEN 2 ELSE IF i = n THEN n - 1 ELSE i
<1>1. /\ Len(h[p].keys) \in Nat /\ n = Len(h[p].keys) + 1 /\ DOMAIN kids = 1 .. n
      /\ Count(h, p) = Len(h[p].keys)
      /\ \A j \in 1 .. n : kids[j] \in DOMAIN h
  <2>1. /\ Count(h, p) = Len(h[p].keys) /\ Len(h[p].kids) = Count(h, p) + 1
        /\ Len(h[p].keys) \in Nat /\ DOMAIN h[p].kids = 1 .. Len(h[p].kids)
        /\ \A j \in 1 .. Len(h[p].kids) : h[p].kids[j] \in DOMAIN h
    BY Counts
  <2> QED BY <2>1
<1>2. n \in Nat /\ n >= 2 /\ i \in Nat /\ i >= 1 /\ i <= n /\ Len(h[p].keys) = n - 1
  BY <1>1
<1>3. \A j \in 1 .. n : Count(h, kids[j]) \in Nat
  BY <1>1, Counts
<1>4. \A j \in 1 .. n : j # i => Fits(Count(h, kids[j]))
  OBVIOUS
<1>5. g = IF Count(h, c) >= MinKeys THEN h
          ELSE IF Spare(i - 1) THEN BorrowFromLeft(h, p, i)
          ELSE IF Spare(i + 1) THEN BorrowFromRight(h, p, i)
          ELSE IF i = 1 /\ Spare(3)
               THEN BorrowFromRight(BorrowFromRight(h, p, 2), p, 1)
          ELSE IF i = n /\ Spare(n - 2)
               THEN BorrowFromLeft(BorrowFromLeft(h, p, n - 1), p, n)
          ELSE IF n >= 3 THEN Merge3(h, p, m) ELSE Merge2(h, p)
  BY DEF Refill
<1>6. Count(h, c) \in Nat /\ Count(h, c) >= LeastKeys - 1 /\ Count(h, c) <= MaxKeys
  BY <1>3, Limits
<1> HIDE DEF g
<1>7. CASE Count(h, c) >= MinKeys
  <2>1. g = h
    BY <1>5, <1>7
  <2>2. Fits(Count(h, c))
    BY <1>6, <1>7, Limits DEF Fits
  <2>3. \A q \in DOMAIN h : Fits(Count(h, q)) \/ q # c
    BY <2>2
  <2>4. Rearranged(h, ht, iv, h, p)
    BY RearrangedNot
  <2>5. Count(h, p) \in Count(h, p) - 1 .. Count(h, p)
    BY <1>1
  <2>6. Refilled(h, ht, iv, h, p, c)
    BY <2>3, <2>4, <2>5 DEF Refilled
  <2> QED BY <2>1, <2>6 DEF g
<1>8. CASE ~(Count(h, c) >= MinKeys)
  <2>1. Poor(Count(h, c)) /\ Count(h, c) <= MinKeys
    BY <1>6, <1>8, Limits DEF Poor
  <2>2. CASE Spare(i - 1)
    <3>1. i - 1 \in 1 .. n /\ i - 1 # i /\ i - 1 \in 1 .. Len(h[p].keys) /\ i \in Nat
      BY <1>1, <1>2, <2>2
    <3>2. Fits(Count(h, kids[i - 1])) /\ Count(h, kids[i - 1]) > MinKeys
      BY <1>4, <2>2, <3>1
    <3>3. g = BorrowFromLeft(h, p, i)
      BY <1>5, <1>8, <2>2
    <3> HIDE DEF m, Spare
    <3> QED BY <2>1, <3>1, <3>2, <3>3, OneLendsRight DEF g
  <2>3. CASE ~Spare(i - 1) /\ Spare(i + 1)
    <3>1. i + 1 \in 1 .. n /\ i + 1 # i /\ i \in 1 .. Len(h[p].keys) /\ i \in Nat
      BY <1>1, <1>2, <2>3
    <3>2. Fits(Count(h, kids[i + 1])) /\ Count(h, kids[i + 1]) > MinKeys
      BY <1>4, <2>3, <3>1
    <3>3. g = BorrowFromRight(h, p, i)
      BY <1>5, <1>8, <2>3
    <3> HIDE DEF m, Spare
    <3> QED BY <2>1, <3>1, <3>2, <3>3, OneLendsLeft DEF g
  <2>4. CASE ~Spare(i - 1) /\ ~Spare(i + 1) /\ i = 1 /\ Spare(3)
    <3>1. 3 \in 1 .. n /\ 2 \in 1 .. n /\ Len(h[p].keys) >= 2 /\ 3 # i /\ 2 # i
      BY <1>1, <1>2, <2>4
    <3>2. Fits(Count(h, kids[2])) /\ Fits(Count(h, kids[3])) /\ Count(h, kids[3]) > MinKeys
      BY <1>4, <2>4, <3>1
    <3>3. g = BorrowFromRight(BorrowFromRight(h, p, 2), p, 1)
      BY <1>5, <1>8, <2>4
    <3> HIDE DEF m, Spare
    <3> QED BY <2>1, <2>4, <3>1, <3>2, <3>3, LendsLeftTwice DEF g
  <2>5. CASE ~Spare(i - 1) /\ ~Spare(i + 1) /\ ~(i = 1 /\ Spare(3)) /\ i = n /\ Spare(n - 2)
    <3>1. n - 2 \in 1 .. n /\ n - 1 \in 1 .. n /\ n >= 3 /\ n - 2 # i /\ n - 1 # i
      BY <1>1, <1>2, <2>5
    <3>2. Fits(Count(h, kids[n - 1])) /\ Fits(Count(h, kids[n - 2])) /\ Count(h, kids[n - 2]) > MinKeys
      BY <1>4, <2>5, <3>1
    <3>3. g = BorrowFromLeft(BorrowFromLeft(h, p, n - 1), p, n)
      BY <1>5, <1>8, <2>5
    <3> HIDE DEF m, Spare
    <3> QED BY <1>2, <2>1, <2>5, <3>1, <3>2, <3>3, LendsRightTwice DEF g
  <2>6. CASE /\ ~Spare(i - 1) /\ ~Spare(i + 1) /\ ~(i = 1 /\ Spare(3)) /\ ~(i = n /\ Spare(n - 2))
             /\ n >= 3
    <3>1. g = Merge3(h, p, m)
      BY <1>5, <1>8, <2>6
    <3>2. /\ m \in Nat /\ m >= 2 /\ m <= Len(h[p].keys)
          /\ m - 1 \in 1 .. n /\ m \in 1 .. n /\ m + 1 \in 1 .. n
          /\ i = m - 1 \/ i = m \/ i = m + 1
      BY <1>2, <2>6
    <3>3. \A j \in {m - 1, m, m + 1} : j = i \/ ~Spare(j)
      BY <1>2, <2>6
    <3> DEFINE l == kids[m - 1]
               d == kids[m]
               r == kids[m + 1]
    <3>4. \A j \in {m - 1, m, m + 1} : Count(h, kids[j]) <= MinKeys
      <4> TAKE j \in {m - 1, m, m + 1}
      <4>1. j \in 1 .. n
        BY <3>2
      <4>2. CASE j = i
        BY <2>1, <4>2
      <4>3. CASE ~Spare(j)
        BY <1>1, <1>3, <4>1, <4>3, Limits
      <4> QED BY <3>3, <4>2, <4>3
    <3>5. \A j \in {m - 1, m, m + 1} : kids[j] # c => Count(h, kids[j]) >= LeastKeys
      <4> TAKE j \in {m - 1, m, m + 1}
      <4> SUFFICES ASSUME kids[j] # c PROVE Count(h, kids[j]) >= LeastKeys
        OBVIOUS
      <4>1. j \in 1 .. n /\ j # i
        BY <3>2
      <4> QED BY <1>3, <1>4, <4>1, Limits DEF Fits
    <3>6. c \in {l, d, r}
      BY <3>2
    <3>7. \A q \in {l, d, r} : q # c => Count(h, q) >= LeastKeys
      BY <3>5
    <3>8. Count(h, l) <= MinKeys /\ Count(h, d) <= MinKeys /\ Count(h, r) <= MinKeys
      BY <3>4
    <3>9. Poor(Count(h, c))
      BY <2>1
    <3>10. l = h[p].kids[m - 1] /\ d = h[p].kids[m] /\ r = h[p].kids[m + 1]
      OBVIOUS
    <3> HIDE DEF m, Spare, c, l, d, r
    <3>11. Refilled(h, ht, iv, Merge3(h, p, m), p, c)
      BY <3>2, <3>6, <3>7, <3>8, <3>9, <3>10, Merge3Refills
    <3> QED BY <3>1, <3>11 DEF g, c
  <2>7. CASE /\ ~Spare(i - 1) /\ ~Spare(i + 1) /\ ~(i = 1 /\ Spare(3)) /\ ~(i = n /\ Spare(n - 2))
             /\ ~(n >= 3)
    <3>1. g = Merge2(h, p)
      BY <1>5, <1>8, <2>7
    <3>2. n = 2 /\ Len(h[p].keys) = 1 /\ 1 \in 1 .. n /\ 2 \in 1 .. n /\ (i = 1 \/ i = 2)
      <4>1. ~(n >= 3)
        BY <2>7
      <4>2. n \in Nat /\ n >= 2
        BY <1>2
      <4> HIDE DEF n, Spare, c, m
      <4>3. n = 2
        BY <4>1, <4>2
      <4> QED BY <1>2, <4>3
    <3> DEFINE l == kids[1]
               r == kids[2]
    <3>3. \A j \in {1, 2} : Count(h, kids[j]) <= MinKeys
      <4> TAKE j \in {1, 2}
      <4>1. j \in 1 .. n
        BY <3>2
      <4>2. CASE j = i
        BY <2>1, <4>2
      <4>3. CASE j # i
        <5>1. j = i - 1 \/ j = i + 1
          BY <3>2, <4>3
        <5>2. ~Spare(j)
          BY <2>7, <5>1
        <5> QED BY <1>1, <1>3, <4>1, <5>2, Limits
      <4> QED BY <4>2, <4>3
    <3>4. \A j \in {1, 2} : kids[j] # c => Count(h, kids[j]) >= LeastKeys
      <4> TAKE j \in {1, 2}
      <4> SUFFICES ASSUME kids[j] # c PROVE Count(h, kids[j]) >= LeastKeys
        OBVIOUS
      <4>1. j \in 1 .. n /\ j # i
        BY <3>2
      <4> QED BY <1>3, <1>4, <4>1, Limits DEF Fits
    <3>5. c \in {l, r}
      BY <3>2
    <3>6. \A q \in {l, r} : q # c => Count(h, q) >= LeastKeys
      BY <3>4
    <3>7. Count(h, l) <= MinKeys /\ Count(h, r) <= MinKeys /\ Poor(Count(h, c))
      BY <2>1, <3>3
    <3>8. l = h[p].kids[1] /\ r = h[p].kids[2]
      OBVIOUS
    <3> HIDE DEF m, Spare, c, l, r
    <3>9. Refilled(h, ht, iv, Merge2(h, p), p, c)
      BY <3>2, <3>5, <3>6, <3>7, <3>8, Merge2Refills
    <3> QED BY <3>1, <3>9 DEF g, c
  <2> QED BY <2>2, <2>3, <2>4, <2>5, <2>6, <2>7
<1> QED BY <1>7, <1>8

-----------------------------------------------------------------------------
(* Where a key is looked for *)

\* A set of positions that holds with a position all before it.
LEMMA Position ==
  ASSUME NEW n \in Nat, NEW P, P \subseteq 1 .. n,
         \A i, j \in 1 .. n : i < j /\ j \in P => i \in P
  PROVE  /\ 1 + Cardinality(P) \in 1 .. n + 1
         /\ \A j \in 1 .. n : j \in P <=> j < 1 + Cardinality(P)
<1> DEFINE T == {x \in 1 .. n + 1 : x \notin P}
<1>1. T \subseteq Nat /\ n + 1 \in T
  OBVIOUS
<1>2. PICK v \in T : \A y \in T : v <= y
  BY <1>1, LeastElement
<1>3. v \in 1 .. n + 1 /\ v \notin P
  BY <1>2
<1>4. \A j \in 1 .. n : j < v => j \in P
  BY <1>2
<1>5. \A j \in 1 .. n : j \in P => j < v
  BY <1>3
<1>6. P = 1 .. v - 1
  <2>1. \A j \in 1 .. n : j \in P <=> j \in 1 .. v - 1
    BY <1>3, <1>4, <1>5
  <2>2. 1 .. v - 1 \subseteq 1 .. n
    BY <1>3
  <2> HIDE DEF T
  <2> QED BY <2>1, <2>2
<1>7. Cardinality(1 .. v - 1) = v - 1
  <2>1. 1 \in Int /\ v - 1 \in Int
    BY <1>3
  <2>2. Cardinality(1 .. v - 1) = IF 1 > v - 1 THEN 0 ELSE (v - 1) - 1 + 1
    BY <2>1, FS_Interval
  <2> QED BY <1>3, <2>2
<1>8. 1 + Cardinality(P) = v
  BY <1>3, <1>6, <1>7
<1> QED BY <1>3, <1>4, <1>5, <1>8

UpperIs(s, k, u) ==
  /\ u \in 1 .. Len(s) + 1
  /\ \A j \in 1 .. Len(s) : s[j] <= k <=> j < u

LEMMA UpperOf ==
  ASSUME NEW node, node.leaf = FALSE, Ascending(node.keys), NEW k \in Int
  PROVE  UpperIs(node.keys, k, UpperIndex(node, k))
<1> DEFINE s == node.keys
           P == {i \in 1 .. Len(s) : s[i] <= k}
<1>1. UpperIndex(node, k) = 1 + Cardinality(P)
  BY DEF UpperIndex, Size, KeyAt
<1>2. /\ Len(s) \in Nat /\ \A i \in 1 .. Len(s) : s[i] \in Int
      /\ \A i, j \in 1 .. Len(s) : i < j => s[i] < s[j]
  BY DEF Ascending
<1> HIDE DEF s
<1>3. \A i, j \in 1 .. Len(s) : i < j /\ j \in P => i \in P
  BY <1>2
<1>4. P \subseteq 1 .. Len(s)
  OBVIOUS
<1>5. \A j \in 1 .. Len(s) : j \in P <=> s[j] <= k
  OBVIOUS
<1> HIDE DEF P
<1>6. /\ 1 + Cardinality(P) \in 1 .. Len(s) + 1
      /\ \A j \in 1 .. Len(s) : j \in P <=> j < 1 + Cardinality(P)
  BY <1>2, <1>3, <1>4, Position
<1>7. UpperIs(s, k, UpperIndex(node, k))
  BY <1>1, <1>5, <1>6 DEF UpperIs
<1> QED BY <1>7 DEF s

\* The child in whose range the key is.
Way(h, ht, iv, p, k, u) ==
  /\ u \in 1 .. Len(h[p].kids) /\ u \in Nat
  /\ h[p].kids[u] \in DOMAIN h /\ h[p].kids[u] # p
  /\ ht[h[p].kids[u]] = ht[p] - 1
  /\ iv[h[p].kids[u]] \subseteq iv[p]
  /\ k \in iv[p] => k \in iv[h[p].kids[u]]

LEMMA Descends ==
  ASSUME NEW h, NEW ht, NEW iv, Tree(h, ht, iv), NEW p \in DOMAIN h, h[p].leaf = FALSE,
         NEW k \in Int
  PROVE  Way(h, ht, iv, p, k, UpperIndex(h[p], k))
<1> DEFINE s == h[p].keys
           u == UpperIndex(h[p], k)
<1>1. InternalFits(h, ht, iv, p)
  BY Kind
<1>2. Parent(h, ht, iv, p) /\ Children(h, ht, iv, p)
  BY <1>1, Family
<1>3. Ascending(s) /\ Len(h[p].kids) = Len(s) + 1 /\ Len(s) \in Nat
  BY <1>2 DEF Parent, Ascending
<1>4. UpperIs(s, k, u)
  BY <1>3, UpperOf
<1>5. u \in 1 .. Len(h[p].kids) /\ u \in Nat
  BY <1>3, <1>4 DEF UpperIs
<1>6. /\ h[p].kids[u] \in DOMAIN h /\ h[p].kids[u] # p
      /\ ht[h[p].kids[u]] = ht[p] - 1
      /\ iv[h[p].kids[u]] = Slice(iv[p], s, u)
  BY <1>2, <1>5 DEF Children
<1> HIDE DEF s, u
<1>7. k \in iv[p] => k \in Slice(iv[p], s, u)
  <2> SUFFICES ASSUME k \in iv[p] PROVE k \in Slice(iv[p], s, u)
    OBVIOUS
  <2>1. u > 1 => s[u - 1] <= k
    <3> SUFFICES ASSUME u > 1 PROVE s[u - 1] <= k
      OBVIOUS
    <3>1. u - 1 \in 1 .. Len(s) /\ u - 1 < u
      BY <1>3, <1>4 DEF UpperIs
    <3> QED BY <1>4, <3>1 DEF UpperIs
  <2>2. u <= Len(s) => k < s[u]
    <3> SUFFICES ASSUME u <= Len(s) PROVE k < s[u]
      OBVIOUS
    <3>1. u \in 1 .. Len(s) /\ ~(u < u)
      BY <1>3, <1>4 DEF UpperIs
    <3>2. s[u] \in Int /\ ~(s[u] <= k)
      BY <1>3, <1>4, <3>1 DEF UpperIs, Ascending
    <3> QED BY <3>2
  <2> QED BY <2>1, <2>2 DEF Slice
<1>8. Slice(iv[p], s, u) \subseteq iv[p]
  BY DEF Slice
<1> QED BY <1>5, <1>6, <1>7, <1>8 DEF Way, u

\* The descent.
DownStep(h, k, f, p) == IF h[p].leaf THEN p ELSE f[h[p].kids[UpperIndex(h[p], k)]]

DownTo(h, ht, k, n, f) ==
  f = [p \in {q \in DOMAIN h : ht[q] <= n} |-> DownStep(h, k, f, p)]

LEMMA DownEquation ==
  ASSUME NEW h, NEW ht, NEW iv, Tree(h, ht, iv), NEW k \in Int,
         NEW N \in Nat, \A q \in DOMAIN h : ht[q] <= N
  PROVE  \A p \in DOMAIN h : Down(h, k)[p] = DownStep(h, k, Down(h, k), p)
<1> DEFINE D(n) == {p \in DOMAIN h : ht[p] <= n}
           S == {n \in Nat : \E f : DownTo(h, ht, k, n, f)}
           next(p) == h[p].kids[UpperIndex(h[p], k)]
<1>1. \A p \in DOMAIN h : ht[p] \in Nat
  BY Kind
<1>2. \A p \in DOMAIN h : h[p].leaf = FALSE => next(p) \in DOMAIN h /\ ht[next(p)] = ht[p] - 1
  <2> TAKE p \in DOMAIN h
  <2> SUFFICES ASSUME h[p].leaf = FALSE PROVE next(p) \in DOMAIN h /\ ht[next(p)] = ht[p] - 1
    OBVIOUS
  <2> DEFINE u == UpperIndex(h[p], k)
  <2> HIDE DEF u
  <2>1. Way(h, ht, iv, p, k, u)
    BY Descends DEF u
  <2> QED BY <2>1 DEF u, Way
<1>3. \A p \in DOMAIN h : \/ h[p].leaf = TRUE
                          \/ h[p].leaf = FALSE /\ ht[p] > 0
  BY NodeKind
<1> HIDE DEF next
<1>4. 0 \in S
  <2> DEFINE f == [p \in D(0) |-> p]
  <2>1. \A p \in D(0) : h[p].leaf = TRUE
    BY <1>1, <1>3
  <2>2. \A p \in D(0) : DownStep(h, k, f, p) = p
    BY <2>1 DEF DownStep
  <2>3. DownTo(h, ht, k, 0, f)
    BY <2>2 DEF DownTo
  <2> QED BY <2>3
<1>5. ASSUME NEW n \in Nat, n \in S PROVE n + 1 \in S
  <2>1. PICK f : DownTo(h, ht, k, n, f)
    BY <1>5
  <2> DEFINE g == [p \in D(n + 1) |-> DownStep(h, k, f, p)]
  <2>2. \A p \in D(n) : p \in D(n + 1)
    BY <1>1
  <2>3. DOMAIN g = D(n + 1) /\ \A p \in D(n + 1) : g[p] = DownStep(h, k, f, p)
    OBVIOUS
  <2>4. \A p \in D(n) : f[p] = DownStep(h, k, f, p)
    BY <2>1 DEF DownTo
  <2>5. g = [p \in D(n + 1) |-> g[p]]
    OBVIOUS
  <2> HIDE DEF g
  <2>6. ASSUME NEW p \in D(n + 1) PROVE DownStep(h, k, g, p) = DownStep(h, k, f, p)
    <3>1. CASE h[p].leaf = TRUE
      BY <3>1 DEF DownStep
    <3>2. CASE h[p].leaf = FALSE
      <4>1. next(p) \in D(n)
        BY <1>1, <1>2, <3>2
      <4>2. g[next(p)] = f[next(p)]
        BY <2>2, <2>3, <2>4, <4>1
      <4> QED BY <3>2, <4>2 DEF DownStep, next
    <3> QED BY <1>3, <3>1, <3>2
  <2>7. \A p \in D(n + 1) : g[p] = DownStep(h, k, g, p)
    BY <2>3, <2>6
  <2>8. DownTo(h, ht, k, n + 1, g)
    BY <2>5, <2>7 DEF DownTo
  <2> QED BY <2>8
<1>6. N \in S
  <2> HIDE DEF S
  <2>1. Nat \subseteq S
    BY <1>4, <1>5, Induction
  <2> QED BY <2>1
<1>7. PICK f : DownTo(h, ht, k, N, f)
  BY <1>6
<1>8. D(N) = DOMAIN h
  OBVIOUS
<1>9. \E f2 : f2 = [p \in DOMAIN h |->
                     IF h[p].leaf THEN p ELSE f2[h[p].kids[UpperIndex(h[p], k)]]]
  BY <1>7, <1>8 DEF DownStep, DownTo
<1>10. Down(h, k) = [p \in DOMAIN h |->
                     IF h[p].leaf THEN p ELSE Down(h, k)[h[p].kids[UpperIndex(h[p], k)]]]
  BY <1>9 DEF Down
<1> QED BY <1>10 DEF DownStep

-----------------------------------------------------------------------------
(* The entries of a leaf *)

Holds(s, e) == \E j \in 1 .. Len(s) : s[j] = e

LEMMA HoldsOneMore ==
  ASSUME NEW t, NEW s, NEW u, Without1(t, s, u), NEW e
  PROVE  Holds(t, e) <=> (e = t[u] \/ Holds(s, e))
<1>1. /\ u \in 1 .. Len(t) /\ Len(s) \in Nat /\ Len(t) = Len(s) + 1
      /\ \A j \in 1 .. u - 1 : s[j] = t[j]
      /\ \A j \in u .. Len(s) : s[j] = t[j + 1]
  BY DEF Without1
<1>2. ASSUME NEW j \in 1 .. Len(t), t[j] = e PROVE e = t[u] \/ Holds(s, e)
  <2>1. CASE j < u
    <3>1. j \in 1 .. u - 1 /\ j \in 1 .. Len(s)
      BY <1>1, <2>1
    <3> QED BY <1>1, <1>2, <3>1 DEF Holds
  <2>2. CASE j > u
    <3>1. j - 1 \in u .. Len(s) /\ j - 1 \in 1 .. Len(s) /\ (j - 1) + 1 = j
      BY <1>1, <2>2
    <3>2. s[j - 1] = t[j]
      BY <1>1, <3>1
    <3> QED BY <1>2, <3>1, <3>2 DEF Holds
  <2>3. CASE j = u
    BY <1>2, <2>3
  <2> QED BY <1>1, <2>1, <2>2, <2>3
<1>3. ASSUME NEW j \in 1 .. Len(s), s[j] = e PROVE Holds(t, e)
  <2>1. CASE j < u
    <3>1. j \in 1 .. u - 1 /\ j \in 1 .. Len(t)
      BY <1>1, <2>1
    <3> QED BY <1>1, <1>3, <3>1 DEF Holds
  <2>2. CASE j >= u
    <3>1. j \in u .. Len(s) /\ j + 1 \in 1 .. Len(t)
      BY <1>1, <2>2
    <3> QED BY <1>1, <1>3, <3>1 DEF Holds
  <2> QED BY <1>1, <2>1, <2>2
<1> QED BY <1>1, <1>2, <1>3 DEF Holds

\* Sorted data is sorted without one entry, and with one more in its place.
LEMMA SortedWithout ==
  ASSUME NEW t, NEW s, NEW u, Without1(t, s, u), NEW I, I \subseteq Int, DataFits(t, I)
  PROVE  DataFits(s, I)
<1>1. /\ u \in 1 .. Len(t) /\ Len(s) \in Nat /\ Len(t) = Len(s) + 1
      /\ \A j \in 1 .. u - 1 : s[j] = t[j]
      /\ \A j \in u .. Len(s) : s[j] = t[j + 1]
  BY DEF Without1
<1>2. /\ \A i, j \in 1 .. Len(t) : i < j => t[i][1] < t[j][1]
      /\ \A i \in 1 .. Len(t) : t[i][1] \in I
  BY DEF DataFits
<1> DEFINE F(j) == IF j < u THEN j ELSE j + 1
<1>3. \A j \in 1 .. Len(s) : F(j) \in 1 .. Len(t) /\ s[j] = t[F(j)]
  BY <1>1
<1>4. \A i, j \in 1 .. Len(s) : i < j => F(i) < F(j)
  BY <1>1
<1> HIDE DEF F
<1>5. \A i, j \in 1 .. Len(s) : i < j => s[i][1] < s[j][1]
  BY <1>2, <1>3, <1>4
<1> QED BY <1>2, <1>3, <1>5 DEF DataFits

LEMMA SortedWith ==
  ASSUME NEW t, NEW s, NEW u, Without1(t, s, u), NEW I, I \subseteq Int, DataFits(s, I),
         t[u][1] \in I,
         \A j \in 1 .. Len(s) : j < u => s[j][1] < t[u][1],
         \A j \in 1 .. Len(s) : j >= u => t[u][1] < s[j][1]
  PROVE  DataFits(t, I)
<1>1. /\ u \in 1 .. Len(t) /\ Len(s) \in Nat /\ Len(t) = Len(s) + 1
      /\ \A j \in 1 .. u - 1 : s[j] = t[j]
      /\ \A j \in u .. Len(s) : s[j] = t[j + 1]
  BY DEF Without1
<1>2. /\ \A i, j \in 1 .. Len(s) : i < j => s[i][1] < s[j][1]
      /\ \A i \in 1 .. Len(s) : s[i][1] \in I
  BY DEF DataFits
<1> DEFINE F(j) == IF j < u THEN j ELSE j - 1
<1>3. \A j \in 1 .. Len(t) : j # u => F(j) \in 1 .. Len(s)
  BY <1>1
<1>4. ASSUME NEW j \in 1 .. Len(t), j # u PROVE t[j] = s[F(j)]
  <2>1. CASE j < u
    <3>1. j \in 1 .. u - 1
      BY <1>1, <2>1
    <3> QED BY <1>1, <2>1, <3>1
  <2>2. CASE j > u
    <3>1. j - 1 \in u .. Len(s) /\ (j - 1) + 1 = j /\ ~(j < u)
      BY <1>1, <2>2
    <3> QED BY <1>1, <3>1
  <2> QED BY <1>1, <1>4, <2>1, <2>2
<1>5. \A i, j \in 1 .. Len(t) : i # u /\ j # u /\ i < j => F(i) < F(j)
  BY <1>1
<1>6. \A j \in 1 .. Len(t) : (j < u => F(j) < u) /\ (j > u => F(j) >= u)
  BY <1>1
<1> HIDE DEF F
<1>7. ASSUME NEW i \in 1 .. Len(t), NEW j \in 1 .. Len(t), i < j PROVE t[i][1] < t[j][1]
  <2>1. CASE i # u /\ j # u
    <3>1. F(i) \in 1 .. Len(s) /\ F(j) \in 1 .. Len(s) /\ F(i) < F(j)
      BY <1>3, <1>5, <1>7, <2>1
    <3>2. t[i] = s[F(i)] /\ t[j] = s[F(j)]
      BY <1>4, <2>1
    <3> QED BY <1>2, <3>1, <3>2
  <2>2. CASE i = u
    <3>1. j # u /\ j > u
      BY <1>1, <1>7, <2>2
    <3>2. F(j) \in 1 .. Len(s) /\ F(j) >= u /\ t[j] = s[F(j)]
      BY <1>3, <1>4, <1>6, <3>1
    <3> QED BY <2>2, <3>2
  <2>3. CASE j = u
    <3>1. i # u /\ i < u
      BY <1>1, <1>7, <2>3
    <3>2. F(i) \in 1 .. Len(s) /\ F(i) < u /\ t[i] = s[F(i)]
      BY <1>3, <1>4, <1>6, <3>1
    <3> QED BY <2>3, <3>2
  <2> QED BY <2>1, <2>2, <2>3
<1>8. ASSUME NEW j \in 1 .. Len(t) PROVE t[j][1] \in I
  <2>1. CASE j = u
    BY <2>1
  <2>2. CASE j # u
    BY <1>2, <1>3, <1>4, <2>2
  <2> QED BY <2>1, <2>2
<1> QED BY <1>7, <1>8 DEF DataFits

LowerIs(s, k, u) ==
  /\ u \in 1 .. Len(s) + 1
  /\ \A j \in 1 .. Len(s) : s[j][1] < k <=> j < u

LEMMA LowerOf ==
  ASSUME NEW node, node.leaf = TRUE, Len(node.data) \in Nat, NEW I, I \subseteq Int,
         DataFits(node.data, I), NEW k \in Int
  PROVE  LowerIs(node.data, k, KeyIndex(node, k))
<1> DEFINE s == node.data
           P == {i \in 1 .. Len(s) : s[i][1] < k}
<1>1. KeyIndex(node, k) = 1 + Cardinality(P)
  BY DEF KeyIndex, Size, KeyAt
<1>2. /\ Len(s) \in Nat /\ \A i \in 1 .. Len(s) : s[i][1] \in Int
      /\ \A i, j \in 1 .. Len(s) : i < j => s[i][1] < s[j][1]
  BY DEF DataFits
<1> HIDE DEF s
<1>3. \A i, j \in 1 .. Len(s) : i < j /\ j \in P => i \in P
  BY <1>2
<1>4. P \subseteq 1 .. Len(s)
  OBVIOUS
<1>5. \A j \in 1 .. Len(s) : j \in P <=> s[j][1] < k
  OBVIOUS
<1> HIDE DEF P
<1>6. /\ 1 + Cardinality(P) \in 1 .. Len(s) + 1
      /\ \A j \in 1 .. Len(s) : j \in P <=> j < 1 + Cardinality(P)
  BY <1>2, <1>3, <1>4, Position
<1>7. LowerIs(s, k, KeyIndex(node, k))
  BY <1>1, <1>5, <1>6 DEF LowerIs
<1> QED BY <1>7 DEF s

EntryPut(node, n, I, k, v) ==
  /\ IsLeaf(n) /\ n.leaf = TRUE /\ DataFits(n.data, I)
  /\ Size(n) = Size(node) + 1
  /\ \A e : Holds(n.data, e) <=> (e = <<k, v>> \/ Holds(node.data, e))

LEMMA PutsEntry ==
  ASSUME NEW node, IsLeaf(node), node.leaf = TRUE, NEW I, I \subseteq Int, DataFits(node.data, I),
         NEW k \in Keys, k \in I, NEW v \in Values,
         \A j \in 1 .. Len(node.data) : node.data[j][1] # k
  PROVE  EntryPut(node, WithData(node, InsertAt(node.data, KeyIndex(node, k), <<k, v>>)), I, k, v)
<1> DEFINE s == node.data
           u == KeyIndex(node, k)
           e == <<k, v>>
           t == InsertAt(s, u, e)
           T == Keys \X Values
           n == WithData(node, t)
<1>1. s \in Seq(T)
  BY DEF IsLeaf
<1>2. Len(s) \in Nat /\ k \in Int
  BY <1>1, Elements
<1>3. LowerIs(s, k, u)
  BY <1>2, LowerOf
<1>4. e \in T /\ e[1] = k
  OBVIOUS
<1>5. Size(node) = Len(s)
  BY DEF Size
<1>6. DataFits(s, I) /\ \A j \in 1 .. Len(s) : s[j][1] \in Int
  BY DEF DataFits
<1>7. \A j \in 1 .. Len(s) : s[j][1] # k
  OBVIOUS
<1> HIDE DEF s, u, e, T
<1>8. u \in 1 .. Len(s) + 1
  BY <1>3 DEF LowerIs
<1>9. t \in Seq(T) /\ Without1(t, s, u) /\ t[u] = e /\ Len(t) = Len(s) + 1
  BY <1>1, <1>4, <1>8, InsertedOne
<1> HIDE DEF t
<1>10. DataFits(t, I)
  <2>1. \A j \in 1 .. Len(s) : j < u => s[j][1] < t[u][1]
    BY <1>3, <1>4, <1>9 DEF LowerIs
  <2>2. \A j \in 1 .. Len(s) : j >= u => t[u][1] < s[j][1]
    <3> TAKE j \in 1 .. Len(s)
    <3> SUFFICES ASSUME j >= u PROVE k < s[j][1]
      BY <1>4, <1>9
    <3>1. ~(j < u)
      BY <1>2, <1>8
    <3>2. ~(s[j][1] < k)
      BY <1>3, <3>1 DEF LowerIs
    <3> QED BY <1>2, <1>6, <1>7, <3>2
  <2>3. t[u][1] \in I
    BY <1>4, <1>9
  <2> QED BY <1>6, <1>9, <2>1, <2>2, <2>3, SortedWith
<1>11. \A x : Holds(t, x) <=> (x = e \/ Holds(s, x))
  BY <1>9, HoldsOneMore
<1>12. LeafIs(n, t)
  BY <1>9, WithDataNode DEF T
<1> HIDE DEF n
<1>13. EntryPut(node, n, I, k, v)
  BY <1>5, <1>9, <1>10, <1>11, <1>12 DEF EntryPut, LeafIs, e, s
<1> QED BY <1>13 DEF n, t, e, u, s

EntryTaken(node, n, I, k) ==
  /\ IsLeaf(n) /\ n.leaf = TRUE /\ DataFits(n.data, I)
  /\ Size(n) = Size(node) - 1
  /\ \A e : Holds(n.data, e) <=> (Holds(node.data, e) /\ e[1] # k)

\* The position of a key that is there.
LEMMA KeyFound ==
  ASSUME NEW node, IsLeaf(node), node.leaf = TRUE, NEW I, I \subseteq Int, DataFits(node.data, I),
         NEW k \in Int, NEW e, Holds(node.data, e), e[1] = k
  PROVE  /\ KeyIndex(node, k) \in 1 .. Len(node.data)
         /\ node.data[KeyIndex(node, k)] = e
<1> DEFINE s == node.data
           u == KeyIndex(node, k)
<1>1. s \in Seq(Keys \X Values)
  BY DEF IsLeaf
<1>2. Len(s) \in Nat
  BY <1>1, Elements
<1>3. LowerIs(s, k, u)
  BY <1>2, LowerOf
<1>4. /\ \A i, j \in 1 .. Len(s) : i < j => s[i][1] < s[j][1]
      /\ \A i \in 1 .. Len(s) : s[i][1] \in Int
  BY DEF DataFits
<1>5. PICK j \in 1 .. Len(s) : s[j] = e
  BY DEF Holds
<1> HIDE DEF s, u
<1>6. u \in 1 .. Len(s) + 1 /\ \A i \in 1 .. Len(s) : s[i][1] < k <=> i < u
  BY <1>3 DEF LowerIs
<1>7. ~(s[j][1] < k)
  BY <1>5
<1>8. ~(j < u)
  BY <1>6, <1>7
<1>9. ~(u < j)
  <2> SUFFICES ASSUME u < j PROVE FALSE
    OBVIOUS
  <2>1. u \in 1 .. Len(s)
    BY <1>2, <1>6
  <2>2. s[u][1] < s[j][1]
    BY <1>4, <2>1
  <2>3. s[u][1] < k
    BY <1>5, <2>2
  <2> QED BY <1>2, <1>6, <2>1, <2>3
<1>10. u = j
  BY <1>2, <1>6, <1>8, <1>9
<1> QED BY <1>5, <1>10 DEF s, u

LEMMA TakesEntry ==
  ASSUME NEW node, IsLeaf(node), node.leaf = TRUE, NEW I, I \subseteq Int, DataFits(node.data, I),
         NEW k \in Int, NEW e0, Holds(node.data, e0), e0[1] = k
  PROVE  EntryTaken(node, WithData(node, RemoveAt(node.data, KeyIndex(node, k))), I, k)
<1> DEFINE t == node.data
           u == KeyIndex(node, k)
           s == RemoveAt(t, u)
           T == Keys \X Values
           n == WithData(node, s)
<1>1. t \in Seq(T) /\ DataFits(t, I) /\ Size(node) = Len(t)
  BY DEF IsLeaf, Size
<1>2. u \in 1 .. Len(t) /\ t[u] = e0
  BY KeyFound
<1>3. /\ \A i, j \in 1 .. Len(t) : i < j => t[i][1] < t[j][1]
      /\ \A i \in 1 .. Len(t) : t[i][1] \in Int
  BY DEF DataFits
<1> HIDE DEF t, u, T
<1>4. s \in Seq(T) /\ Without1(t, s, u)
  BY <1>1, <1>2, RemovedOne
<1> HIDE DEF s
<1>5. DataFits(s, I)
  BY <1>1, <1>4, SortedWithout
<1>6. /\ Len(s) \in Nat /\ Len(t) = Len(s) + 1
      /\ \A j \in 1 .. u - 1 : s[j] = t[j]
      /\ \A j \in u .. Len(s) : s[j] = t[j + 1]
  BY <1>4 DEF Without1
<1>7. ASSUME NEW j \in 1 .. Len(s) PROVE s[j][1] # k
  <2>1. CASE j < u
    <3>1. j \in 1 .. u - 1 /\ j \in 1 .. Len(t)
      BY <1>2, <1>6, <2>1
    <3>2. t[j][1] < t[u][1] /\ t[j][1] \in Int
      BY <1>2, <1>3, <2>1, <3>1
    <3> QED BY <1>2, <1>6, <3>1, <3>2
  <2>2. CASE j >= u
    <3>1. j \in u .. Len(s) /\ j + 1 \in 1 .. Len(t) /\ u < j + 1
      BY <1>2, <1>6, <2>2
    <3>2. t[u][1] < t[j + 1][1] /\ t[j + 1][1] \in Int
      BY <1>2, <1>3, <3>1
    <3> QED BY <1>2, <1>6, <3>1, <3>2
  <2> QED BY <1>2, <1>6, <2>1, <2>2
<1>8. \A e : Holds(t, e) <=> (e = t[u] \/ Holds(s, e))
  BY <1>4, HoldsOneMore
<1>9. \A e : Holds(s, e) => e[1] # k
  BY <1>7 DEF Holds
<1>10. \A e : Holds(s, e) <=> (Holds(t, e) /\ e[1] # k)
  BY <1>2, <1>8, <1>9
<1>11. LeafIs(n, s)
  BY <1>4, WithDataNode DEF T
<1>12. Len(s) = Len(t) - 1
  BY <1>6
<1> HIDE DEF n
<1>13. EntryTaken(node, n, I, k)
  BY <1>1, <1>5, <1>10, <1>11, <1>12 DEF EntryTaken, LeafIs, t
<1> QED BY <1>13 DEF n, t, u, s

EntryAssigned(node, n, I, k, v) ==
  /\ IsLeaf(n) /\ n.leaf = TRUE /\ DataFits(n.data, I)
  /\ Size(n) = Size(node)
  /\ \A e : Holds(n.data, e) <=> (e = <<k, v>> \/ (Holds(node.data, e) /\ e[1] # k))

LEMMA AssignsEntry ==
  ASSUME NEW node, IsLeaf(node), node.leaf = TRUE, NEW I, I \subseteq Int, DataFits(node.data, I),
         NEW k \in Keys, NEW v \in Values, NEW e0, Holds(node.data, e0), e0[1] = k
  PROVE  EntryAssigned(node,
           WithData(node, [node.data EXCEPT ![KeyIndex(node, k)] =
                                              <<node.data[KeyIndex(node, k)][1], v>>]), I, k, v)
<1> DEFINE s == node.data
           u == KeyIndex(node, k)
           x == <<s[u][1], v>>
           t == [s EXCEPT ![u] = x]
           T == Keys \X Values
           n == WithData(node, t)
<1>1. s \in Seq(T) /\ DataFits(s, I) /\ Size(node) = Len(s) /\ k \in Int
  BY TreeAssumption DEF IsLeaf, Size
<1>2. u \in 1 .. Len(s) /\ s[u] = e0
  BY <1>1, KeyFound
<1>3. /\ \A i, j \in 1 .. Len(s) : i < j => s[i][1] < s[j][1]
      /\ \A i \in 1 .. Len(s) : s[i][1] \in I
      /\ \A i \in 1 .. Len(s) : s[i][1] \in Int
  BY DEF DataFits
<1>4. x = <<k, v>> /\ x \in T /\ x[1] = k
  BY <1>2
<1> HIDE DEF s, u, T, x
<1>5. /\ t \in Seq(T) /\ Len(t) = Len(s)
      /\ \A j \in 1 .. Len(s) : t[j] = IF j = u THEN x ELSE s[j]
  BY <1>1, <1>2, <1>4, ExceptSeq
<1> HIDE DEF t
<1>6. \A j \in 1 .. Len(s) : t[j][1] = s[j][1]
  BY <1>2, <1>4, <1>5
<1>7. DataFits(t, I)
  BY <1>3, <1>5, <1>6 DEF DataFits
<1>8. Len(s) \in Nat
  BY <1>1, Elements
<1>9. ASSUME NEW j \in 1 .. Len(s), j # u PROVE s[j][1] # k
  <2>1. j < u \/ u < j
    BY <1>2, <1>8, <1>9
  <2>2. s[j][1] < s[u][1] \/ s[u][1] < s[j][1]
    BY <1>2, <1>3, <2>1
  <2> QED BY <1>2, <1>3, <2>2
<1>10. ASSUME NEW e PROVE Holds(t, e) <=> (e = x \/ (Holds(s, e) /\ e[1] # k))
  <2>1. ASSUME NEW j \in 1 .. Len(s), t[j] = e PROVE e = x \/ (Holds(s, e) /\ e[1] # k)
    BY <1>5, <1>9, <2>1 DEF Holds
  <2>2. ASSUME NEW j \in 1 .. Len(s), s[j] = e, e[1] # k PROVE Holds(t, e)
    BY <1>2, <1>5, <2>2 DEF Holds
  <2>3. e = x => Holds(t, e)
    BY <1>2, <1>5 DEF Holds
  <2> QED BY <1>5, <2>1, <2>2, <2>3 DEF Holds
<1>11. LeafIs(n, t)
  BY <1>5, WithDataNode DEF T
<1> HIDE DEF n
<1>12. EntryAssigned(node, n, I, k, v)
  BY <1>1, <1>4, <1>5, <1>7, <1>10, <1>11 DEF EntryAssigned, LeafIs, s
<1> QED BY <1>12 DEF n, t, u, s, x

-----------------------------------------------------------------------------
(* Another leaf in the place of one *)

LEMMA LeafEntries ==
  ASSUME NEW h, NEW ht, NEW iv, Tree(h, ht, iv), NEW p \in DOMAIN h, h[p].leaf = TRUE,
         NEW e \in Keys \X Values, e[1] \in iv[p]
  PROVE  e \in Entries(h) <=> Holds(h[p].data, e)
<1>1. Holds(h[p].data, e) => e \in Entries(h)
  BY DEF Holds, Entries
<1>2. ASSUME NEW q \in DOMAIN h, h[q].leaf, NEW j \in 1 .. Len(h[q].data), h[q].data[j] = e
      PROVE  q = p
  <2>1. LeafFits(h, ht, iv, q) /\ LeafFits(h, ht, iv, p)
    BY <1>2, Kind
  <2>2. e[1] \in iv[q] /\ ht[p] = ht[q]
    BY <1>2, <2>1 DEF LeafFits, DataFits
  <2>3. p \in DOMAIN ht /\ q \in DOMAIN ht
    BY DEF Tree, Ranges
  <2> QED BY <2>2, <2>3 DEF Tree, Apart
<1> QED BY <1>1, <1>2 DEF Holds, Entries

\* g has the leaves of h, in the same order.
LeavesStay(h, iv, g, iv2) ==
  /\ \A q \in DOMAIN h : h[q].leaf = TRUE =>
       q \in DOMAIN g /\ g[q].leaf = TRUE /\ iv2[q] = iv[q] /\ SameLinks(g[q], h[q])
  /\ \A q \in DOMAIN g : g[q].leaf = TRUE => q \in DOMAIN h /\ h[q].leaf = TRUE

LEMMA StayChained ==
  ASSUME NEW h, NEW iv, NEW g, NEW iv2, LeavesStay(h, iv, g, iv2)
  PROVE  KeepsChain(h, iv, g, iv2)
<1> SUFFICES ASSUME Chained(h, iv), NEW q \in DOMAIN g, g[q].leaf = TRUE
             PROVE  Follows(g, iv2, q)
  BY DEF KeepsChain, Chained
<1>1. /\ q \in DOMAIN h /\ h[q].leaf = TRUE /\ Follows(h, iv, q)
      /\ iv2[q] = iv[q] /\ SameLinks(g[q], h[q])
  BY DEF LeavesStay, Chained
<1>2. CASE h[q].next = Null /\ Top(iv[q])
  BY <1>1, <1>2 DEF Follows, SameLinks
<1>3. CASE /\ h[q].next \in DOMAIN h /\ h[h[q].next].leaf = TRUE
           /\ Adjacent(iv[q], iv[h[q].next])
  <2> DEFINE x == h[q].next
  <2>1. x \in DOMAIN h /\ h[x].leaf = TRUE /\ Adjacent(iv[q], iv[x])
    BY <1>3
  <2> HIDE DEF x
  <2>2. x \in DOMAIN g /\ g[x].leaf = TRUE /\ iv2[x] = iv[x]
    BY <2>1 DEF LeavesStay
  <2>3. g[q].next = x /\ g[q].copies = h[q].copies
    BY <1>1 DEF SameLinks, x
  <2> QED BY <1>1, <2>1, <2>2, <2>3 DEF Follows
<1> QED BY <1>1, <1>2, <1>3 DEF Follows

\* The heap g is h with other data in leaf p, for keys p is responsible for.
Replaced(h, ht, iv, g, p, n) ==
  /\ Tree(g, ht, iv) /\ Kept(h, ht, iv, g, ht, iv, p) /\ KeepsChain(h, iv, g, iv)
  /\ DOMAIN g = DOMAIN h /\ g[p] = n /\ \A q \in DOMAIN h : q # p => g[q] = h[q]
  /\ \A e \in Keys \X Values :
       e \in Entries(g) <=> IF e[1] \in iv[p] THEN Holds(n.data, e) ELSE e \in Entries(h)

LEMMA ReplacesLeaf ==
  ASSUME NEW h, NEW ht, NEW iv, Tree(h, ht, iv), NEW p \in DOMAIN h, h[p].leaf = TRUE,
         NEW n, IsLeaf(n), n.leaf = TRUE, DataFits(n.data, iv[p]), SameLinks(n, h[p])
  PROVE  Replaced(h, ht, iv, [h EXCEPT ![p] = n], p, n)
<1> DEFINE g == [h EXCEPT ![p] = n]
<1>1. IsHeap(h) /\ Ranges(h, ht, iv) /\ Apart(ht, iv)
  BY DEF Tree
<1>2. h = [q \in DOMAIN h |-> h[q]]
  BY <1>1 DEF IsHeap
<1>3. DOMAIN g = DOMAIN h /\ g[p] = n /\ \A q \in DOMAIN h : q # p => g[q] = h[q]
  BY <1>2
<1>4. g = [q \in DOMAIN g |-> g[q]]
  BY <1>2
<1> HIDE DEF g
<1>5. IsHeap(g) /\ Ranges(g, ht, iv)
  BY <1>1, <1>3, <1>4 DEF IsHeap, Ranges
<1>6. LeafFits(h, ht, iv, p)
  BY Kind
<1>7. LeafFits(g, ht, iv, p)
  BY <1>3, <1>6 DEF LeafFits
<1>8. ASSUME NEW q \in DOMAIN g, q # p PROVE LeafFits(g, ht, iv, q) \/ InternalFits(g, ht, iv, q)
  <2>1. g[q] = h[q] /\ q \in DOMAIN h
    BY <1>3, <1>8
  <2>2. CASE LeafFits(h, ht, iv, q)
    BY <2>1, <2>2 DEF LeafFits
  <2>3. CASE InternalFits(h, ht, iv, q)
    <3>1. InternalFits(g, ht, iv, q)
      BY <1>3, <2>1, <2>3 DEF InternalFits
    <3> QED BY <3>1
  <2> QED BY <2>1, <2>2, <2>3 DEF Tree
<1>9. Tree(g, ht, iv)
  BY <1>1, <1>5, <1>7, <1>8 DEF Tree
<1>10. Kept(h, ht, iv, g, ht, iv, p)
  BY <1>3 DEF Kept
<1>11. ASSUME NEW e \in Keys \X Values, e[1] \in iv[p]
       PROVE  e \in Entries(g) <=> Holds(n.data, e)
  BY <1>3, <1>9, <1>11, LeafEntries
<1>12. ASSUME NEW e \in Keys \X Values, e[1] \notin iv[p]
       PROVE  e \in Entries(g) <=> e \in Entries(h)
  <2>1. DataFits(h[p].data, iv[p])
    BY <1>6 DEF LeafFits
  <2>2. \A j \in 1 .. Len(h[p].data) : h[p].data[j] # e
    BY <1>12, <2>1 DEF DataFits
  <2>3. \A j \in 1 .. Len(g[p].data) : g[p].data[j] # e
    BY <1>3, <1>12 DEF DataFits
  <2>4. ASSUME NEW q \in DOMAIN g, g[q].leaf, \E j \in 1 .. Len(g[q].data) : g[q].data[j] = e
        PROVE  e \in Entries(h)
    <3>1. q # p
      BY <2>3, <2>4
    <3>2. q \in DOMAIN h /\ h[q] = g[q]
      BY <1>3, <2>4, <3>1
    <3> QED BY <2>4, <3>2 DEF Entries
  <2>5. ASSUME NEW q \in DOMAIN h, h[q].leaf, \E j \in 1 .. Len(h[q].data) : h[q].data[j] = e
        PROVE  e \in Entries(g)
    <3>1. q # p
      BY <2>2, <2>5
    <3>2. q \in DOMAIN g /\ h[q] = g[q]
      BY <1>3, <2>5, <3>1
    <3> QED BY <2>5, <3>2 DEF Entries
  <2> QED BY <2>4, <2>5 DEF Entries
<1>13. \A e \in Keys \X Values :
         e \in Entries(g) <=> IF e[1] \in iv[p] THEN Holds(n.data, e) ELSE e \in Entries(h)
  BY <1>11, <1>12
<1>15. KeepsChain(h, iv, g, iv)
  <2>1. LeavesStay(h, iv, g, iv)
    BY <1>3 DEF LeavesStay, SameLinks
  <2> QED BY <2>1, StayChained
<1>14. Replaced(h, ht, iv, g, p, n)
  BY <1>3, <1>9, <1>10, <1>13, <1>15 DEF Replaced
<1> QED BY <1>14 DEF g

-----------------------------------------------------------------------------
(* A change on the way back to the root *)

\* Below node p an entry was put in or taken out: E is what is held now, p has a to
\* b keys more, and all nodes lower than p keep within their limits.
Updated(h, ht, iv, g, p, E, a, b) ==
  \E ht2, iv2 :
    /\ Tree(g, ht2, iv2) /\ Kept(h, ht, iv, g, ht2, iv2, p) /\ Entries(g) = E
    /\ KeepsChain(h, iv, g, iv2)
    /\ Count(g, p) \in Count(h, p) + a .. Count(h, p) + b
    /\ \A q \in DOMAIN g : ht2[q] < ht[p] => Fits(Count(g, q)) \/ OnlyChild(g, p, q)

\* All nodes lower than p keep within their limits.
LowFits(h, ht, p) == \A q \in DOMAIN h : ht[q] < ht[p] => Fits(Count(h, q))

\* The step before the one of node p, whose child c may be too large or too small.
Ready(h, ht, iv, m, ht1, iv1, p, c, E, a, b) ==
  /\ Tree(m, ht1, iv1) /\ Kept(h, ht, iv, m, ht1, iv1, c) /\ Entries(m) = E
  /\ KeepsChain(h, iv, m, iv1)
  /\ p \in DOMAIN m /\ m[p] = h[p] /\ ht1[p] = ht[p]
  /\ Count(m, c) \in Count(h, c) + a .. Count(h, c) + b
  /\ \A q \in DOMAIN m : ht1[q] < ht[p] /\ q # c => Fits(Count(m, q))

LEMMA GetsReady ==
  ASSUME NEW h, NEW ht, NEW iv, Tree(h, ht, iv), NEW p \in DOMAIN h, LowFits(h, ht, p),
         NEW c \in DOMAIN h, ht[c] = ht[p] - 1,
         NEW m, NEW E, NEW a, NEW b, Updated(h, ht, iv, m, c, E, a, b), Count(m, c) # 0
  PROVE  \E ht1, iv1 : Ready(h, ht, iv, m, ht1, iv1, p, c, E, a, b)
<1>1. PICK ht1, iv1 :
        /\ Tree(m, ht1, iv1) /\ Kept(h, ht, iv, m, ht1, iv1, c) /\ Entries(m) = E
        /\ KeepsChain(h, iv, m, iv1)
        /\ Count(m, c) \in Count(h, c) + a .. Count(h, c) + b
        /\ \A q \in DOMAIN m : ht1[q] < ht[c] => Fits(Count(m, q)) \/ OnlyChild(m, c, q)
  BY DEF Updated
<1>2. ht[c] \in Nat /\ ht[p] \in Nat
  BY Kind
<1>3. ht[p] >= ht[c] /\ p # c /\ ht[c] < ht[p]
  BY <1>2
<1>4. /\ \A q \in DOMAIN h : ht[q] >= ht[c] =>
           q \in DOMAIN m /\ ht1[q] = ht[q] /\ iv1[q] = iv[q] /\ (q # c => m[q] = h[q])
      /\ \A q \in DOMAIN m : ht1[q] >= ht[c] => q \in DOMAIN h /\ ht1[q] = ht[q]
  BY <1>1 DEF Kept
<1>5. p \in DOMAIN m /\ m[p] = h[p] /\ ht1[p] = ht[p]
  BY <1>3, <1>4
<1>6. ASSUME NEW q \in DOMAIN m, ht1[q] < ht[p], q # c PROVE Fits(Count(m, q))
  <2>1. ht1[q] \in Nat
    BY <1>1, Kind
  <2>2. CASE ht1[q] < ht[c]
    BY <1>1, <2>2 DEF OnlyChild
  <2>3. CASE ht1[q] >= ht[c]
    <3>1. q \in DOMAIN h /\ ht1[q] = ht[q]
      BY <1>4, <2>3
    <3>2. m[q] = h[q]
      BY <1>4, <1>6, <2>3, <3>1
    <3>3. Fits(Count(h, q))
      BY <1>6, <3>1 DEF LowFits
    <3> QED BY <3>2, <3>3 DEF Count
  <2> QED BY <1>2, <2>1, <2>2, <2>3
<1> QED BY <1>1, <1>5, <1>6 DEF Ready

\* The children of p are put right.
Passed(m, ht1, iv1, g, p, c, a, b) ==
  /\ Rearranged(m, ht1, iv1, g, p)
  /\ Count(g, p) \in Count(m, p) + a .. Count(m, p) + b
  /\ \A q \in DOMAIN g :
       \/ q = p \/ Fits(Count(g, q)) \/ OnlyChild(g, p, q)
       \/ q \in DOMAIN m /\ g[q] = m[q] /\ q # c

LEMMA Climbs ==
  ASSUME NEW h, NEW ht, NEW iv, Tree(h, ht, iv), NEW p \in DOMAIN h,
         NEW c \in DOMAIN h, ht[c] = ht[p] - 1,
         NEW m, NEW ht1, NEW iv1, NEW E, NEW a, NEW b,
         Ready(h, ht, iv, m, ht1, iv1, p, c, E, a, b),
         NEW g, Passed(m, ht1, iv1, g, p, c, a, b)
  PROVE  Updated(h, ht, iv, g, p, E, a, b)
<1>1. PICK ht2, iv2 :
        /\ Tree(g, ht2, iv2) /\ Kept(m, ht1, iv1, g, ht2, iv2, p) /\ Entries(g) = Entries(m)
        /\ KeepsChain(m, iv1, g, iv2)
  BY DEF Passed, Rearranged
<1>2. /\ Tree(m, ht1, iv1) /\ Kept(h, ht, iv, m, ht1, iv1, c) /\ Entries(m) = E
      /\ KeepsChain(h, iv, m, iv1)
      /\ p \in DOMAIN m /\ m[p] = h[p] /\ ht1[p] = ht[p]
      /\ \A q \in DOMAIN m : ht1[q] < ht[p] /\ q # c => Fits(Count(m, q))
  BY DEF Ready
<1>3. ht \in [DOMAIN h -> Nat] /\ ht1 \in [DOMAIN m -> Nat] /\ ht2 \in [DOMAIN g -> Nat]
  BY <1>1, <1>2 DEF Tree, Ranges
<1>4. ht[c] < ht[p]
  BY <1>3
<1>5. Kept(h, ht, iv, g, ht2, iv2, p)
  BY <1>1, <1>2, <1>3, <1>4, KeptBelow
<1>6. Entries(g) = E
  BY <1>1, <1>2
<1>7. Count(g, p) \in Count(h, p) + a .. Count(h, p) + b
  <2>1. Count(m, p) = Count(h, p)
    BY <1>2 DEF Count
  <2> QED BY <2>1 DEF Passed
<1>8. ASSUME NEW q \in DOMAIN g, ht2[q] < ht[p] PROVE Fits(Count(g, q)) \/ OnlyChild(g, p, q)
  <2>1. q # p
    <3>1. ht2[p] = ht1[p]
      BY <1>1, <1>2, <1>3 DEF Kept
    <3> QED BY <1>2, <1>3, <1>8, <3>1
  <2>2. CASE q \in DOMAIN m /\ g[q] = m[q] /\ q # c
    <3>1. ~(ht1[q] >= ht1[p])
      <4> SUFFICES ASSUME ht1[q] >= ht1[p] PROVE FALSE
        OBVIOUS
      <4>1. ht2[q] = ht1[q]
        BY <1>1, <2>2 DEF Kept
      <4> QED BY <1>2, <1>3, <1>8, <2>2, <4>1
    <3>2. ht1[q] < ht[p]
      BY <1>2, <1>3, <2>2, <3>1
    <3>3. Fits(Count(m, q))
      BY <1>2, <2>2, <3>2
    <3> QED BY <2>2, <3>3 DEF Count
  <2> QED BY <2>1, <2>2 DEF Passed
<1>9. KeepsChain(h, iv, g, iv2)
  BY <1>1, <1>2 DEF KeepsChain
<1> QED BY <1>1, <1>5, <1>6, <1>7, <1>8, <1>9 DEF Updated

-----------------------------------------------------------------------------
(* A key put in below a node *)

PutHere(h, k, v, p) == [h EXCEPT ![p] = WithData(@, InsertAt(@.data, KeyIndex(@, k), <<k, v>>))]

InsertStep(h, k, v, f, p) ==
  IF h[p].leaf THEN PutHere(h, k, v, p)
  ELSE Relieve(f[h[p].kids[UpperIndex(h[p], k)]], p, UpperIndex(h[p], k))

InsertTo(h, ht, k, v, n, f) ==
  f = [p \in {q \in DOMAIN h : ht[q] <= n} |-> InsertStep(h, k, v, f, p)]

LEMMA InsertEquation ==
  ASSUME NEW h, NEW ht, NEW iv, Tree(h, ht, iv), NEW k \in Int, NEW v,
         NEW N \in Nat, \A q \in DOMAIN h : ht[q] <= N
  PROVE  \A p \in DOMAIN h : InsertInto(h, k, v)[p] = InsertStep(h, k, v, InsertInto(h, k, v), p)
<1> DEFINE D(n) == {p \in DOMAIN h : ht[p] <= n}
           S == {n \in Nat : \E f : InsertTo(h, ht, k, v, n, f)}
           next(p) == h[p].kids[UpperIndex(h[p], k)]
<1>1. \A p \in DOMAIN h : ht[p] \in Nat
  BY Kind
<1>2. \A p \in DOMAIN h : h[p].leaf = FALSE => next(p) \in DOMAIN h /\ ht[next(p)] = ht[p] - 1
  <2> TAKE p \in DOMAIN h
  <2> SUFFICES ASSUME h[p].leaf = FALSE PROVE next(p) \in DOMAIN h /\ ht[next(p)] = ht[p] - 1
    OBVIOUS
  <2> DEFINE u == UpperIndex(h[p], k)
  <2> HIDE DEF u
  <2>1. Way(h, ht, iv, p, k, u)
    BY Descends DEF u
  <2> QED BY <2>1 DEF u, Way
<1>3. \A p \in DOMAIN h : \/ h[p].leaf = TRUE
                          \/ h[p].leaf = FALSE /\ ht[p] > 0
  BY NodeKind
<1> HIDE DEF next
<1>4. 0 \in S
  <2> DEFINE f == [p \in D(0) |-> PutHere(h, k, v, p)]
  <2>1. \A p \in D(0) : h[p].leaf = TRUE
    BY <1>1, <1>3
  <2>2. \A p \in D(0) : InsertStep(h, k, v, f, p) = PutHere(h, k, v, p)
    BY <2>1 DEF InsertStep
  <2>3. InsertTo(h, ht, k, v, 0, f)
    BY <2>2 DEF InsertTo
  <2> QED BY <2>3
<1>5. ASSUME NEW n \in Nat, n \in S PROVE n + 1 \in S
  <2>1. PICK f : InsertTo(h, ht, k, v, n, f)
    BY <1>5
  <2> DEFINE g == [p \in D(n + 1) |-> InsertStep(h, k, v, f, p)]
  <2>2. \A p \in D(n) : p \in D(n + 1)
    BY <1>1
  <2>3. DOMAIN g = D(n + 1) /\ \A p \in D(n + 1) : g[p] = InsertStep(h, k, v, f, p)
    OBVIOUS
  <2>4. \A p \in D(n) : f[p] = InsertStep(h, k, v, f, p)
    BY <2>1 DEF InsertTo
  <2>5. g = [p \in D(n + 1) |-> g[p]]
    OBVIOUS
  <2> HIDE DEF g
  <2>6. ASSUME NEW p \in D(n + 1) PROVE InsertStep(h, k, v, g, p) = InsertStep(h, k, v, f, p)
    <3>1. CASE h[p].leaf = TRUE
      BY <3>1 DEF InsertStep
    <3>2. CASE h[p].leaf = FALSE
      <4>1. next(p) \in D(n)
        BY <1>1, <1>2, <3>2
      <4>2. g[next(p)] = f[next(p)]
        BY <2>2, <2>3, <2>4, <4>1
      <4> QED BY <3>2, <4>2 DEF InsertStep, next
    <3> QED BY <1>3, <3>1, <3>2
  <2>7. \A p \in D(n + 1) : g[p] = InsertStep(h, k, v, g, p)
    BY <2>3, <2>6
  <2>8. InsertTo(h, ht, k, v, n + 1, g)
    BY <2>5, <2>7 DEF InsertTo
  <2> QED BY <2>8
<1>6. N \in S
  <2> HIDE DEF S
  <2>1. Nat \subseteq S
    BY <1>4, <1>5, Induction
  <2> QED BY <2>1
<1>7. PICK f : InsertTo(h, ht, k, v, N, f)
  BY <1>6
<1>8. D(N) = DOMAIN h
  OBVIOUS
<1>9. \E f2 : f2 = [p \in DOMAIN h |->
                     IF h[p].leaf
                     THEN [h EXCEPT ![p] = WithData(@, InsertAt(@.data, KeyIndex(@, k), <<k, v>>))]
                     ELSE LET i == UpperIndex(h[p], k) IN Relieve(f2[h[p].kids[i]], p, i)]
  BY <1>7, <1>8 DEF InsertStep, InsertTo, PutHere
<1>10. InsertInto(h, k, v) = [p \in DOMAIN h |->
                     IF h[p].leaf
                     THEN [h EXCEPT ![p] = WithData(@, InsertAt(@.data, KeyIndex(@, k), <<k, v>>))]
                     ELSE LET i == UpperIndex(h[p], k) IN Relieve(InsertInto(h, k, v)[h[p].kids[i]], p, i)]
  BY <1>9 DEF InsertInto
<1> QED BY <1>10 DEF InsertStep, PutHere

LEMMA LeafUpdates ==
  ASSUME NEW h, NEW ht, NEW iv, Tree(h, ht, iv), NEW p \in DOMAIN h, h[p].leaf = TRUE,
         NEW g, NEW n, Replaced(h, ht, iv, g, p, n), NEW a, NEW b,
         Size(n) \in Count(h, p) + a .. Count(h, p) + b,
         NEW E, E \subseteq Keys \X Values,
         \A e \in Keys \X Values : e \in Entries(g) <=> e \in E
  PROVE  Updated(h, ht, iv, g, p, E, a, b)
<1>1. Entries(g) = E
  <2>1. Entries(g) \subseteq Keys \X Values
    BY DEF Entries
  <2> QED BY <2>1
<1>2. Count(g, p) \in Count(h, p) + a .. Count(h, p) + b
  <2>1. Count(g, p) = Size(n)
    BY DEF Count, Replaced
  <2> QED BY <2>1
<1>3. \A q \in DOMAIN g : ~(ht[q] < ht[p])
  <2>1. \A q \in DOMAIN h : ht[q] \in Nat
    BY Kind
  <2>2. DOMAIN g = DOMAIN h /\ ht[p] = 0
    BY Kind DEF Replaced
  <2> QED BY <2>1, <2>2
<1>4. Tree(g, ht, iv) /\ Kept(h, ht, iv, g, ht, iv, p) /\ KeepsChain(h, iv, g, iv)
  BY DEF Replaced
<1> QED BY <1>1, <1>2, <1>3, <1>4 DEF Updated

\* No entry has key k.
Absent(E, k) == \A e \in E : e[1] # k

WithEntry(E, k, v) == E \cup {<<k, v>>}

LEMMA PutUpdates ==
  ASSUME NEW h, NEW ht, NEW iv, Tree(h, ht, iv), NEW p \in DOMAIN h, h[p].leaf = TRUE,
         NEW k \in Keys, k \in iv[p], NEW v \in Values, Absent(Entries(h), k)
  PROVE  Updated(h, ht, iv, PutHere(h, k, v, p), p, WithEntry(Entries(h), k, v), 0, 1)
<1> DEFINE node == h[p]
           n == WithData(node, InsertAt(node.data, KeyIndex(node, k), <<k, v>>))
           g == PutHere(h, k, v, p)
           I == iv[p]
           E == WithEntry(Entries(h), k, v)
<1>1. LeafFits(h, ht, iv, p) /\ I \subseteq Int /\ ht[p] = 0
  BY Kind DEF LeafFits
<1>2. IsLeaf(node) /\ DataFits(node.data, I) /\ node.leaf = TRUE
  BY <1>1 DEF LeafFits
<1>3. \A e \in Keys \X Values : e[1] \in I => (e \in Entries(h) <=> Holds(node.data, e))
  BY LeafEntries
<1>4. ASSUME NEW j \in 1 .. Len(node.data) PROVE node.data[j][1] # k
  <2>1. node.data[j] \in Keys \X Values
    BY <1>2, Elements DEF IsLeaf
  <2>2. Holds(node.data, node.data[j]) /\ node.data[j][1] \in I
    BY <1>2 DEF Holds, DataFits
  <2>3. node.data[j] \in Entries(h)
    BY <1>3, <2>1, <2>2
  <2> QED BY <2>3 DEF Absent
<1>5. g = [h EXCEPT ![p] = n]
  BY DEF PutHere
<1> HIDE DEF node, I
<1>6. EntryPut(node, n, I, k, v)
  BY <1>1, <1>2, <1>4, PutsEntry DEF I
<1>12. SameLinks(n, node)
  BY WithDataLinks
<1> HIDE DEF n, g
<1>7. Replaced(h, ht, iv, g, p, n)
  BY <1>2, <1>5, <1>6, <1>12, ReplacesLeaf DEF EntryPut, node, I
<1>8. ASSUME NEW e \in Keys \X Values PROVE e \in Entries(g) <=> e \in E
  <2>1. CASE e[1] \in I
    <3>1. e \in Entries(g) <=> Holds(n.data, e)
      BY <1>7, <2>1 DEF Replaced, I
    <3>2. Holds(n.data, e) <=> (e = <<k, v>> \/ Holds(node.data, e))
      BY <1>6 DEF EntryPut
    <3> QED BY <1>3, <2>1, <3>1, <3>2 DEF WithEntry
  <2>2. CASE e[1] \notin I
    <3>1. e \in Entries(g) <=> e \in Entries(h)
      BY <1>7, <2>2 DEF Replaced, I
    <3>2. e # <<k, v>>
      BY <2>2 DEF I
    <3> QED BY <3>1, <3>2 DEF WithEntry
  <2> QED BY <2>1, <2>2
<1>9. E \subseteq Keys \X Values
  BY DEF Entries, WithEntry
<1>10. Size(n) \in Count(h, p) + 0 .. Count(h, p) + 1
  <2>1. Count(h, p) = Size(node) /\ Size(n) = Size(node) + 1
    BY <1>6 DEF Count, EntryPut, node
  <2>2. Count(h, p) \in Nat
    BY Counts
  <2> QED BY <2>1, <2>2
<1> HIDE DEF E
<1>11. Updated(h, ht, iv, g, p, E, 0, 1)
  BY <1>7, <1>8, <1>9, <1>10, LeafUpdates
<1> QED BY <1>11 DEF E, g

\* insert_bottom_up does its work at every node that is responsible for the key.
InsertsAt(h, ht, iv, k, v, p) ==
  k \in iv[p] /\ LowFits(h, ht, p) =>
    Updated(h, ht, iv, InsertInto(h, k, v)[p], p, WithEntry(Entries(h), k, v), 0, 1)

LEMMA InsertClimbs ==
  ASSUME NEW h, NEW ht, NEW iv, Tree(h, ht, iv), NEW p \in DOMAIN h, h[p].leaf = FALSE,
         NEW k \in Int, k \in iv[p], LowFits(h, ht, p), NEW E,
         NEW u, u = UpperIndex(h[p], k), NEW m, Updated(h, ht, iv, m, h[p].kids[u], E, 0, 1)
  PROVE  Updated(h, ht, iv, Relieve(m, p, u), p, E, 0, 1)
<1> DEFINE c == h[p].kids[u]
           g == Relieve(m, p, u)
<1>1. Way(h, ht, iv, p, k, u)
  BY Descends
<1>2. u \in 1 .. Len(h[p].kids) /\ c \in DOMAIN h /\ c # p /\ ht[c] = ht[p] - 1
  BY <1>1 DEF Way
<1>3. ht[p] \in Nat /\ ht[c] \in Nat
  BY <1>2, Kind
<1>4. Fits(Count(h, c))
  <2>1. ht[c] < ht[p]
    BY <1>2, <1>3
  <2> QED BY <1>2, <2>1 DEF LowFits
<1> HIDE DEF c, g
<1>5. Updated(h, ht, iv, m, c, E, 0, 1)
  BY DEF c
<1>6. Count(m, c) \in LeastKeys .. MaxKeys + 1
  <2>1. Count(m, c) \in Count(h, c) + 0 .. Count(h, c) + 1
    BY <1>5 DEF Updated
  <2>2. Count(h, c) \in LeastKeys .. MaxKeys
    BY <1>4 DEF Fits
  <2>3. LeastKeys \in Nat /\ MaxKeys \in Nat
    BY Limits
  <2> QED BY <2>1, <2>2, <2>3
<1>7. Count(m, c) # 0
  BY <1>6, Limits
<1>8. PICK ht1, iv1 : Ready(h, ht, iv, m, ht1, iv1, p, c, E, 0, 1)
  BY <1>2, <1>5, <1>7, GetsReady
<1>9. /\ Tree(m, ht1, iv1)
      /\ p \in DOMAIN m /\ m[p] = h[p] /\ ht1[p] = ht[p]
      /\ \A q \in DOMAIN m : ht1[q] < ht[p] /\ q # c => Fits(Count(m, q))
  BY <1>8 DEF Ready
<1>10. m[p].leaf = FALSE /\ u \in 1 .. Len(m[p].kids) /\ c = m[p].kids[u]
  BY <1>2, <1>9 DEF c
<1>11. InternalFits(m, ht1, iv1, p)
  BY <1>9, <1>10, Kind
<1>12. Children(m, ht1, iv1, p)
  BY <1>9, <1>11, Family
<1>13. ASSUME NEW j \in 1 .. Len(m[p].kids), j # u PROVE Fits(Count(m, m[p].kids[j]))
  <2>1. m[p].kids[j] \in DOMAIN m /\ ht1[m[p].kids[j]] = ht1[p] - 1
    BY <1>12 DEF Children
  <2>2. m[p].kids[j] # c
    <3> SUFFICES ASSUME m[p].kids[j] = m[p].kids[u] PROVE FALSE
      BY <1>10
    <3> QED BY <1>9, <1>10, <1>11, <1>13, OneParent
  <2>3. ht1[m[p].kids[j]] < ht[p]
    BY <1>3, <1>9, <2>1
  <2> QED BY <1>9, <2>1, <2>2, <2>3
<1>14. Relieved(m, ht1, iv1, g, p, c)
  <2>1. Count(m, m[p].kids[u]) \in LeastKeys .. MaxKeys + 1
    BY <1>6, <1>10
  <2>2. Relieved(m, ht1, iv1, Relieve(m, p, u), p, m[p].kids[u])
    BY <1>9, <1>10, <1>13, <2>1, Relieves
  <2> QED BY <1>10, <2>2 DEF g
<1>15. Passed(m, ht1, iv1, g, p, c, 0, 1)
  <2>1. Count(m, p) \in Nat
    BY <1>9, Counts
  <2>2. Count(g, p) \in Count(m, p) + 0 .. Count(m, p) + 1
    BY <1>14, <2>1 DEF Relieved
  <2> QED BY <1>14, <2>2 DEF Relieved, Passed
<1>16. Updated(h, ht, iv, g, p, E, 0, 1)
  BY <1>2, <1>8, <1>15, Climbs
<1> QED BY <1>16 DEF g

LEMMA Inserts ==
  ASSUME NEW h, NEW ht, NEW iv, Tree(h, ht, iv), NEW k \in Keys, NEW v \in Values,
         Absent(Entries(h), k), NEW N \in Nat, \A q \in DOMAIN h : ht[q] <= N
  PROVE  \A p \in DOMAIN h : InsertsAt(h, ht, iv, k, v, p)
<1> DEFINE S == {n \in Nat : \A p \in DOMAIN h : ht[p] = n => InsertsAt(h, ht, iv, k, v, p)}
           F == InsertInto(h, k, v)
           E == WithEntry(Entries(h), k, v)
<1>1. k \in Int
  BY TreeAssumption
<1>2. \A p \in DOMAIN h : F[p] = InsertStep(h, k, v, F, p)
  BY <1>1, InsertEquation
<1>3. \A p \in DOMAIN h : ht[p] \in Nat
  BY Kind
<1> HIDE DEF F, E
<1>4. \A p \in DOMAIN h : h[p].leaf = TRUE => InsertsAt(h, ht, iv, k, v, p)
  <2> TAKE p \in DOMAIN h
  <2> SUFFICES ASSUME h[p].leaf = TRUE, k \in iv[p]
               PROVE  Updated(h, ht, iv, F[p], p, E, 0, 1)
    BY DEF InsertsAt, F, E
  <2>1. F[p] = PutHere(h, k, v, p)
    BY <1>2 DEF InsertStep
  <2>2. Updated(h, ht, iv, PutHere(h, k, v, p), p, E, 0, 1)
    BY PutUpdates DEF E
  <2> QED BY <2>1, <2>2
<1>5. \A p \in DOMAIN h : \/ h[p].leaf = TRUE
                          \/ h[p].leaf = FALSE /\ ht[p] > 0
  BY NodeKind
<1>6. 0 \in S
  BY <1>4, <1>5
<1>7. ASSUME NEW n \in Nat, n \in S PROVE n + 1 \in S
  <2> SUFFICES \A p \in DOMAIN h : ht[p] = n + 1 => InsertsAt(h, ht, iv, k, v, p)
    OBVIOUS
  <2> TAKE p \in DOMAIN h
  <2> SUFFICES ASSUME ht[p] = n + 1, h[p].leaf = FALSE PROVE InsertsAt(h, ht, iv, k, v, p)
    BY <1>4, <1>5
  <2> SUFFICES ASSUME k \in iv[p], LowFits(h, ht, p)
               PROVE  Updated(h, ht, iv, F[p], p, E, 0, 1)
    BY DEF InsertsAt, F, E
  <2> DEFINE u == UpperIndex(h[p], k)
             c == h[p].kids[u]
  <2>1. Way(h, ht, iv, p, k, u)
    BY <1>1, Descends
  <2>2. c \in DOMAIN h /\ ht[c] = ht[p] - 1 /\ k \in iv[c]
    BY <2>1 DEF Way
  <2> HIDE DEF u, c
  <2>3. ht[c] = n
    BY <2>2
  <2>4. LowFits(h, ht, c)
    <3>1. \A q \in DOMAIN h : ht[q] < ht[c] => ht[q] < ht[p]
      BY <1>3, <2>2
    <3> QED BY <3>1 DEF LowFits
  <2>5. Updated(h, ht, iv, F[c], c, E, 0, 1)
    BY <1>7, <2>2, <2>3, <2>4 DEF InsertsAt, F, E
  <2>6. F[p] = Relieve(F[c], p, u)
    BY <1>2 DEF InsertStep, u, c
  <2>7. Updated(h, ht, iv, Relieve(F[c], p, u), p, E, 0, 1)
    BY <1>1, <2>5, InsertClimbs DEF u, c
  <2> QED BY <2>6, <2>7
<1> HIDE DEF S
<1>8. Nat \subseteq S
  BY <1>6, <1>7, Induction
<1> QED BY <1>3, <1>8 DEF S

-----------------------------------------------------------------------------
(* A key taken out below a node *)

TakeHere(h, k, p) == [h EXCEPT ![p] = WithData(@, RemoveAt(@.data, KeyIndex(@, k)))]

EraseStep(h, k, f, p) ==
  IF h[p].leaf THEN TakeHere(h, k, p)
  ELSE Refill(f[h[p].kids[UpperIndex(h[p], k)]], p, UpperIndex(h[p], k))

EraseTo(h, ht, k, n, f) ==
  f = [p \in {q \in DOMAIN h : ht[q] <= n} |-> EraseStep(h, k, f, p)]

LEMMA EraseEquation ==
  ASSUME NEW h, NEW ht, NEW iv, Tree(h, ht, iv), NEW k \in Int,
         NEW N \in Nat, \A q \in DOMAIN h : ht[q] <= N
  PROVE  \A p \in DOMAIN h : EraseFrom(h, k)[p] = EraseStep(h, k, EraseFrom(h, k), p)
<1> DEFINE D(n) == {p \in DOMAIN h : ht[p] <= n}
           S == {n \in Nat : \E f : EraseTo(h, ht, k, n, f)}
           next(p) == h[p].kids[UpperIndex(h[p], k)]
<1>1. \A p \in DOMAIN h : ht[p] \in Nat
  BY Kind
<1>2. \A p \in DOMAIN h : h[p].leaf = FALSE => next(p) \in DOMAIN h /\ ht[next(p)] = ht[p] - 1
  <2> TAKE p \in DOMAIN h
  <2> SUFFICES ASSUME h[p].leaf = FALSE PROVE next(p) \in DOMAIN h /\ ht[next(p)] = ht[p] - 1
    OBVIOUS
  <2> DEFINE u == UpperIndex(h[p], k)
  <2> HIDE DEF u
  <2>1. Way(h, ht, iv, p, k, u)
    BY Descends DEF u
  <2> QED BY <2>1 DEF u, Way
<1>3. \A p \in DOMAIN h : \/ h[p].leaf = TRUE
                          \/ h[p].leaf = FALSE /\ ht[p] > 0
  BY NodeKind
<1> HIDE DEF next
<1>4. 0 \in S
  <2> DEFINE f == [p \in D(0) |-> TakeHere(h, k, p)]
  <2>1. \A p \in D(0) : h[p].leaf = TRUE
    BY <1>1, <1>3
  <2>2. \A p \in D(0) : EraseStep(h, k, f, p) = TakeHere(h, k, p)
    BY <2>1 DEF EraseStep
  <2>3. EraseTo(h, ht, k, 0, f)
    BY <2>2 DEF EraseTo
  <2> QED BY <2>3
<1>5. ASSUME NEW n \in Nat, n \in S PROVE n + 1 \in S
  <2>1. PICK f : EraseTo(h, ht, k, n, f)
    BY <1>5
  <2> DEFINE g == [p \in D(n + 1) |-> EraseStep(h, k, f, p)]
  <2>2. \A p \in D(n) : p \in D(n + 1)
    BY <1>1
  <2>3. DOMAIN g = D(n + 1) /\ \A p \in D(n + 1) : g[p] = EraseStep(h, k, f, p)
    OBVIOUS
  <2>4. \A p \in D(n) : f[p] = EraseStep(h, k, f, p)
    BY <2>1 DEF EraseTo
  <2>5. g = [p \in D(n + 1) |-> g[p]]
    OBVIOUS
  <2> HIDE DEF g
  <2>6. ASSUME NEW p \in D(n + 1) PROVE EraseStep(h, k, g, p) = EraseStep(h, k, f, p)
    <3>1. CASE h[p].leaf = TRUE
      BY <3>1 DEF EraseStep
    <3>2. CASE h[p].leaf = FALSE
      <4>1. next(p) \in D(n)
        BY <1>1, <1>2, <3>2
      <4>2. g[next(p)] = f[next(p)]
        BY <2>2, <2>3, <2>4, <4>1
      <4> QED BY <3>2, <4>2 DEF EraseStep, next
    <3> QED BY <1>3, <3>1, <3>2
  <2>7. \A p \in D(n + 1) : g[p] = EraseStep(h, k, g, p)
    BY <2>3, <2>6
  <2>8. EraseTo(h, ht, k, n + 1, g)
    BY <2>5, <2>7 DEF EraseTo
  <2> QED BY <2>8
<1>6. N \in S
  <2> HIDE DEF S
  <2>1. Nat \subseteq S
    BY <1>4, <1>5, Induction
  <2> QED BY <2>1
<1>7. PICK f : EraseTo(h, ht, k, N, f)
  BY <1>6
<1>8. D(N) = DOMAIN h
  OBVIOUS
<1>9. \E f2 : f2 = [p \in DOMAIN h |->
                     IF h[p].leaf
                     THEN [h EXCEPT ![p] = WithData(@, RemoveAt(@.data, KeyIndex(@, k)))]
                     ELSE LET i == UpperIndex(h[p], k) IN Refill(f2[h[p].kids[i]], p, i)]
  BY <1>7, <1>8 DEF EraseStep, EraseTo, TakeHere
<1>10. EraseFrom(h, k) = [p \in DOMAIN h |->
                     IF h[p].leaf
                     THEN [h EXCEPT ![p] = WithData(@, RemoveAt(@.data, KeyIndex(@, k)))]
                     ELSE LET i == UpperIndex(h[p], k) IN Refill(EraseFrom(h, k)[h[p].kids[i]], p, i)]
  BY <1>9 DEF EraseFrom
<1> QED BY <1>10 DEF EraseStep, TakeHere

WithoutKey(E, k) == {e \in E : e[1] # k}

LEMMA TakeUpdates ==
  ASSUME NEW h, NEW ht, NEW iv, Tree(h, ht, iv), NEW p \in DOMAIN h, h[p].leaf = TRUE,
         NEW k \in Int, k \in iv[p], ~Absent(Entries(h), k)
  PROVE  Updated(h, ht, iv, TakeHere(h, k, p), p, WithoutKey(Entries(h), k), -1, 0)
<1> DEFINE node == h[p]
           n == WithData(node, RemoveAt(node.data, KeyIndex(node, k)))
           g == TakeHere(h, k, p)
           I == iv[p]
           E == WithoutKey(Entries(h), k)
<1>1. LeafFits(h, ht, iv, p) /\ I \subseteq Int
  BY Kind
<1>2. IsLeaf(node) /\ DataFits(node.data, I) /\ node.leaf = TRUE
  BY <1>1 DEF LeafFits
<1>3. \A e \in Keys \X Values : e[1] \in I => (e \in Entries(h) <=> Holds(node.data, e))
  BY LeafEntries
<1>4. PICK e0 \in Entries(h) : e0[1] = k
  BY DEF Absent
<1>5. g = [h EXCEPT ![p] = n]
  BY DEF TakeHere
<1>6. Holds(node.data, e0)
  <2>1. e0 \in Keys \X Values
    BY DEF Entries
  <2> QED BY <1>3, <1>4, <2>1
<1> HIDE DEF node, I
<1>7. EntryTaken(node, n, I, k)
  BY <1>1, <1>2, <1>4, <1>6, TakesEntry DEF I
<1>13. SameLinks(n, node)
  BY WithDataLinks
<1> HIDE DEF n, g
<1>8. Replaced(h, ht, iv, g, p, n)
  BY <1>2, <1>5, <1>7, <1>13, ReplacesLeaf DEF EntryTaken, node, I
<1>9. ASSUME NEW e \in Keys \X Values PROVE e \in Entries(g) <=> e \in E
  <2>1. CASE e[1] \in I
    <3>1. e \in Entries(g) <=> Holds(n.data, e)
      BY <1>8, <2>1 DEF Replaced, I
    <3>2. Holds(n.data, e) <=> (Holds(node.data, e) /\ e[1] # k)
      BY <1>7 DEF EntryTaken
    <3> QED BY <1>3, <2>1, <3>1, <3>2 DEF WithoutKey
  <2>2. CASE e[1] \notin I
    <3>1. e \in Entries(g) <=> e \in Entries(h)
      BY <1>8, <2>2 DEF Replaced, I
    <3>2. e[1] # k
      BY <2>2 DEF I
    <3> QED BY <3>1, <3>2 DEF WithoutKey
  <2> QED BY <2>1, <2>2
<1>10. E \subseteq Keys \X Values
  BY DEF Entries, WithoutKey
<1>11. Size(n) \in Count(h, p) + -1 .. Count(h, p) + 0
  <2>1. Count(h, p) = Size(node) /\ Size(n) = Size(node) - 1
    BY <1>7 DEF Count, EntryTaken, node
  <2>2. Count(h, p) \in Nat
    BY Counts
  <2> QED BY <2>1, <2>2
<1> HIDE DEF E
<1>12. Updated(h, ht, iv, g, p, E, -1, 0)
  BY <1>8, <1>9, <1>10, <1>11, LeafUpdates
<1> QED BY <1>12 DEF E, g

\* try_erase_from_node does its work at every node that is responsible for the key.
ErasesAt(h, ht, iv, k, p) ==
  k \in iv[p] /\ LowFits(h, ht, p) /\ Count(h, p) >= 1 =>
    Updated(h, ht, iv, EraseFrom(h, k)[p], p, WithoutKey(Entries(h), k), -1, 0)

LEMMA EraseClimbs ==
  ASSUME NEW h, NEW ht, NEW iv, Tree(h, ht, iv), NEW p \in DOMAIN h, h[p].leaf = FALSE,
         NEW k \in Int, k \in iv[p], LowFits(h, ht, p), NEW E,
         Order >= 3, Count(h, p) >= 1,
         NEW u, u = UpperIndex(h[p], k), NEW m, Updated(h, ht, iv, m, h[p].kids[u], E, -1, 0)
  PROVE  Updated(h, ht, iv, Refill(m, p, u), p, E, -1, 0)
<1> DEFINE c == h[p].kids[u]
           g == Refill(m, p, u)
<1>1. Way(h, ht, iv, p, k, u)
  BY Descends
<1>2. u \in 1 .. Len(h[p].kids) /\ c \in DOMAIN h /\ c # p /\ ht[c] = ht[p] - 1
  BY <1>1 DEF Way
<1>3. ht[p] \in Nat /\ ht[c] \in Nat
  BY <1>2, Kind
<1>4. Fits(Count(h, c))
  <2>1. ht[c] < ht[p]
    BY <1>2, <1>3
  <2> QED BY <1>2, <2>1 DEF LowFits
<1> HIDE DEF c, g
<1>5. Updated(h, ht, iv, m, c, E, -1, 0)
  BY DEF c
<1>6. Count(m, c) \in LeastKeys - 1 .. MaxKeys
  <2>1. Count(m, c) \in Count(h, c) + -1 .. Count(h, c) + 0
    BY <1>5 DEF Updated
  <2>2. Count(h, c) \in LeastKeys .. MaxKeys
    BY <1>4 DEF Fits
  <2>3. LeastKeys \in Nat /\ MaxKeys \in Nat
    BY Limits
  <2> QED BY <2>1, <2>2, <2>3
<1>7. Count(m, c) # 0
  <2>1. LeastKeys \in Nat /\ LeastKeys >= 4
    BY TreeAssumption DEF LeastKeys
  <2> QED BY <1>6, <2>1
<1>8. PICK ht1, iv1 : Ready(h, ht, iv, m, ht1, iv1, p, c, E, -1, 0)
  BY <1>2, <1>5, <1>7, GetsReady
<1>9. /\ Tree(m, ht1, iv1)
      /\ p \in DOMAIN m /\ m[p] = h[p] /\ ht1[p] = ht[p]
      /\ \A q \in DOMAIN m : ht1[q] < ht[p] /\ q # c => Fits(Count(m, q))
  BY <1>8 DEF Ready
<1>10. m[p].leaf = FALSE /\ u \in 1 .. Len(m[p].kids) /\ c = m[p].kids[u]
  BY <1>2, <1>9 DEF c
<1>11. InternalFits(m, ht1, iv1, p)
  BY <1>9, <1>10, Kind
<1>12. Children(m, ht1, iv1, p)
  BY <1>9, <1>11, Family
<1>13. ASSUME NEW j \in 1 .. Len(m[p].kids), j # u PROVE Fits(Count(m, m[p].kids[j]))
  <2>1. m[p].kids[j] \in DOMAIN m /\ ht1[m[p].kids[j]] = ht1[p] - 1
    BY <1>12 DEF Children
  <2>2. m[p].kids[j] # c
    <3> SUFFICES ASSUME m[p].kids[j] = m[p].kids[u] PROVE FALSE
      BY <1>10
    <3> QED BY <1>9, <1>10, <1>11, <1>13, OneParent
  <2>3. ht1[m[p].kids[j]] < ht[p]
    BY <1>3, <1>9, <2>1
  <2> QED BY <1>9, <2>1, <2>2, <2>3
<1>14. Refilled(m, ht1, iv1, g, p, c)
  <2>1. Count(m, m[p].kids[u]) \in LeastKeys - 1 .. MaxKeys
    BY <1>6, <1>10
  <2>3. Count(m, p) >= 1
    BY <1>9 DEF Count
  <2>2. Refilled(m, ht1, iv1, Refill(m, p, u), p, m[p].kids[u])
    BY <1>9, <1>10, <1>13, <2>1, <2>3, Refills
  <2> QED BY <1>10, <2>2 DEF g
<1>15. Passed(m, ht1, iv1, g, p, c, -1, 0)
  <2>1. Count(m, p) \in Nat
    BY <1>9, Counts
  <2>2. Count(g, p) \in Count(m, p) + -1 .. Count(m, p) + 0
    BY <1>14, <2>1 DEF Refilled
  <2> QED BY <1>14, <2>2 DEF Refilled, Passed
<1>16. Updated(h, ht, iv, g, p, E, -1, 0)
  BY <1>2, <1>8, <1>15, Climbs
<1> QED BY <1>16 DEF g

LEMMA Erases ==
  ASSUME NEW h, NEW ht, NEW iv, Tree(h, ht, iv), NEW k \in Int, ~Absent(Entries(h), k),
         Order >= 3, NEW N \in Nat, \A q \in DOMAIN h : ht[q] <= N
  PROVE  \A p \in DOMAIN h : ErasesAt(h, ht, iv, k, p)
<1> DEFINE S == {n \in Nat : \A p \in DOMAIN h : ht[p] = n => ErasesAt(h, ht, iv, k, p)}
           F == EraseFrom(h, k)
           E == WithoutKey(Entries(h), k)
<1>1. k \in Int
  OBVIOUS
<1>2. \A p \in DOMAIN h : F[p] = EraseStep(h, k, F, p)
  BY <1>1, EraseEquation
<1>3. \A p \in DOMAIN h : ht[p] \in Nat
  BY Kind
<1> HIDE DEF F, E
<1>4. \A p \in DOMAIN h : h[p].leaf = TRUE => ErasesAt(h, ht, iv, k, p)
  <2> TAKE p \in DOMAIN h
  <2> SUFFICES ASSUME h[p].leaf = TRUE, k \in iv[p]
               PROVE  Updated(h, ht, iv, F[p], p, E, -1, 0)
    BY DEF ErasesAt, F, E
  <2>1. F[p] = TakeHere(h, k, p)
    BY <1>2 DEF EraseStep
  <2>2. Updated(h, ht, iv, TakeHere(h, k, p), p, E, -1, 0)
    BY TakeUpdates DEF E
  <2> QED BY <2>1, <2>2
<1>5. \A p \in DOMAIN h : \/ h[p].leaf = TRUE
                          \/ h[p].leaf = FALSE /\ ht[p] > 0
  BY NodeKind
<1>6. 0 \in S
  BY <1>4, <1>5
<1>7. ASSUME NEW n \in Nat, n \in S PROVE n + 1 \in S
  <2> SUFFICES \A p \in DOMAIN h : ht[p] = n + 1 => ErasesAt(h, ht, iv, k, p)
    OBVIOUS
  <2> TAKE p \in DOMAIN h
  <2> SUFFICES ASSUME ht[p] = n + 1, h[p].leaf = FALSE PROVE ErasesAt(h, ht, iv, k, p)
    BY <1>4, <1>5
  <2> SUFFICES ASSUME k \in iv[p], LowFits(h, ht, p), Count(h, p) >= 1
               PROVE  Updated(h, ht, iv, F[p], p, E, -1, 0)
    BY DEF ErasesAt, F, E
  <2> DEFINE u == UpperIndex(h[p], k)
             c == h[p].kids[u]
  <2>1. Way(h, ht, iv, p, k, u)
    BY <1>1, Descends
  <2>2. c \in DOMAIN h /\ ht[c] = ht[p] - 1 /\ k \in iv[c]
    BY <2>1 DEF Way
  <2> HIDE DEF u, c
  <2>3. ht[c] = n
    BY <2>2
  <2>4. LowFits(h, ht, c)
    <3>1. \A q \in DOMAIN h : ht[q] < ht[c] => ht[q] < ht[p]
      BY <1>3, <2>2
    <3> QED BY <3>1 DEF LowFits
  <2>8. Count(h, c) >= 1
    <3>1. ht[c] < ht[p]
      BY <1>3, <2>2
    <3>2. Count(h, c) \in LeastKeys .. MaxKeys
      BY <2>2, <3>1 DEF LowFits, Fits
    <3> QED BY <3>2, Limits
  <2>5. Updated(h, ht, iv, F[c], c, E, -1, 0)
    BY <1>7, <2>2, <2>3, <2>4, <2>8 DEF ErasesAt, F, E
  <2>6. F[p] = Refill(F[c], p, u)
    BY <1>2 DEF EraseStep, u, c
  <2>7. Updated(h, ht, iv, Refill(F[c], p, u), p, E, -1, 0)
    BY <1>1, <2>5, EraseClimbs DEF u, c
  <2> QED BY <2>6, <2>7
<1> HIDE DEF S
<1>8. Nat \subseteq S
  BY <1>6, <1>7, Induction
<1> QED BY <1>3, <1>8 DEF S

-----------------------------------------------------------------------------
(* What a descent finds *)

\* It ends in the leaf that is responsible for the key.
DownFinds(h, ht, iv, k, p) ==
  k \in iv[p] =>
    /\ Down(h, k)[p] \in DOMAIN h /\ h[Down(h, k)[p]].leaf = TRUE
    /\ k \in iv[Down(h, k)[p]]

LEMMA Finds ==
  ASSUME NEW h, NEW ht, NEW iv, Tree(h, ht, iv), NEW k \in Int,
         NEW N \in Nat, \A q \in DOMAIN h : ht[q] <= N
  PROVE  \A p \in DOMAIN h : DownFinds(h, ht, iv, k, p)
<1> DEFINE S == {n \in Nat : \A p \in DOMAIN h : ht[p] = n => DownFinds(h, ht, iv, k, p)}
           F == Down(h, k)
<1>1. \A p \in DOMAIN h : F[p] = DownStep(h, k, F, p)
  BY DownEquation
<1>2. \A p \in DOMAIN h : ht[p] \in Nat
  BY Kind
<1> HIDE DEF F
<1>3. \A p \in DOMAIN h : h[p].leaf = TRUE => DownFinds(h, ht, iv, k, p)
  BY <1>1 DEF DownFinds, DownStep, F
<1>4. \A p \in DOMAIN h : \/ h[p].leaf = TRUE
                          \/ h[p].leaf = FALSE /\ ht[p] > 0
  BY NodeKind
<1>5. 0 \in S
  BY <1>3, <1>4
<1>6. ASSUME NEW n \in Nat, n \in S PROVE n + 1 \in S
  <2> SUFFICES \A p \in DOMAIN h : ht[p] = n + 1 => DownFinds(h, ht, iv, k, p)
    OBVIOUS
  <2> TAKE p \in DOMAIN h
  <2> SUFFICES ASSUME ht[p] = n + 1, h[p].leaf = FALSE PROVE DownFinds(h, ht, iv, k, p)
    BY <1>3, <1>4
  <2> SUFFICES ASSUME k \in iv[p]
               PROVE  F[p] \in DOMAIN h /\ h[F[p]].leaf = TRUE /\ k \in iv[F[p]]
    BY DEF DownFinds, F
  <2> DEFINE u == UpperIndex(h[p], k)
             c == h[p].kids[u]
  <2>1. Way(h, ht, iv, p, k, u)
    BY Descends
  <2>2. c \in DOMAIN h /\ ht[c] = ht[p] - 1 /\ k \in iv[c]
    BY <2>1 DEF Way
  <2>3. F[p] = F[c]
    BY <1>1 DEF DownStep
  <2> HIDE DEF u, c
  <2>4. ht[c] = n
    BY <2>2
  <2>5. F[c] \in DOMAIN h /\ h[F[c]].leaf = TRUE /\ k \in iv[F[c]]
    BY <1>6, <2>2, <2>4 DEF DownFinds, F
  <2> QED BY <2>3, <2>5
<1> HIDE DEF S
<1>7. Nat \subseteq S
  BY <1>5, <1>6, Induction
<1> QED BY <1>2, <1>7 DEF S

\* The tree with the root r, and r alone at its height.
RootedAt(h, r, ht, iv) ==
  /\ Tree(h, ht, iv) /\ r \in DOMAIN h /\ iv[r] = Int
  /\ \A q \in DOMAIN h : q # r => ht[q] < ht[r]

LEMMA Heights ==
  ASSUME NEW h, NEW r, NEW ht, NEW iv, RootedAt(h, r, ht, iv)
  PROVE  ht[r] \in Nat /\ \A q \in DOMAIN h : ht[q] \in Nat /\ ht[q] <= ht[r]
<1>1. Tree(h, ht, iv) /\ r \in DOMAIN h /\ \A q \in DOMAIN h : q # r => ht[q] < ht[r]
  BY DEF RootedAt
<1>2. \A q \in DOMAIN h : ht[q] \in Nat
  BY <1>1, Kind
<1> QED BY <1>1, <1>2

\* The value found is the one of the entry with the key.
LEMMA FindsEntry ==
  ASSUME NEW t, NEW ht, NEW iv, RootedAt(t.heap, t.root, ht, iv), NEW k \in Keys, NEW v
  PROVE  v \in Find(t, k) <=> <<k, v>> \in Entries(t.heap)
<1> DEFINE h == t.heap
           q == LeafFor(t, k)
           s == h[q].data
<1>1. Tree(h, ht, iv) /\ t.root \in DOMAIN h /\ iv[t.root] = Int /\ k \in Int
  BY TreeAssumption DEF RootedAt
<1>2. ht[t.root] \in Nat /\ \A p \in DOMAIN h : ht[p] <= ht[t.root]
  BY Heights
<1>3. t.root # Null
  BY <1>1 DEF Tree, IsHeap, Null
<1>4. DownFinds(h, ht, iv, k, t.root)
  <2> HIDE DEF h
  <2> QED BY <1>1, <1>2, Finds
<1>5. q \in DOMAIN h /\ h[q].leaf = TRUE /\ k \in iv[q]
  BY <1>1, <1>4 DEF DownFinds, LeafFor
<1>6. Find(t, k) = {e[2] : e \in {d \in ToSet(s) : d[1] = k}}
  BY <1>3 DEF Find
<1> HIDE DEF h, q
<1>7. s \in Seq(Keys \X Values)
  BY <1>1, <1>5, Kind DEF LeafFits, IsLeaf
<1> HIDE DEF s
<1>8. ToSet(s) = {s[i] : i \in 1 .. Len(s)} /\ \A i \in 1 .. Len(s) : s[i] \in Keys \X Values
  BY <1>7, SetOf, Elements
<1>9. ASSUME v \in Find(t, k) PROVE <<k, v>> \in Entries(h)
  <2>1. PICK i \in 1 .. Len(s) : s[i][1] = k /\ v = s[i][2]
    BY <1>6, <1>8, <1>9
  <2>2. s[i] = <<k, v>>
    BY <1>8, <2>1
  <2>3. <<k, v>> \in Keys \X Values /\ Holds(s, <<k, v>>)
    BY <1>8, <2>2 DEF Holds
  <2> QED BY <1>1, <1>5, <2>3, LeafEntries DEF s
<1>10. ASSUME <<k, v>> \in Entries(h) PROVE v \in Find(t, k)
  <2>1. <<k, v>> \in Keys \X Values
    BY <1>10 DEF Entries
  <2>2. Holds(s, <<k, v>>)
    BY <1>1, <1>5, <1>10, <2>1, LeafEntries DEF s
  <2>3. PICK i \in 1 .. Len(s) : s[i] = <<k, v>>
    BY <2>2 DEF Holds
  <2>4. s[i] \in {d \in ToSet(s) : d[1] = k}
    BY <1>8, <2>3
  <2>5. s[i][2] = v
    BY <2>3
  <2> QED BY <1>6, <2>4, <2>5
<1> QED BY <1>9, <1>10 DEF h

\* No key has two entries.
LEMMA OneEntry ==
  ASSUME NEW h, NEW r, NEW ht, NEW iv, RootedAt(h, r, ht, iv),
         NEW d \in Entries(h), NEW e \in Entries(h), d[1] = e[1]
  PROVE  d = e
<1>1. Tree(h, ht, iv) /\ r \in DOMAIN h /\ iv[r] = Int
  BY DEF RootedAt
<1> DEFINE k == d[1]
           q == Down(h, k)[r]
           s == h[q].data
<1>2. d \in Keys \X Values /\ e \in Keys \X Values /\ k \in Int
  BY TreeAssumption DEF Entries
<1>3. DownFinds(h, ht, iv, k, r)
  <2>1. ht[r] \in Nat /\ \A p \in DOMAIN h : ht[p] <= ht[r]
    BY Heights
  <2> HIDE DEF k
  <2> QED BY <1>1, <1>2, <2>1, Finds
<1>4. q \in DOMAIN h /\ h[q].leaf = TRUE /\ k \in iv[q]
  BY <1>1, <1>2, <1>3 DEF DownFinds
<1> HIDE DEF q
<1>5. LeafFits(h, ht, iv, q) /\ iv[q] \subseteq Int
  BY <1>1, <1>4, Kind
<1>6. IsLeaf(h[q]) /\ DataFits(s, iv[q])
  BY <1>5 DEF LeafFits
<1>7. Holds(s, d) /\ Holds(s, e)
  BY <1>1, <1>2, <1>4, LeafEntries
<1>8. s[KeyIndex(h[q], k)] = d /\ s[KeyIndex(h[q], k)] = e
  <2> DEFINE node == h[q]
  <2>1. IsLeaf(node) /\ node.leaf = TRUE /\ DataFits(node.data, iv[q])
    BY <1>4, <1>6
  <2>2. Holds(node.data, d) /\ Holds(node.data, e) /\ d[1] = k /\ e[1] = k
    BY <1>7
  <2> HIDE DEF node, k
  <2> QED BY <1>2, <1>5, <2>1, <2>2, KeyFound DEF node
<1> QED BY <1>8

-----------------------------------------------------------------------------
(* The tree as a whole *)

\* The size of the root is one of N, all other nodes keep within their limits.
Sized(h, r, N) ==
  Count(h, r) \in N /\ \A q \in DOMAIN h : q # r => Fits(Count(h, q))

\* A well-formed tree with the root r that holds E.
Sound(h, r, E, N, linked) ==
  \E ht, iv :
    /\ RootedAt(h, r, ht, iv) /\ Sized(h, r, N) /\ Entries(h) = E
    /\ linked => Chained(h, iv)

LEMMA RootUpdated ==
  ASSUME NEW h, NEW r, NEW ht, NEW iv, RootedAt(h, r, ht, iv),
         NEW g, NEW E, NEW a, NEW b, Updated(h, ht, iv, g, r, E, a, b)
  PROVE  \E ht2, iv2 :
           /\ RootedAt(g, r, ht2, iv2) /\ Entries(g) = E
           /\ KeepsChain(h, iv, g, iv2)
           /\ Count(g, r) \in Count(h, r) + a .. Count(h, r) + b
           /\ \A q \in DOMAIN g : q # r => Fits(Count(g, q)) \/ OnlyChild(g, r, q)
<1>1. /\ Tree(h, ht, iv) /\ r \in DOMAIN h /\ iv[r] = Int
      /\ \A q \in DOMAIN h : q # r => ht[q] < ht[r]
  BY DEF RootedAt
<1>2. PICK ht2, iv2 :
        /\ Tree(g, ht2, iv2) /\ Kept(h, ht, iv, g, ht2, iv2, r) /\ Entries(g) = E
        /\ KeepsChain(h, iv, g, iv2)
        /\ Count(g, r) \in Count(h, r) + a .. Count(h, r) + b
        /\ \A q \in DOMAIN g : ht2[q] < ht[r] => Fits(Count(g, q)) \/ OnlyChild(g, r, q)
  BY DEF Updated
<1>3. ht \in [DOMAIN h -> Nat] /\ ht2 \in [DOMAIN g -> Nat]
  BY <1>1, <1>2 DEF Tree, Ranges
<1>4. r \in DOMAIN g /\ ht2[r] = ht[r] /\ iv2[r] = iv[r]
  <2>1. ht[r] >= ht[r]
    BY <1>1, <1>3
  <2> QED BY <1>1, <1>2, <2>1 DEF Kept
<1>5. ASSUME NEW q \in DOMAIN g, q # r PROVE ht2[q] < ht2[r]
  <2> SUFFICES ASSUME ht2[q] >= ht[r] PROVE FALSE
    BY <1>1, <1>3, <1>4
  <2>1. q \in DOMAIN h /\ ht2[q] = ht[q]
    BY <1>2 DEF Kept
  <2> QED BY <1>1, <1>3, <1>5, <2>1
<1>6. RootedAt(g, r, ht2, iv2)
  BY <1>1, <1>2, <1>4, <1>5 DEF RootedAt
<1>7. \A q \in DOMAIN g : q # r => Fits(Count(g, q)) \/ OnlyChild(g, r, q)
  BY <1>2, <1>4, <1>5
<1> QED BY <1>2, <1>6, <1>7

LEMMA InsertIsSound ==
  ASSUME NEW h, NEW r, NEW E, NEW linked, Sound(h, r, E, 1 .. MaxRootKeys, linked),
         NEW k \in Keys, NEW v \in Values, Absent(E, k)
  PROVE  Sound(InsertInto(h, k, v)[r], r, WithEntry(E, k, v), 1 .. MaxRootKeys + 1, linked)
<1> DEFINE g == InsertInto(h, k, v)[r]
<1>1. PICK ht, iv :
        /\ RootedAt(h, r, ht, iv) /\ Sized(h, r, 1 .. MaxRootKeys) /\ Entries(h) = E
        /\ linked => Chained(h, iv)
  BY DEF Sound
<1>2. Tree(h, ht, iv) /\ r \in DOMAIN h /\ iv[r] = Int /\ k \in Int
  BY <1>1, TreeAssumption DEF RootedAt
<1>3. ht[r] \in Nat /\ \A q \in DOMAIN h : ht[q] \in Nat /\ ht[q] <= ht[r]
  BY <1>1, Heights
<1>4. InsertsAt(h, ht, iv, k, v, r)
  BY <1>1, <1>2, <1>3, Inserts
<1>5. LowFits(h, ht, r)
  <2>1. \A q \in DOMAIN h : ht[q] < ht[r] => q # r
    BY <1>3
  <2> QED BY <1>1, <2>1 DEF LowFits, Sized
<1>6. Updated(h, ht, iv, g, r, WithEntry(E, k, v), 0, 1)
  BY <1>1, <1>2, <1>4, <1>5 DEF InsertsAt
<1> HIDE DEF g
<1>7. PICK ht2, iv2 :
        /\ RootedAt(g, r, ht2, iv2) /\ Entries(g) = WithEntry(E, k, v)
        /\ KeepsChain(h, iv, g, iv2)
        /\ Count(g, r) \in Count(h, r) + 0 .. Count(h, r) + 1
        /\ \A q \in DOMAIN g : q # r => Fits(Count(g, q)) \/ OnlyChild(g, r, q)
  BY <1>1, <1>6, RootUpdated
<1>8. Count(g, r) \in 1 .. MaxRootKeys + 1
  <2>1. Count(h, r) \in 1 .. MaxRootKeys
    BY <1>1 DEF Sized
  <2> QED BY <1>7, <2>1, Limits
<1>9. Sized(g, r, 1 .. MaxRootKeys + 1)
  <2>1. Count(g, r) # 0
    BY <1>8
  <2> QED BY <1>7, <1>8, <2>1 DEF Sized, OnlyChild
<1>10. Sound(g, r, WithEntry(E, k, v), 1 .. MaxRootKeys + 1, linked)
  BY <1>1, <1>7, <1>9 DEF Sound, KeepsChain
<1> QED BY <1>10 DEF g

-----------------------------------------------------------------------------
(* Fewer nodes, one node more *)

\* g has some of the nodes of h, and the children of all it has; leaves may be
\* linked in another way.
Pruned(h, g) ==
  /\ g = [q \in DOMAIN g |-> g[q]] /\ DOMAIN g \subseteq DOMAIN h
  /\ \A q \in DOMAIN g :
       /\ h[q].leaf = FALSE =>
            /\ g[q] = h[q]
            /\ \A i \in 1 .. Len(h[q].kids) : h[q].kids[i] \in DOMAIN g
       /\ h[q].leaf = TRUE => IsLeaf(g[q]) /\ g[q].leaf = TRUE /\ g[q].data = h[q].data

Narrowed(f, D) == [q \in D |-> f[q]]

LEMMA PrunedIsTree ==
  ASSUME NEW h, NEW ht, NEW iv, Tree(h, ht, iv), NEW g, Pruned(h, g)
  PROVE  Tree(g, Narrowed(ht, DOMAIN g), Narrowed(iv, DOMAIN g))
<1> DEFINE D == DOMAIN g
           ht2 == Narrowed(ht, D)
           iv2 == Narrowed(iv, D)
<1>1. IsHeap(h) /\ Ranges(h, ht, iv) /\ Apart(ht, iv)
  BY DEF Tree
<1>2. g = [q \in D |-> g[q]] /\ D \subseteq DOMAIN h
  BY DEF Pruned
<1>3. IsHeap(g)
  <2>1. IsFiniteSet(DOMAIN h) /\ DOMAIN h \subseteq Nat \ {0}
    BY <1>1 DEF IsHeap
  <2>2. IsFiniteSet(D)
    BY <1>2, <2>1, FS_Subset
  <2> QED BY <1>2, <2>1, <2>2 DEF IsHeap
<1>4. /\ DOMAIN ht2 = D /\ DOMAIN iv2 = D
      /\ \A q \in D : ht2[q] = ht[q] /\ iv2[q] = iv[q]
  BY DEF Narrowed
<1>5. Ranges(g, ht2, iv2)
  <2>1. /\ \A q \in DOMAIN h : ht[q] \in Nat /\ iv[q] \in SUBSET Int
        /\ \A q \in DOMAIN h : iv[q] # {} /\ Convex(iv[q])
    BY <1>1 DEF Ranges
  <2>2. ht2 \in [D -> Nat] /\ iv2 \in [D -> SUBSET Int]
    BY <1>2, <2>1 DEF Narrowed
  <2> QED BY <1>2, <1>4, <2>1, <2>2 DEF Ranges
<1>6. Apart(ht2, iv2)
  <2>1. DOMAIN ht = DOMAIN h
    BY <1>1 DEF Ranges
  <2>2. \A p, q \in DOMAIN h : ht[p] = ht[q] /\ p # q => iv[p] \cap iv[q] = {}
    BY <1>1, <2>1 DEF Apart
  <2>3. ASSUME NEW p \in D, NEW q \in D, ht2[p] = ht2[q], p # q PROVE iv2[p] \cap iv2[q] = {}
    <3>1. iv[p] \cap iv[q] = {}
      BY <1>2, <1>4, <2>2, <2>3
    <3> QED BY <1>4, <3>1
  <2> QED BY <1>4, <2>3 DEF Apart
<1> HIDE DEF ht2, iv2
<1>7. ASSUME NEW q \in D PROVE LeafFits(g, ht2, iv2, q) \/ InternalFits(g, ht2, iv2, q)
  <2>1. q \in DOMAIN h
    BY <1>2
  <2>2. CASE h[q].leaf = TRUE
    <3>1. LeafFits(h, ht, iv, q)
      BY <2>1, <2>2, Kind
    <3>2. IsLeaf(g[q]) /\ g[q].data = h[q].data
      BY <2>2 DEF Pruned
    <3>3. LeafFits(g, ht2, iv2, q)
      BY <1>4, <3>1, <3>2 DEF LeafFits
    <3> QED BY <3>3
  <2>3. CASE h[q].leaf = FALSE
    <3>1. InternalFits(h, ht, iv, q)
      BY <2>1, <2>3, Kind
    <3>2. g[q] = h[q] /\ \A i \in 1 .. Len(g[q].kids) : g[q].kids[i] \in D
      BY <2>3 DEF Pruned
    <3>3. IsInternal(g[q], D)
      <4>1. IsInternal(g[q], DOMAIN h)
        BY <3>1, <3>2 DEF InternalFits
      <4>2. g[q].kids \in Seq(DOMAIN h)
        BY <4>1 DEF IsInternal
      <4>3. g[q].kids \in Seq(D)
        BY <3>2, <4>2, Elements
      <4> QED BY <4>1, <4>3 DEF IsInternal
    <3>4. /\ ht[q] > 0 /\ KeysFit(g[q].keys, iv[q])
          /\ \A i \in 1 .. Len(g[q].kids) :
               ht[g[q].kids[i]] = ht[q] - 1 /\ iv[g[q].kids[i]] = Slice(iv[q], g[q].keys, i)
      BY <3>1, <3>2 DEF InternalFits
    <3>5. \A i \in 1 .. Len(g[q].kids) :
            ht2[g[q].kids[i]] = ht2[q] - 1 /\ iv2[g[q].kids[i]] = Slice(iv2[q], g[q].keys, i)
      BY <1>4, <3>2, <3>4
    <3>6. InternalFits(g, ht2, iv2, q)
      BY <1>4, <3>3, <3>4, <3>5 DEF InternalFits
    <3> QED BY <3>6
  <2> QED BY <2>1, <2>2, <2>3, Kind
<1>8. Tree(g, ht2, iv2)
  BY <1>3, <1>5, <1>6, <1>7 DEF Tree
<1> QED BY <1>8 DEF ht2, iv2

\* A new root over the old one.
Topped(h, r, top) == Put(h, top, Internal(<<>>, <<r>>))
ToppedHeight(h, r, ht, top) == [q \in DOMAIN h \cup {top} |-> IF q = top THEN ht[r] + 1 ELSE ht[q]]
ToppedRange(h, iv, top) == [q \in DOMAIN h \cup {top} |-> IF q = top THEN Int ELSE iv[q]]

LEMMA ToppedIsTree ==
  ASSUME NEW h, NEW r, NEW ht, NEW iv, RootedAt(h, r, ht, iv),
         NEW top, top \notin DOMAIN h, top \in Nat \ {0}
  PROVE  /\ RootedAt(Topped(h, r, top), top, ToppedHeight(h, r, ht, top), ToppedRange(h, iv, top))
         /\ KeepsChain(h, iv, Topped(h, r, top), ToppedRange(h, iv, top))
<1> DEFINE g == Topped(h, r, top)
           D == DOMAIN h \cup {top}
           ht2 == ToppedHeight(h, r, ht, top)
           iv2 == ToppedRange(h, iv, top)
           node == Internal(<<>>, <<r>>)
<1>1. /\ Tree(h, ht, iv) /\ r \in DOMAIN h /\ iv[r] = Int
      /\ \A q \in DOMAIN h : q # r => ht[q] < ht[r]
  BY DEF RootedAt
<1>2. IsHeap(h) /\ Ranges(h, ht, iv) /\ Apart(ht, iv)
  BY <1>1 DEF Tree
<1>3. /\ DOMAIN g = D /\ g = [q \in D |-> g[q]] /\ g[top] = node
      /\ \A q \in DOMAIN h : g[q] = h[q]
  BY DEF Topped, Put
<1>4. /\ DOMAIN ht2 = D /\ DOMAIN iv2 = D /\ ht2[top] = ht[r] + 1 /\ iv2[top] = Int
      /\ \A q \in DOMAIN h : ht2[q] = ht[q] /\ iv2[q] = iv[q]
  BY DEF ToppedHeight, ToppedRange
<1>5. /\ \A q \in DOMAIN h : ht[q] \in Nat /\ iv[q] \in SUBSET Int
      /\ \A q \in DOMAIN h : iv[q] # {} /\ Convex(iv[q])
  BY <1>2 DEF Ranges
<1>6. \A q \in DOMAIN h : ht[q] < ht[r] + 1
  BY <1>1, <1>5
<1> HIDE DEF g, ht2, iv2
<1>7. IsHeap(g)
  <2>1. IsFiniteSet(DOMAIN h) /\ DOMAIN h \subseteq Nat \ {0}
    BY <1>2 DEF IsHeap
  <2>2. IsFiniteSet(D)
    BY <2>1, FS_AddElement
  <2> QED BY <1>3, <2>1, <2>2 DEF IsHeap
<1>8. Ranges(g, ht2, iv2)
  <2>1. ht2 \in [D -> Nat] /\ iv2 \in [D -> SUBSET Int]
    BY <1>1, <1>5 DEF ht2, iv2, ToppedHeight, ToppedRange
  <2>2. Int # {} /\ Convex(Int)
    BY DEF Convex
  <2> QED BY <1>3, <1>4, <1>5, <2>1, <2>2 DEF Ranges
<1>9. Apart(ht2, iv2)
  <2>1. DOMAIN ht = DOMAIN h
    BY <1>2 DEF Ranges
  <2>2. \A p, q \in DOMAIN h : ht[p] = ht[q] /\ p # q => iv[p] \cap iv[q] = {}
    BY <1>2, <2>1 DEF Apart
  <2>3. \A q \in DOMAIN h : ht2[q] # ht2[top]
    BY <1>1, <1>4, <1>5, <1>6
  <2>4. ASSUME NEW p \in D, NEW q \in D, ht2[p] = ht2[q], p # q PROVE iv2[p] \cap iv2[q] = {}
    <3>1. p \in DOMAIN h /\ q \in DOMAIN h
      BY <2>3, <2>4
    <3>2. iv[p] \cap iv[q] = {}
      BY <1>4, <2>2, <2>4, <3>1
    <3> QED BY <1>4, <3>1, <3>2
  <2> QED BY <1>4, <2>4 DEF Apart
<1>10. InternalIs(node, D, <<>>, <<r>>)
  <2>1. <<>> \in Seq(Int) /\ <<r>> \in Seq(D) /\ Len(<<r>>) = Len(<<>>) + 1
    BY <1>1
  <2> QED BY <2>1, InternalNodeIs
<1>11. InternalFits(g, ht2, iv2, top)
  <2>1. IsInternal(g[top], D) /\ g[top].keys = <<>> /\ g[top].kids = <<r>>
    BY <1>3, <1>10 DEF InternalIs
  <2>2. KeysFit(g[top].keys, iv2[top])
    BY <2>1 DEF KeysFit
  <2>3. Slice(Int, <<>>, 1) = Int
    BY DEF Slice
  <2>4. \A i \in 1 .. Len(<<r>>) : i = 1 /\ <<r>>[i] = r
    OBVIOUS
  <2>5. ht2[r] = ht2[top] - 1 /\ iv2[r] = Slice(iv2[top], g[top].keys, 1)
    BY <1>1, <1>4, <1>5, <2>1, <2>3
  <2>6. \A i \in 1 .. Len(g[top].kids) :
          ht2[g[top].kids[i]] = ht2[top] - 1 /\ iv2[g[top].kids[i]] = Slice(iv2[top], g[top].keys, i)
    BY <2>1, <2>4, <2>5
  <2>7. ht2[top] > 0
    BY <1>1, <1>4, <1>5
  <2> QED BY <1>3, <2>1, <2>2, <2>6, <2>7 DEF InternalFits
<1>12. ASSUME NEW q \in DOMAIN h PROVE LeafFits(g, ht2, iv2, q) \/ InternalFits(g, ht2, iv2, q)
  <2>1. g[q] = h[q] /\ ht2[q] = ht[q] /\ iv2[q] = iv[q]
    BY <1>3, <1>4
  <2>2. CASE LeafFits(h, ht, iv, q)
    BY <2>1, <2>2 DEF LeafFits
  <2>3. CASE InternalFits(h, ht, iv, q)
    <3>1. Children(h, ht, iv, q)
      BY <1>1, <2>3, Family
    <3>2. IsInternal(g[q], D)
      <4>1. IsInternal(h[q], DOMAIN h) /\ DOMAIN h \subseteq D
        BY <2>3 DEF InternalFits
      <4> DEFINE n == h[q]
      <4> HIDE DEF n, D
      <4>2. IsInternal(n, D)
        BY <4>1, InternalGrows DEF n
      <4> QED BY <2>1, <4>2 DEF n
    <3>3. ht2[q] > 0 /\ KeysFit(g[q].keys, iv2[q])
      BY <2>1, <2>3 DEF InternalFits
    <3>4. \A i \in 1 .. Len(g[q].kids) :
            ht2[g[q].kids[i]] = ht2[q] - 1 /\ iv2[g[q].kids[i]] = Slice(iv2[q], g[q].keys, i)
      BY <1>4, <2>1, <3>1 DEF Children
    <3>5. InternalFits(g, ht2, iv2, q)
      BY <1>3, <3>2, <3>3, <3>4 DEF InternalFits
    <3> QED BY <3>5
  <2> QED BY <1>1, <2>2, <2>3 DEF Tree
<1>13. Tree(g, ht2, iv2)
  BY <1>3, <1>7, <1>8, <1>9, <1>11, <1>12 DEF Tree
<1>14. RootedAt(g, top, ht2, iv2)
  BY <1>3, <1>4, <1>6, <1>13 DEF RootedAt
<1>15. KeepsChain(h, iv, g, iv2)
  <2>1. g[top].leaf = FALSE
    BY <1>3 DEF Internal
  <2>2. LeavesStay(h, iv, g, iv2)
    BY <1>3, <1>4, <2>1 DEF LeavesStay, SameLinks
  <2> QED BY <2>2, StayChained
<1> QED BY <1>14, <1>15 DEF g, ht2, iv2

\* split_root
LEMMA SplitRootIsSound ==
  ASSUME NEW t, NEW E, NEW linked, Sound(t.heap, t.root, E, {MaxRootKeys + 1}, linked)
  PROVE  Sound(SplitRoot(t).heap, SplitRoot(t).root, E, 1 .. MaxRootKeys, linked)
<1> DEFINE h == t.heap
           r == t.root
           top == Fresh(h)
           at == MinKeys + 1
           m == Topped(h, r, top)
           new == Fresh(m)
           g == SplitAt(m, top, 1, at)
<1>1. PICK ht, iv :
        /\ RootedAt(h, r, ht, iv) /\ Sized(h, r, {MaxRootKeys + 1}) /\ Entries(h) = E
        /\ linked => Chained(h, iv)
  BY DEF Sound
<1>2. SplitRoot(t).heap = g /\ SplitRoot(t).root = top
  BY DEF SplitRoot, Topped
<1>3. Tree(h, ht, iv) /\ r \in DOMAIN h /\ IsHeap(h)
  BY <1>1 DEF RootedAt, Tree
<1> HIDE DEF h, r
<1>4. top \notin DOMAIN h /\ top \in Nat \ {0}
  BY <1>3, FreshNode
<1> HIDE DEF top
<1> DEFINE ht1 == ToppedHeight(h, r, ht, top)
           iv1 == ToppedRange(h, iv, top)
<1>5. RootedAt(m, top, ht1, iv1) /\ KeepsChain(h, iv, m, iv1)
  BY <1>1, <1>4, ToppedIsTree
<1>6. /\ DOMAIN m = DOMAIN h \cup {top} /\ m[top] = Internal(<<>>, <<r>>)
      /\ \A q \in DOMAIN h : m[q] = h[q]
  BY <1>4 DEF Topped, Put
<1> HIDE DEF m, ht1, iv1
<1>7. m[top].leaf = FALSE /\ m[top].keys = <<>> /\ m[top].kids = <<r>>
  BY <1>6 DEF Internal
<1>8. 1 \in 1 .. Len(m[top].kids) /\ r = m[top].kids[1]
  BY <1>7
<1>9. Count(m, r) = 4 * Order /\ at = 2 * Order /\ Count(m, top) = 0
  <2>1. Count(m, r) = Count(h, r) /\ Count(h, r) = MaxRootKeys + 1
    BY <1>1, <1>3, <1>6 DEF Count, Sized
  <2>2. Count(m, top) = 0
    BY <1>7 DEF Count, Size
  <2> QED BY <2>1, <2>2, Limits
<1>10. at \in 1 .. Count(m, r) - 1
  BY <1>9, Limits
<1>11. Tree(m, ht1, iv1) /\ top \in DOMAIN m
  BY <1>5 DEF RootedAt
<1>12. \E right : SplitInto(m, ht1, iv1, g, top, 1, r, new, at, right) /\ Fits(right)
  <2>1. CASE m[r].leaf
    <3>1. SplitInto(m, ht1, iv1, g, top, 1, r, new, at, Count(m, r) - at)
      BY <1>7, <1>8, <1>10, <1>11, <2>1, SplitsLeaf
    <3>2. Fits(Count(m, r) - at)
      BY <1>9, Limits DEF Fits
    <3> QED BY <3>1, <3>2
  <2>2. CASE ~m[r].leaf
    <3>1. SplitInto(m, ht1, iv1, g, top, 1, r, new, at, Count(m, r) - at - 1)
      BY <1>7, <1>8, <1>10, <1>11, <2>2, SplitsInternal
    <3>2. Fits(Count(m, r) - at - 1)
      BY <1>9, Limits DEF Fits
    <3> QED BY <3>1, <3>2
  <2> QED BY <2>1, <2>2
<1>13. Fits(at)
  BY <1>9, Limits DEF Fits
<1> HIDE DEF g, new, at
<1>14. PICK right : SplitInto(m, ht1, iv1, g, top, 1, r, new, at, right) /\ Fits(right)
  BY <1>12
<1>15. /\ Rearranged(m, ht1, iv1, g, top)
       /\ Effect(m, g, top, {r, new}, 1)
       /\ Count(g, r) = at /\ Count(g, new) = right
  BY <1>14 DEF SplitInto
<1>16. Updated(m, ht1, iv1, g, top, E, 1, 1)
  <2>1. PICK ht2, iv2 :
          /\ Tree(g, ht2, iv2) /\ Kept(m, ht1, iv1, g, ht2, iv2, top) /\ Entries(g) = Entries(m)
          /\ KeepsChain(m, iv1, g, iv2)
    BY <1>15 DEF Rearranged
  <2>2. Entries(m) = E
    <3>1. \A q \in DOMAIN m : m[q].leaf => q \in DOMAIN h
      BY <1>6, <1>7
    <3>2. Entries(m) = Entries(h)
      BY <1>6, <3>1 DEF Entries
    <3> QED BY <1>1, <3>2
  <2>3. Count(g, top) = 1
    BY <1>9, <1>15 DEF Effect
  <2>4. ASSUME NEW q \in DOMAIN g, q # top PROVE Fits(Count(g, q))
    <3>1. CASE q = r \/ q = new
      BY <1>13, <1>14, <1>15, <3>1
    <3>2. CASE q \in DOMAIN m /\ g[q] = m[q] /\ q # r
      <4>1. q \in DOMAIN h /\ g[q] = h[q]
        BY <1>6, <2>4, <3>2
      <4>2. Fits(Count(h, q))
        BY <1>1, <3>2, <4>1 DEF Sized
      <4> QED BY <4>1, <4>2 DEF Count
    <3> QED BY <1>15, <2>4, <3>1, <3>2 DEF Effect
  <2>5. \A q \in DOMAIN g : ht2[q] < ht1[top] => q # top
    <3>1. ht1[top] \in Nat
      BY <1>11, Kind
    <3>2. ht2[top] = ht1[top]
      BY <1>11, <2>1, <3>1 DEF Kept
    <3> QED BY <3>1, <3>2
  <2>6. Count(g, top) \in Count(m, top) + 1 .. Count(m, top) + 1
    BY <1>9, <2>3
  <2> QED BY <2>1, <2>2, <2>4, <2>5, <2>6 DEF Updated
<1>17. PICK ht2, iv2 :
         /\ RootedAt(g, top, ht2, iv2) /\ Entries(g) = E
         /\ KeepsChain(m, iv1, g, iv2)
         /\ Count(g, top) \in Count(m, top) + 1 .. Count(m, top) + 1
         /\ \A q \in DOMAIN g : q # top => Fits(Count(g, q)) \/ OnlyChild(g, top, q)
  BY <1>5, <1>16, RootUpdated
<1>18. Count(g, top) = 1
  BY <1>9, <1>17
<1>19. Sized(g, top, 1 .. MaxRootKeys)
  <2>1. Count(g, top) \in 1 .. MaxRootKeys
    BY <1>18, Limits
  <2> QED BY <1>17, <1>18, <2>1 DEF Sized, OnlyChild
<1>20. Sound(g, top, E, 1 .. MaxRootKeys, linked)
  BY <1>1, <1>5, <1>17, <1>19 DEF Sound, KeepsChain
<1> QED BY <1>2, <1>20

\* The tree after one call, with an empty heap when there is no root.
Whole(t, E, linked) ==
  /\ IsHeap(t.heap)
  /\ IF t.root = Null THEN DOMAIN t.heap = {} /\ E = {}
     ELSE Sound(t.heap, t.root, E, 1 .. MaxRootKeys, linked)

\* The root goes and leaves its only child in its place.
LEMMA ChildIsRoot ==
  ASSUME NEW g, NEW r, NEW ht, NEW iv, RootedAt(g, r, ht, iv), g[r].leaf = FALSE,
         Count(g, r) = 0, NEW linked, linked => Chained(g, iv),
         \A q \in DOMAIN g : q # r => Fits(Count(g, q)) \/ OnlyChild(g, r, q)
  PROVE  Sound(Without(g, r), g[r].kids[1], Entries(g), 1 .. MaxRootKeys, linked)
<1> DEFINE c == g[r].kids[1]
           w == Without(g, r)
           D == DOMAIN w
           ht2 == Narrowed(ht, D)
           iv2 == Narrowed(iv, D)
<1>1. /\ Tree(g, ht, iv) /\ r \in DOMAIN g /\ iv[r] = Int
      /\ \A q \in DOMAIN g : q # r => ht[q] < ht[r]
  BY DEF RootedAt
<1>2. InternalFits(g, ht, iv, r)
  BY <1>1, Kind
<1>3. Parent(g, ht, iv, r) /\ Children(g, ht, iv, r)
  BY <1>1, <1>2, Family
<1>4. Len(g[r].keys) = 0 /\ Len(g[r].kids) = 1
  <2>1. Count(g, r) = Len(g[r].keys) /\ Len(g[r].kids) = Count(g, r) + 1
    BY <1>1, Counts
  <2> QED BY <2>1
<1>5. c \in DOMAIN g /\ c # r /\ ht[c] = ht[r] - 1 /\ iv[c] = Slice(iv[r], g[r].keys, 1)
  BY <1>3, <1>4 DEF Children
<1>6. iv[c] = Int
  <2>1. \A x \in Int : x \in Slice(Int, g[r].keys, 1)
    BY <1>4 DEF Slice
  <2>2. Slice(Int, g[r].keys, 1) \subseteq Int
    BY DEF Slice
  <2> QED BY <1>1, <1>5, <2>1, <2>2
<1>7. D = DOMAIN g \ {r} /\ w = [q \in D |-> w[q]] /\ \A q \in D : w[q] = g[q]
  BY DEF Without
<1> HIDE DEF w, c
<1>8. Pruned(g, w)
  <2>1. ASSUME NEW q \in D, g[q].leaf = FALSE, NEW i \in 1 .. Len(g[q].kids) PROVE g[q].kids[i] \in D
    <3>1. q \in DOMAIN g
      BY <1>7
    <3>2. InternalFits(g, ht, iv, q)
      BY <1>1, <2>1, <3>1, Kind
    <3>3. Children(g, ht, iv, q)
      BY <1>1, <3>1, <3>2, Family
    <3>4. g[q].kids[i] \in DOMAIN g /\ ht[g[q].kids[i]] = ht[q] - 1
      BY <3>3 DEF Children
    <3>5. ht[q] \in Nat /\ ht[r] \in Nat /\ ht[q] < ht[r]
      BY <1>1, <1>7, Kind
    <3>6. g[q].kids[i] # r
      BY <3>4, <3>5
    <3> QED BY <1>7, <3>4, <3>6
  <2>2. ASSUME NEW q \in D, g[q].leaf = TRUE PROVE IsLeaf(w[q]) /\ w[q].leaf = TRUE /\ w[q].data = g[q].data
    <3>1. q \in DOMAIN g /\ w[q] = g[q]
      BY <1>7
    <3>2. LeafFits(g, ht, iv, q)
      BY <1>1, <2>2, <3>1, Kind
    <3> QED BY <2>2, <3>1, <3>2 DEF LeafFits
  <2> QED BY <1>7, <2>1, <2>2 DEF Pruned
<1>9. Tree(w, ht2, iv2)
  BY <1>1, <1>8, PrunedIsTree
<1>10. c \in D /\ \A q \in D : ht2[q] = ht[q] /\ iv2[q] = iv[q]
  BY <1>5, <1>7 DEF Narrowed
<1> HIDE DEF ht2, iv2
<1>11. ASSUME NEW q \in D, q # c PROVE ht2[q] < ht2[c]
  <2>1. q \in DOMAIN g /\ q # r
    BY <1>7
  <2>2. ht[q] \in Nat /\ ht[r] \in Nat /\ ht[q] < ht[r] /\ iv[q] # {} /\ iv[q] \subseteq Int
    BY <1>1, <2>1, Kind
  <2>3. ht[q] # ht[c]
    <3> SUFFICES ASSUME ht[q] = ht[c] PROVE FALSE
      OBVIOUS
    <3>1. q \in DOMAIN ht /\ c \in DOMAIN ht /\ Apart(ht, iv)
      BY <1>1, <1>5, <2>1 DEF Tree, Ranges
    <3>2. iv[q] \cap iv[c] = {}
      BY <1>11, <3>1 DEF Apart
    <3> QED BY <1>6, <2>2, <3>2
  <2>4. ht[q] < ht[c]
    BY <1>5, <2>2, <2>3
  <2> QED BY <1>10, <1>11, <2>4
<1>12. RootedAt(w, c, ht2, iv2)
  BY <1>6, <1>9, <1>10, <1>11 DEF RootedAt
<1>13. Sized(w, c, 1 .. MaxRootKeys)
  <2>1. \A q \in D : q # c => Fits(Count(g, q))
    BY <1>7 DEF OnlyChild, c
  <2>2. Fits(Count(g, c)) \/ OnlyChild(g, r, c)
    BY <1>5
  <2>3. Count(g, c) \in 1 .. MaxRootKeys
    BY <2>2, Limits DEF Fits, OnlyChild
  <2> QED BY <1>7, <1>10, <2>1, <2>3 DEF Sized, Count
<1>14. Entries(w) = Entries(g)
  BY <1>7 DEF Entries
<1>15. Sound(w, c, Entries(g), 1 .. MaxRootKeys, linked)
  <2>1. LeavesStay(g, iv, w, iv2)
    BY <1>7, <1>10 DEF LeavesStay, SameLinks
  <2>2. KeepsChain(g, iv, w, iv2)
    BY <2>1, StayChained
  <2> QED BY <1>12, <1>13, <1>14, <2>2 DEF Sound, KeepsChain
<1> QED BY <1>15 DEF w, c

LEMMA EraseIsWhole ==
  ASSUME Order >= 3,
         NEW t, NEW E, NEW linked, Sound(t.heap, t.root, E, 1 .. MaxRootKeys, linked),
         NEW k \in Int, ~Absent(E, k)
  PROVE  Whole(Erased(t, k), WithoutKey(E, k), linked)
<1> DEFINE h == t.heap
           r == t.root
           g == EraseFrom(h, k)[r]
           E2 == WithoutKey(E, k)
<1>1. PICK ht, iv :
        /\ RootedAt(h, r, ht, iv) /\ Sized(h, r, 1 .. MaxRootKeys) /\ Entries(h) = E
        /\ linked => Chained(h, iv)
  BY DEF Sound
<1>2. Tree(h, ht, iv) /\ r \in DOMAIN h /\ iv[r] = Int
  BY <1>1 DEF RootedAt
<1>3. ht[r] \in Nat /\ \A q \in DOMAIN h : ht[q] \in Nat /\ ht[q] <= ht[r]
  BY <1>1, Heights
<1>4. Count(h, r) \in 1 .. MaxRootKeys
  BY <1>1 DEF Sized
<1> HIDE DEF h, r
<1>5. ErasesAt(h, ht, iv, k, r)
  BY <1>1, <1>2, <1>3, Erases
<1>6. LowFits(h, ht, r)
  <2>1. \A q \in DOMAIN h : ht[q] < ht[r] => q # r
    BY <1>3
  <2> QED BY <1>1, <2>1 DEF LowFits, Sized
<1>7. Updated(h, ht, iv, g, r, E2, -1, 0)
  <2>1. Count(h, r) >= 1
    BY <1>4
  <2> QED BY <1>1, <1>2, <1>5, <1>6, <2>1 DEF ErasesAt
<1> HIDE DEF g, E2
<1>8. PICK ht2, iv2 :
        /\ RootedAt(g, r, ht2, iv2) /\ Entries(g) = E2
        /\ KeepsChain(h, iv, g, iv2)
        /\ Count(g, r) \in Count(h, r) + -1 .. Count(h, r) + 0
        /\ \A q \in DOMAIN g : q # r => Fits(Count(g, q)) \/ OnlyChild(g, r, q)
  BY <1>1, <1>7, RootUpdated
<1>9. Tree(g, ht2, iv2) /\ r \in DOMAIN g /\ IsHeap(g)
  BY <1>8 DEF RootedAt, Tree
<1>17. linked => Chained(g, iv2)
  BY <1>1, <1>8 DEF KeepsChain
<1>10. Count(g, r) \in 0 .. MaxRootKeys
  BY <1>4, <1>8, Limits
<1>11. r # Null
  BY <1>9 DEF IsHeap, Null
<1>12. Erased(t, k) = IF g[r].leaf /\ g[r].data = <<>>
       THEN [heap |-> Without(g, r), root |-> Null, size |-> t.size - 1]
       ELSE IF ~g[r].leaf /\ g[r].keys = <<>>
       THEN [heap |-> Without(g, r), root |-> g[r].kids[1], size |-> t.size - 1]
       ELSE [heap |-> g, root |-> r, size |-> t.size - 1]
  BY DEF Erased, g, h, r
<1>13. /\ g[r].leaf \in BOOLEAN
       /\ g[r].leaf = TRUE => (g[r].data = <<>> <=> Count(g, r) = 0)
       /\ g[r].leaf = FALSE => (g[r].keys = <<>> <=> Count(g, r) = 0)
  <2>1. CASE IsLeaf(g[r]) /\ g[r].leaf = TRUE
    <3>1. g[r].data \in Seq(Keys \X Values)
      BY <2>1 DEF IsLeaf
    <3>2. g[r].data = <<>> <=> Len(g[r].data) = 0
      BY <3>1, EmptySeq
    <3> QED BY <2>1, <3>2 DEF Count, Size
  <2>2. CASE IsInternal(g[r], DOMAIN g) /\ g[r].leaf = FALSE
    <3>1. g[r].keys \in Seq(Int)
      BY <2>2 DEF IsInternal
    <3>2. g[r].keys = <<>> <=> Len(g[r].keys) = 0
      BY <3>1, EmptySeq
    <3> QED BY <2>2, <3>2 DEF Count, Size
  <2> QED BY <1>9, <2>1, <2>2, NodeKind
<1>14. CASE Count(g, r) # 0
  <2>1. Erased(t, k).heap = g /\ Erased(t, k).root = r
    BY <1>12, <1>13, <1>14
  <2>2. Sized(g, r, 1 .. MaxRootKeys)
    <3>1. Count(g, r) \in 1 .. MaxRootKeys
      BY <1>10, <1>14
    <3> QED BY <1>8, <1>14, <3>1 DEF Sized, OnlyChild
  <2>3. Sound(g, r, E2, 1 .. MaxRootKeys, linked)
    BY <1>8, <1>17, <2>2 DEF Sound
  <2> QED BY <1>9, <1>11, <2>1, <2>3 DEF Whole, E2
<1>15. CASE Count(g, r) = 0 /\ g[r].leaf = TRUE
  <2>1. Erased(t, k).heap = Without(g, r) /\ Erased(t, k).root = Null
    BY <1>12, <1>13, <1>15
  <2>2. ht2[r] = 0
    BY <1>9, <1>15, Kind
  <2>3. \A q \in DOMAIN g : q = r
    <3>1. \A q \in DOMAIN g : ht2[q] \in Nat /\ (q # r => ht2[q] < ht2[r])
      BY <1>8, <1>9, Kind DEF RootedAt
    <3> QED BY <2>2, <3>1
  <2>4. DOMAIN Without(g, r) = {} /\ IsHeap(Without(g, r))
    <3>1. Without(g, r) = [q \in {} |-> g[q]]
      BY <2>3 DEF Without
    <3>2. DOMAIN Without(g, r) = {} /\ Without(g, r) = [q \in {} |-> Without(g, r)[q]]
      BY <3>1
    <3> QED BY <3>2, FS_EmptySet DEF IsHeap
  <2>5. E2 = {}
    <3>1. Len(g[r].data) = 0
      BY <1>9, <1>15, Counts
    <3>2. Entries(g) = {}
      BY <2>3, <3>1 DEF Entries
    <3> QED BY <1>8, <3>2
  <2> QED BY <2>1, <2>4, <2>5 DEF Whole, E2
<1>16. CASE Count(g, r) = 0 /\ g[r].leaf = FALSE
  <2>1. Erased(t, k).heap = Without(g, r) /\ Erased(t, k).root = g[r].kids[1]
    BY <1>12, <1>13, <1>16
  <2>2. Sound(Without(g, r), g[r].kids[1], E2, 1 .. MaxRootKeys, linked)
    BY <1>8, <1>16, <1>17, ChildIsRoot
  <2>3. IsHeap(Without(g, r)) /\ g[r].kids[1] # Null
    <3>1. PICK ht3, iv3 : RootedAt(Without(g, r), g[r].kids[1], ht3, iv3)
      BY <2>2 DEF Sound
    <3> QED BY <3>1 DEF RootedAt, Tree, IsHeap, Null
  <2> QED BY <2>1, <2>2, <2>3 DEF Whole, E2
<1> QED BY <1>13, <1>14, <1>15, <1>16

\* The first node.
LEMMA FirstIsSound ==
  ASSUME NEW h, DOMAIN h = {}, NEW p \in Nat \ {0}, NEW k \in Keys, NEW v \in Values, NEW linked
  PROVE  Sound(Put(h, p, Leaf(Null, <<>>, <<<<k, v>>>>)), p, {<<k, v>>}, 1 .. MaxRootKeys + 1, linked)
<1> DEFINE s == <<<<k, v>>>>
           n == Leaf(Null, <<>>, s)
           g == Put(h, p, n)
           ht == [q \in {p} |-> 0]
           iv == [q \in {p} |-> Int]
<1>1. k \in Int /\ s \in Seq(Keys \X Values) /\ Len(s) = 1 /\ s[1] = <<k, v>>
  BY TreeAssumption
<1>2. DOMAIN g = {p} /\ g = [q \in {p} |-> g[q]] /\ g[p] = n
  BY DEF Put
<1> HIDE DEF s
<1>3. LeafIs(n, s)
  BY <1>1, LeafNodeIs
<1> HIDE DEF g, n
<1>4. ht[p] = 0 /\ iv[p] = Int /\ DOMAIN ht = {p} /\ DOMAIN iv = {p}
  OBVIOUS
<1>5. IsHeap(g)
  BY <1>2, FS_Singleton DEF IsHeap
<1>6. Ranges(g, ht, iv)
  <2>1. ht \in [{p} -> Nat] /\ iv \in [{p} -> SUBSET Int]
    OBVIOUS
  <2>2. Int # {} /\ Convex(Int)
    BY DEF Convex
  <2> QED BY <1>2, <1>4, <2>1, <2>2 DEF Ranges
<1>7. Apart(ht, iv)
  BY <1>4 DEF Apart
<1> HIDE DEF ht, iv
<1>8. LeafFits(g, ht, iv, p)
  <2>1. DataFits(s, Int)
    BY <1>1 DEF DataFits
  <2> QED BY <1>2, <1>3, <1>4, <2>1 DEF LeafFits, LeafIs
<1>9. Tree(g, ht, iv)
  BY <1>2, <1>5, <1>6, <1>7, <1>8 DEF Tree
<1>10. RootedAt(g, p, ht, iv)
  BY <1>2, <1>4, <1>9 DEF RootedAt
<1>11. Sized(g, p, 1 .. MaxRootKeys + 1)
  <2>1. Count(g, p) = 1
    BY <1>1, <1>2, <1>3 DEF Count, LeafIs
  <2>2. 1 \in 1 .. MaxRootKeys + 1
    BY Limits
  <2> QED BY <1>2, <2>1, <2>2 DEF Sized
<1>12. Entries(g) = {<<k, v>>}
  <2>1. g[p].leaf = TRUE /\ g[p].data = s
    BY <1>2, <1>3 DEF LeafIs
  <2>2. <<k, v>> \in Keys \X Values
    OBVIOUS
  <2> QED BY <1>1, <1>2, <2>1, <2>2, SMTT(40) DEF Entries
<1>13. Sound(g, p, {<<k, v>>}, 1 .. MaxRootKeys + 1, linked)
  <2>1. g[p].copies = <<>> /\ g[p].next = Null
    BY <1>2 DEF n, Leaf
  <2>2. Top(iv[p])
    BY <1>4 DEF Top
  <2>3. Chained(g, iv)
    BY <1>2, <2>1, <2>2 DEF Chained, Follows
  <2> QED BY <1>10, <1>11, <1>12, <2>3 DEF Sound
<1> QED BY <1>13 DEF g, n, s

LEMMA InsertIsWhole ==
  ASSUME NEW t, NEW E, NEW linked, Whole(t, E, linked), NEW k \in Keys, NEW v \in Values, Absent(E, k)
  PROVE  Whole(Inserted(t, k, v), WithEntry(E, k, v), linked)
<1> DEFINE first == Fresh(t.heap)
           E2 == WithEntry(E, k, v)
           grown ==
             IF t.root = Null
             THEN [heap |-> Put(t.heap, first, Leaf(Null, <<>>, <<<<k, v>>>>)),
                   root |-> first, size |-> t.size + 1]
             ELSE [heap |-> InsertInto(t.heap, k, v)[t.root],
                   root |-> t.root, size |-> t.size + 1]
           u == Inserted(t, k, v)
<1>1. Sound(grown.heap, grown.root, E2, 1 .. MaxRootKeys + 1, linked)
  <2>1. CASE t.root = Null
    <3>1. DOMAIN t.heap = {} /\ E = {} /\ first \in Nat \ {0}
      BY <2>1, FreshNode DEF Whole
    <3>2. E2 = {<<k, v>>}
      BY <3>1 DEF WithEntry
    <3>3. grown.heap = Put(t.heap, first, Leaf(Null, <<>>, <<<<k, v>>>>)) /\ grown.root = first
      BY <2>1
    <3> HIDE DEF grown, first, E2
    <3>4. Sound(Put(t.heap, first, Leaf(Null, <<>>, <<<<k, v>>>>)), first, {<<k, v>>}, 1 .. MaxRootKeys + 1, linked)
      BY <3>1, FirstIsSound
    <3> QED BY <3>2, <3>3, <3>4
  <2>2. CASE t.root # Null
    <3>1. Sound(t.heap, t.root, E, 1 .. MaxRootKeys, linked)
      BY <2>2 DEF Whole
    <3>2. Sound(InsertInto(t.heap, k, v)[t.root], t.root, E2, 1 .. MaxRootKeys + 1, linked)
      BY <3>1, InsertIsSound
    <3> HIDE DEF E2
    <3> QED BY <2>2, <3>2
  <2> QED BY <2>1, <2>2
<1>2. u = IF Count(grown.heap, grown.root) > MaxRootKeys THEN SplitRoot(grown) ELSE grown
  BY DEF Inserted
<1> HIDE DEF grown, u, E2
<1>3. PICK ht, iv :
        /\ RootedAt(grown.heap, grown.root, ht, iv)
        /\ Sized(grown.heap, grown.root, 1 .. MaxRootKeys + 1) /\ Entries(grown.heap) = E2
        /\ linked => Chained(grown.heap, iv)
  BY <1>1 DEF Sound
<1>4. Count(grown.heap, grown.root) \in 1 .. MaxRootKeys + 1 /\ MaxRootKeys \in Nat
  BY <1>3, Limits DEF Sized
<1>5. Sound(u.heap, u.root, E2, 1 .. MaxRootKeys, linked)
  <2>1. CASE Count(grown.heap, grown.root) > MaxRootKeys
    <3>1. Count(grown.heap, grown.root) \in {MaxRootKeys + 1}
      BY <1>4, <2>1
    <3>2. Sized(grown.heap, grown.root, {MaxRootKeys + 1})
      BY <1>3, <3>1 DEF Sized
    <3>3. Sound(grown.heap, grown.root, E2, {MaxRootKeys + 1}, linked)
      BY <1>3, <3>2 DEF Sound
    <3> QED BY <1>2, <2>1, <3>3, SplitRootIsSound
  <2>2. CASE ~(Count(grown.heap, grown.root) > MaxRootKeys)
    <3>1. Count(grown.heap, grown.root) \in 1 .. MaxRootKeys
      BY <1>4, <2>2
    <3>2. Sized(grown.heap, grown.root, 1 .. MaxRootKeys)
      BY <1>3, <3>1 DEF Sized
    <3> QED BY <1>2, <1>3, <2>2, <3>2 DEF Sound
  <2> QED BY <2>1, <2>2
<1>6. IsHeap(u.heap) /\ u.root # Null
  <2>1. PICK ht2, iv2 : RootedAt(u.heap, u.root, ht2, iv2)
    BY <1>5 DEF Sound
  <2> QED BY <2>1 DEF RootedAt, Tree, IsHeap, Null
<1>7. Whole(u, E2, linked)
  BY <1>5, <1>6 DEF Whole
<1> QED BY <1>7 DEF u, E2

-----------------------------------------------------------------------------
(* All nodes below one *)

Kids(h, ht, p, T) ==
  /\ T = {h[p].kids[i] : i \in 1 .. Len(h[p].kids)} /\ h[p].kids[1] \in T
  /\ \A q \in T : q \in DOMAIN h /\ ht[q] = ht[p] - 1

LEMMA KidsOf ==
  ASSUME NEW h, NEW ht, NEW iv, Tree(h, ht, iv), NEW p \in DOMAIN h, h[p].leaf = FALSE
  PROVE  Kids(h, ht, p, ToSet(h[p].kids))
<1>1. InternalFits(h, ht, iv, p)
  BY Kind
<1>2. Parent(h, ht, iv, p) /\ Children(h, ht, iv, p)
  BY <1>1, Family
<1>3. h[p].kids \in Seq(DOMAIN h) /\ Len(h[p].kids) = Len(h[p].keys) + 1 /\ Len(h[p].keys) \in Nat
  BY <1>2 DEF Parent
<1>4. ToSet(h[p].kids) = {h[p].kids[i] : i \in 1 .. Len(h[p].kids)}
  BY <1>3, SetOf
<1>5. \A i \in 1 .. Len(h[p].kids) :
        h[p].kids[i] \in DOMAIN h /\ ht[h[p].kids[i]] = ht[p] - 1
  BY <1>2 DEF Children
<1>6. 1 \in 1 .. Len(h[p].kids)
  BY <1>3
<1> QED BY <1>4, <1>5, <1>6 DEF Kids

ReachStep(h, f, p) ==
  IF h[p].leaf THEN {p} ELSE {p} \cup UNION {f[q] : q \in ToSet(h[p].kids)}

ReachTo(h, ht, n, f) == f = [p \in {q \in DOMAIN h : ht[q] <= n} |-> ReachStep(h, f, p)]

LEMMA ReachEquation ==
  ASSUME NEW h, NEW ht, NEW iv, Tree(h, ht, iv),
         NEW N \in Nat, \A q \in DOMAIN h : ht[q] <= N
  PROVE  \A p \in DOMAIN h : Reached(h)[p] = ReachStep(h, Reached(h), p)
<1> DEFINE D(n) == {p \in DOMAIN h : ht[p] <= n}
           S == {n \in Nat : \E f : ReachTo(h, ht, n, f)}
<1>1. \A p \in DOMAIN h : ht[p] \in Nat
  BY Kind
<1>2. \A p \in DOMAIN h : h[p].leaf = FALSE =>
        \A q \in ToSet(h[p].kids) : q \in DOMAIN h /\ ht[q] = ht[p] - 1
  <2> TAKE p \in DOMAIN h
  <2> SUFFICES ASSUME h[p].leaf = FALSE
               PROVE  \A q \in ToSet(h[p].kids) : q \in DOMAIN h /\ ht[q] = ht[p] - 1
    OBVIOUS
  <2>1. Kids(h, ht, p, ToSet(h[p].kids))
    BY KidsOf
  <2> QED BY <2>1 DEF Kids
<1>3. \A p \in DOMAIN h : \/ h[p].leaf = TRUE
                          \/ h[p].leaf = FALSE /\ ht[p] > 0
  BY NodeKind
<1>4. 0 \in S
  <2> DEFINE f == [p \in D(0) |-> {p}]
  <2>1. \A p \in D(0) : h[p].leaf = TRUE
    BY <1>1, <1>3
  <2>2. \A p \in D(0) : ReachStep(h, f, p) = {p}
    BY <2>1 DEF ReachStep
  <2>3. ReachTo(h, ht, 0, f)
    BY <2>2 DEF ReachTo
  <2> QED BY <2>3
<1>5. ASSUME NEW n \in Nat, n \in S PROVE n + 1 \in S
  <2>1. PICK f : ReachTo(h, ht, n, f)
    BY <1>5
  <2> DEFINE g == [p \in D(n + 1) |-> ReachStep(h, f, p)]
  <2>2. \A p \in D(n) : p \in D(n + 1)
    BY <1>1
  <2>3. DOMAIN g = D(n + 1) /\ \A p \in D(n + 1) : g[p] = ReachStep(h, f, p)
    OBVIOUS
  <2>4. \A p \in D(n) : f[p] = ReachStep(h, f, p)
    BY <2>1 DEF ReachTo
  <2>5. g = [p \in D(n + 1) |-> g[p]]
    OBVIOUS
  <2> HIDE DEF g
  <2>6. ASSUME NEW p \in D(n + 1) PROVE ReachStep(h, g, p) = ReachStep(h, f, p)
    <3>1. CASE h[p].leaf = TRUE
      BY <3>1 DEF ReachStep
    <3>2. CASE h[p].leaf = FALSE
      <4> DEFINE T == ToSet(h[p].kids)
      <4>1. \A q \in T : q \in D(n)
        BY <1>1, <1>2, <3>2
      <4>2. \A q \in T : g[q] = f[q]
        BY <2>2, <2>3, <2>4, <4>1
      <4> HIDE DEF T
      <4>3. UNION {g[q] : q \in T} = UNION {f[q] : q \in T}
        BY <4>2
      <4> QED BY <3>2, <4>3 DEF ReachStep, T
    <3> QED BY <1>3, <3>1, <3>2
  <2>7. \A p \in D(n + 1) : g[p] = ReachStep(h, g, p)
    BY <2>3, <2>6
  <2>8. ReachTo(h, ht, n + 1, g)
    BY <2>5, <2>7 DEF ReachTo
  <2> QED BY <2>8
<1>6. N \in S
  <2> HIDE DEF S
  <2>1. Nat \subseteq S
    BY <1>4, <1>5, Induction
  <2> QED BY <2>1
<1>7. PICK f : ReachTo(h, ht, N, f)
  BY <1>6
<1>8. D(N) = DOMAIN h
  OBVIOUS
<1>9. \E f2 : f2 = [p \in DOMAIN h |->
                     IF h[p].leaf THEN {p} ELSE {p} \cup UNION {f2[q] : q \in ToSet(h[p].kids)}]
  BY <1>7, <1>8 DEF ReachStep, ReachTo
<1>10. Reached(h) = [p \in DOMAIN h |->
                     IF h[p].leaf THEN {p} ELSE {p} \cup UNION {Reached(h)[q] : q \in ToSet(h[p].kids)}]
  BY <1>9 DEF Reached
<1> QED BY <1>10 DEF ReachStep

BelowStep(h, f, p) ==
  IF h[p].leaf THEN {0} ELSE {d + 1 : d \in UNION {f[q] : q \in ToSet(h[p].kids)}}

BelowTo(h, ht, n, f) == f = [p \in {q \in DOMAIN h : ht[q] <= n} |-> BelowStep(h, f, p)]

LEMMA BelowEquation ==
  ASSUME NEW h, NEW ht, NEW iv, Tree(h, ht, iv),
         NEW N \in Nat, \A q \in DOMAIN h : ht[q] <= N
  PROVE  \A p \in DOMAIN h : Below(h)[p] = BelowStep(h, Below(h), p)
<1> DEFINE D(n) == {p \in DOMAIN h : ht[p] <= n}
           S == {n \in Nat : \E f : BelowTo(h, ht, n, f)}
<1>1. \A p \in DOMAIN h : ht[p] \in Nat
  BY Kind
<1>2. \A p \in DOMAIN h : h[p].leaf = FALSE =>
        \A q \in ToSet(h[p].kids) : q \in DOMAIN h /\ ht[q] = ht[p] - 1
  <2> TAKE p \in DOMAIN h
  <2> SUFFICES ASSUME h[p].leaf = FALSE
               PROVE  \A q \in ToSet(h[p].kids) : q \in DOMAIN h /\ ht[q] = ht[p] - 1
    OBVIOUS
  <2>1. Kids(h, ht, p, ToSet(h[p].kids))
    BY KidsOf
  <2> QED BY <2>1 DEF Kids
<1>3. \A p \in DOMAIN h : \/ h[p].leaf = TRUE
                          \/ h[p].leaf = FALSE /\ ht[p] > 0
  BY NodeKind
<1>4. 0 \in S
  <2> DEFINE f == [p \in D(0) |-> {0}]
  <2>1. \A p \in D(0) : h[p].leaf = TRUE
    BY <1>1, <1>3
  <2>2. \A p \in D(0) : BelowStep(h, f, p) = {0}
    BY <2>1 DEF BelowStep
  <2>3. BelowTo(h, ht, 0, f)
    BY <2>2 DEF BelowTo
  <2> QED BY <2>3
<1>5. ASSUME NEW n \in Nat, n \in S PROVE n + 1 \in S
  <2>1. PICK f : BelowTo(h, ht, n, f)
    BY <1>5
  <2> DEFINE g == [p \in D(n + 1) |-> BelowStep(h, f, p)]
  <2>2. \A p \in D(n) : p \in D(n + 1)
    BY <1>1
  <2>3. DOMAIN g = D(n + 1) /\ \A p \in D(n + 1) : g[p] = BelowStep(h, f, p)
    OBVIOUS
  <2>4. \A p \in D(n) : f[p] = BelowStep(h, f, p)
    BY <2>1 DEF BelowTo
  <2>5. g = [p \in D(n + 1) |-> g[p]]
    OBVIOUS
  <2> HIDE DEF g
  <2>6. ASSUME NEW p \in D(n + 1) PROVE BelowStep(h, g, p) = BelowStep(h, f, p)
    <3>1. CASE h[p].leaf = TRUE
      BY <3>1 DEF BelowStep
    <3>2. CASE h[p].leaf = FALSE
      <4> DEFINE T == ToSet(h[p].kids)
      <4>1. \A q \in T : q \in D(n)
        BY <1>1, <1>2, <3>2
      <4>2. \A q \in T : g[q] = f[q]
        BY <2>2, <2>3, <2>4, <4>1
      <4> HIDE DEF T
      <4>3. UNION {g[q] : q \in T} = UNION {f[q] : q \in T}
        BY <4>2
      <4> QED BY <3>2, <4>3 DEF BelowStep, T
    <3> QED BY <1>3, <3>1, <3>2
  <2>7. \A p \in D(n + 1) : g[p] = BelowStep(h, g, p)
    BY <2>3, <2>6
  <2>8. BelowTo(h, ht, n + 1, g)
    BY <2>5, <2>7 DEF BelowTo
  <2> QED BY <2>8
<1>6. N \in S
  <2> HIDE DEF S
  <2>1. Nat \subseteq S
    BY <1>4, <1>5, Induction
  <2> QED BY <2>1
<1>7. PICK f : BelowTo(h, ht, N, f)
  BY <1>6
<1>8. D(N) = DOMAIN h
  OBVIOUS
<1>9. \E f2 : f2 = [p \in DOMAIN h |->
                     IF h[p].leaf THEN {0} ELSE {d + 1 : d \in UNION {f2[q] : q \in ToSet(h[p].kids)}}]
  BY <1>7, <1>8 DEF BelowStep, BelowTo
<1>10. Below(h) = [p \in DOMAIN h |->
                     IF h[p].leaf THEN {0} ELSE {d + 1 : d \in UNION {Below(h)[q] : q \in ToSet(h[p].kids)}}]
  BY <1>9 DEF Below
<1> QED BY <1>10 DEF BelowStep

\* All leaves below p are as deep as p is high.
LEMMA AllAsDeep ==
  ASSUME NEW h, NEW ht, NEW iv, Tree(h, ht, iv), NEW N \in Nat, \A q \in DOMAIN h : ht[q] <= N
  PROVE  \A p \in DOMAIN h : Below(h)[p] = {ht[p]}
<1> DEFINE S == {n \in Nat : \A p \in DOMAIN h : ht[p] = n => Below(h)[p] = {ht[p]}}
           B == Below(h)
<1>1. \A p \in DOMAIN h : B[p] = BelowStep(h, B, p)
  BY BelowEquation
<1>2. \A p \in DOMAIN h : ht[p] \in Nat
  BY Kind
<1>3. \A p \in DOMAIN h : \/ h[p].leaf = TRUE /\ ht[p] = 0
                          \/ h[p].leaf = FALSE /\ ht[p] > 0
  BY NodeKind
<1> HIDE DEF B
<1>4. \A p \in DOMAIN h : ht[p] = 0 => B[p] = {ht[p]}
  <2> TAKE p \in DOMAIN h
  <2> SUFFICES ASSUME ht[p] = 0 PROVE B[p] = {0}
    OBVIOUS
  <2>1. h[p].leaf = TRUE
    BY <1>3
  <2>2. B[p] = BelowStep(h, B, p)
    BY <1>1
  <2> QED BY <2>1, <2>2 DEF BelowStep
<1>5. ASSUME NEW n \in Nat, n \in S PROVE n + 1 \in S
  <2> SUFFICES \A p \in DOMAIN h : ht[p] = n + 1 => B[p] = {n + 1}
    BY DEF B
  <2> TAKE p \in DOMAIN h
  <2> SUFFICES ASSUME ht[p] = n + 1 PROVE B[p] = {n + 1}
    OBVIOUS
  <2> DEFINE T == ToSet(h[p].kids)
  <2>1. h[p].leaf = FALSE
    BY <1>3
  <2> HIDE DEF T
  <2>7. Kids(h, ht, p, T)
    BY <2>1, KidsOf DEF T
  <2>8. (n + 1) - 1 = n
    OBVIOUS
  <2>9. \A q \in T : q \in DOMAIN h /\ ht[q] = ht[p] - 1
    BY <2>7 DEF Kids
  <2>2. h[p].kids[1] \in T /\ \A q \in T : q \in DOMAIN h /\ ht[q] = n
    <3>1. h[p].kids[1] \in T
      BY <2>7 DEF Kids
    <3> QED BY <2>8, <2>9, <3>1
  <2>3. B[p] = {d + 1 : d \in UNION {B[q] : q \in T}}
    BY <1>1, <2>1 DEF BelowStep, T
  <2>4. \A q \in T : B[q] = {n}
    BY <1>5, <2>2 DEF B
  <2>5. UNION {B[q] : q \in T} = {n}
    BY <2>2, <2>4
  <2> QED BY <2>3, <2>5
<1>6. 0 \in S
  BY <1>4 DEF B
<1> HIDE DEF S
<1>7. Nat \subseteq S
  BY <1>5, <1>6, Induction
<1> QED BY <1>2, <1>7 DEF S

\* What is reached from p: nodes, with all their children, and every leaf that a
\* descent from p ends in.
ReachesAll(h, iv, p) ==
  /\ p \in Reached(h)[p] /\ Reached(h)[p] \subseteq DOMAIN h
  /\ \A q \in Reached(h)[p] : h[q].leaf = FALSE =>
       \A i \in 1 .. Len(h[q].kids) : h[q].kids[i] \in Reached(h)[p]
  /\ \A k \in iv[p] : Down(h, k)[p] \in Reached(h)[p]

LEMMA Reaches ==
  ASSUME NEW h, NEW ht, NEW iv, Tree(h, ht, iv), NEW N \in Nat, \A q \in DOMAIN h : ht[q] <= N
  PROVE  \A p \in DOMAIN h : ReachesAll(h, iv, p)
<1> DEFINE S == {n \in Nat : \A p \in DOMAIN h : ht[p] = n => ReachesAll(h, iv, p)}
           R == Reached(h)
<1>1. \A p \in DOMAIN h : R[p] = ReachStep(h, R, p)
  BY ReachEquation
<1>2. \A k \in Int : \A p \in DOMAIN h : Down(h, k)[p] = DownStep(h, k, Down(h, k), p)
  BY DownEquation
<1>3. \A p \in DOMAIN h : ht[p] \in Nat /\ iv[p] \subseteq Int
  BY Kind
<1>4. \A p \in DOMAIN h : \/ h[p].leaf = TRUE /\ ht[p] = 0
                          \/ h[p].leaf = FALSE /\ ht[p] > 0
  BY NodeKind
<1> HIDE DEF R
<1>5. \A p \in DOMAIN h : ht[p] = 0 => ReachesAll(h, iv, p)
  <2> TAKE p \in DOMAIN h
  <2> SUFFICES ASSUME ht[p] = 0 PROVE ReachesAll(h, iv, p)
    OBVIOUS
  <2>1. h[p].leaf = TRUE
    BY <1>4
  <2>3. R[p] = ReachStep(h, R, p)
    BY <1>1
  <2>4. R[p] = {p}
    BY <2>1, <2>3 DEF ReachStep
  <2>2. \A k \in iv[p] : Down(h, k)[p] = p
    BY <1>2, <1>3, <2>1 DEF DownStep
  <2> QED BY <2>1, <2>2, <2>4 DEF ReachesAll, R
<1>6. ASSUME NEW n \in Nat, n \in S PROVE n + 1 \in S
  <2> SUFFICES \A p \in DOMAIN h : ht[p] = n + 1 => ReachesAll(h, iv, p)
    OBVIOUS
  <2> TAKE p \in DOMAIN h
  <2> SUFFICES ASSUME ht[p] = n + 1 PROVE ReachesAll(h, iv, p)
    OBVIOUS
  <2> DEFINE T == ToSet(h[p].kids)
  <2>1. h[p].leaf = FALSE
    BY <1>4
  <2> HIDE DEF T
  <2>8. Kids(h, ht, p, T)
    BY <2>1, KidsOf DEF T
  <2>9. (n + 1) - 1 = n
    OBVIOUS
  <2>10. \A q \in T : q \in DOMAIN h /\ ht[q] = ht[p] - 1
    BY <2>8 DEF Kids
  <2>11. T = {h[p].kids[i] : i \in 1 .. Len(h[p].kids)}
    BY <2>8 DEF Kids
  <2>2. T = {h[p].kids[i] : i \in 1 .. Len(h[p].kids)} /\ \A q \in T : q \in DOMAIN h /\ ht[q] = n
    BY <2>9, <2>10, <2>11
  <2>3. R[p] = {p} \cup UNION {R[q] : q \in T}
    BY <1>1, <2>1 DEF ReachStep, T
  <2>4. \A q \in T : ReachesAll(h, iv, q)
    BY <1>6, <2>2
  <2>5. p \in R[p] /\ R[p] \subseteq DOMAIN h
    BY <2>3, <2>4 DEF ReachesAll, R
  <2>6. ASSUME NEW q \in R[p], h[q].leaf = FALSE, NEW i \in 1 .. Len(h[q].kids)
        PROVE  h[q].kids[i] \in R[p]
    <3>1. CASE q = p
      <4>1. h[p].kids[i] \in T
        BY <2>2, <2>6, <3>1
      <4>2. h[p].kids[i] \in R[h[p].kids[i]]
        BY <2>4, <4>1 DEF ReachesAll, R
      <4> QED BY <2>3, <3>1, <4>1, <4>2
    <3>2. CASE q # p
      <4>1. PICK c \in T : q \in R[c]
        BY <2>3, <2>6, <3>2
      <4>2. h[q].kids[i] \in R[c]
        BY <2>4, <2>6, <4>1 DEF ReachesAll, R
      <4> QED BY <2>3, <4>1, <4>2
    <3> QED BY <3>1, <3>2
  <2>7. ASSUME NEW k \in iv[p] PROVE Down(h, k)[p] \in R[p]
    <3> DEFINE u == UpperIndex(h[p], k)
               c == h[p].kids[u]
    <3>1. k \in Int
      BY <1>3
    <3>2. Way(h, ht, iv, p, k, u)
      BY <2>1, <3>1, Descends
    <3>3. Down(h, k)[p] = Down(h, k)[c]
      BY <1>2, <2>1, <3>1 DEF DownStep
    <3> HIDE DEF u
    <3>4. c \in T /\ k \in iv[c]
      BY <2>2, <3>2 DEF Way
    <3> HIDE DEF c
    <3>5. Down(h, k)[c] \in R[c]
      BY <2>4, <3>4 DEF ReachesAll, R
    <3> QED BY <2>3, <3>3, <3>4, <3>5
  <2> QED BY <2>5, <2>6, <2>7 DEF ReachesAll, R
<1>7. 0 \in S
  BY <1>5
<1> HIDE DEF S
<1>8. Nat \subseteq S
  BY <1>6, <1>7, Induction
<1> QED BY <1>3, <1>8 DEF S

-----------------------------------------------------------------------------
(* A value assigned, the tree read back *)

LEMMA AssignIsSound ==
  ASSUME NEW t, NEW E, NEW linked, Sound(t.heap, t.root, E, 1 .. MaxRootKeys, linked),
         NEW k \in Keys, NEW v \in Values, ~Absent(E, k)
  PROVE  Sound(Assigned(t, k, v).heap, t.root, WithEntry(WithoutKey(E, k), k, v), 1 .. MaxRootKeys, linked)
<1> DEFINE h == t.heap
           r == t.root
           p == LeafFor(t, k)
           node == h[p]
           n == WithData(node, [node.data EXCEPT ![KeyIndex(node, k)] =
                                                   <<node.data[KeyIndex(node, k)][1], v>>])
           g == [h EXCEPT ![p] = n]
           E2 == WithEntry(WithoutKey(E, k), k, v)
<1>1. PICK ht, iv :
        /\ RootedAt(h, r, ht, iv) /\ Sized(h, r, 1 .. MaxRootKeys) /\ Entries(h) = E
        /\ linked => Chained(h, iv)
  BY DEF Sound
<1>2. /\ Tree(h, ht, iv) /\ r \in DOMAIN h /\ iv[r] = Int /\ k \in Int
      /\ \A q \in DOMAIN h : q # r => ht[q] < ht[r]
  BY <1>1, TreeAssumption DEF RootedAt
<1>3. Assigned(t, k, v).heap = g
  <2>1. Assigned(t, k, v) = [heap |-> g, root |-> t.root, size |-> t.size]
    BY DEF Assigned
  <2> HIDE DEF g
  <2> QED BY <2>1
<1>4. DownFinds(h, ht, iv, k, r)
  <2>1. ht[r] \in Nat /\ \A q \in DOMAIN h : ht[q] <= ht[r]
    BY <1>1, Heights
  <2> HIDE DEF h, r
  <2> QED BY <1>2, <2>1, Finds
<1>5. p \in DOMAIN h /\ h[p].leaf = TRUE /\ k \in iv[p]
  BY <1>2, <1>4 DEF DownFinds, LeafFor
<1> HIDE DEF h, r, p
<1>6. LeafFits(h, ht, iv, p) /\ iv[p] \subseteq Int
  BY <1>2, <1>5, Kind
<1>7. IsLeaf(node) /\ node.leaf = TRUE /\ DataFits(node.data, iv[p])
  BY <1>5, <1>6 DEF LeafFits
<1>8. \A e \in Keys \X Values : e[1] \in iv[p] => (e \in Entries(h) <=> Holds(node.data, e))
  BY <1>2, <1>5, LeafEntries
<1>9. PICK e0 \in E : e0[1] = k
  BY DEF Absent
<1>10. Holds(node.data, e0)
  <2>1. e0 \in Keys \X Values
    BY <1>1 DEF Entries
  <2> QED BY <1>1, <1>5, <1>8, <1>9, <2>1
<1> HIDE DEF node
<1>11. EntryAssigned(node, n, iv[p], k, v)
  <2> DEFINE I == iv[p]
  <2>1. I \subseteq Int /\ DataFits(node.data, I)
    BY <1>6, <1>7
  <2> HIDE DEF I
  <2>2. EntryAssigned(node, n, I, k, v)
    BY <1>7, <1>9, <1>10, <2>1, AssignsEntry
  <2> QED BY <2>2 DEF I
<1>19. SameLinks(n, h[p])
  BY WithDataLinks DEF node
<1> HIDE DEF n
<1>12. Replaced(h, ht, iv, g, p, n)
  BY <1>2, <1>5, <1>11, <1>19, ReplacesLeaf DEF EntryAssigned
<1> HIDE DEF g
<1>13. /\ Tree(g, ht, iv) /\ DOMAIN g = DOMAIN h
       /\ g[p] = n /\ \A q \in DOMAIN h : q # p => g[q] = h[q]
  BY <1>12 DEF Replaced
<1>14. RootedAt(g, r, ht, iv)
  BY <1>2, <1>13 DEF RootedAt
<1>15. Sized(g, r, 1 .. MaxRootKeys)
  <2>1. Count(g, p) = Count(h, p)
    BY <1>11, <1>13 DEF Count, EntryAssigned, node
  <2>2. \A q \in DOMAIN h : Count(g, q) = Count(h, q)
    BY <1>13, <2>1 DEF Count
  <2> QED BY <1>1, <1>2, <1>13, <2>2 DEF Sized
<1>16. ASSUME NEW e \in Keys \X Values PROVE e \in Entries(g) <=> e \in E2
  <2>1. CASE e[1] \in iv[p]
    <3>1. e \in Entries(g) <=> Holds(n.data, e)
      BY <1>12, <2>1 DEF Replaced
    <3>2. Holds(n.data, e) <=> (e = <<k, v>> \/ (Holds(node.data, e) /\ e[1] # k))
      BY <1>11 DEF EntryAssigned
    <3> QED BY <1>1, <1>8, <2>1, <3>1, <3>2 DEF WithEntry, WithoutKey
  <2>2. CASE e[1] \notin iv[p]
    <3>1. e \in Entries(g) <=> e \in Entries(h)
      BY <1>12, <2>2 DEF Replaced
    <3>2. e # <<k, v>> /\ e[1] # k
      BY <1>5, <2>2
    <3> QED BY <1>1, <3>1, <3>2 DEF WithEntry, WithoutKey
  <2> QED BY <2>1, <2>2
<1>17. Entries(g) = E2
  <2>1. Entries(g) \subseteq Keys \X Values /\ E \subseteq Keys \X Values
    BY <1>1 DEF Entries
  <2>2. E2 \subseteq Keys \X Values
    BY <2>1 DEF WithEntry, WithoutKey
  <2> HIDE DEF E2
  <2> QED BY <1>16, <2>1, <2>2
<1>18. Sound(g, r, E2, 1 .. MaxRootKeys, linked)
  BY <1>1, <1>12, <1>14, <1>15, <1>17 DEF Sound, Replaced, KeepsChain
<1> QED BY <1>3, <1>18 DEF r

\* The nodes that are saved and read back are all the tree has.
LEMMA ReloadIsSound ==
  ASSUME NEW t, NEW E, NEW linked, t.root # Null, Sound(t.heap, t.root, E, 1 .. MaxRootKeys, linked)
  PROVE  Sound(Reloaded(t).heap, t.root, E, 1 .. MaxRootKeys, FALSE)
<1> DEFINE h == t.heap
           r == t.root
           D == Reached(h)[r]
           copy(p) == Tail(ChainFrom(t, p))
           g == [p \in D |-> IF h[p].leaf THEN Leaf(Null, copy(p), h[p].data) ELSE h[p]]
<1>1. PICK ht, iv :
        /\ RootedAt(h, r, ht, iv) /\ Sized(h, r, 1 .. MaxRootKeys) /\ Entries(h) = E
        /\ linked => Chained(h, iv)
  BY DEF Sound
<1>2. /\ Tree(h, ht, iv) /\ r \in DOMAIN h /\ iv[r] = Int
      /\ \A q \in DOMAIN h : q # r => ht[q] < ht[r]
  BY <1>1 DEF RootedAt
<1>3. Reloaded(t).heap = g
  BY DEF Reloaded
<1>4. ht[r] \in Nat /\ \A q \in DOMAIN h : ht[q] <= ht[r]
  BY <1>1, Heights
<1> HIDE DEF h, r, copy
<1>5. ReachesAll(h, iv, r)
  BY <1>2, <1>4, Reaches
<1>6. /\ r \in D /\ D \subseteq DOMAIN h
      /\ \A q \in D : h[q].leaf = FALSE =>
           \A i \in 1 .. Len(h[q].kids) : h[q].kids[i] \in D
      /\ \A k \in Int : Down(h, k)[r] \in D
  BY <1>2, <1>5 DEF ReachesAll
<1> HIDE DEF D
<1>7. DOMAIN g = D /\ g = [q \in D |-> g[q]]
  OBVIOUS
<1>8. ASSUME NEW q \in D, h[q].leaf = FALSE PROVE g[q] = h[q]
  BY <1>8
<1>9. ASSUME NEW q \in D, h[q].leaf = TRUE
      PROVE  IsLeaf(g[q]) /\ g[q].leaf = TRUE /\ g[q].data = h[q].data
  <2> DEFINE s == h[q].data
             c == copy(q)
  <2>1. LeafFits(h, ht, iv, q)
    BY <1>2, <1>6, <1>9, Kind
  <2>2. s \in Seq(Keys \X Values)
    BY <2>1 DEF LeafFits, IsLeaf
  <2>3. g[q] = Leaf(Null, c, s)
    BY <1>9
  <2> HIDE DEF s, c, g
  <2>4. LeafIs(Leaf(Null, c, s), s)
    BY <2>2, LeafNodeIs
  <2> QED BY <2>3, <2>4 DEF LeafIs, s
<1> HIDE DEF g
<1>10. Pruned(h, g)
  BY <1>6, <1>7, <1>8, <1>9 DEF Pruned
<1> DEFINE ht2 == Narrowed(ht, D)
           iv2 == Narrowed(iv, D)
<1>11. Tree(g, ht2, iv2)
  BY <1>2, <1>7, <1>10, PrunedIsTree
<1>12. \A q \in D : ht2[q] = ht[q] /\ iv2[q] = iv[q]
  BY DEF Narrowed
<1> HIDE DEF ht2, iv2
<1>13. RootedAt(g, r, ht2, iv2)
  BY <1>2, <1>6, <1>7, <1>11, <1>12 DEF RootedAt
<1>14. \A q \in D : h[q].leaf = TRUE \/ h[q].leaf = FALSE
  BY <1>2, <1>6, NodeKind
<1>15. Sized(g, r, 1 .. MaxRootKeys)
  <2>1. ASSUME NEW q \in D PROVE Count(g, q) = Count(h, q)
    <3>1. CASE h[q].leaf = FALSE
      BY <1>8, <3>1 DEF Count
    <3>2. CASE h[q].leaf = TRUE
      BY <1>9, <3>2 DEF Count, Size
    <3> QED BY <1>14, <3>1, <3>2
  <2> QED BY <1>1, <1>6, <1>7, <2>1 DEF Sized
<1>16. ASSUME NEW q \in DOMAIN h, h[q].leaf = TRUE PROVE q \in D
  <2>1. PICK x \in iv[q] : x \in Int
    BY <1>2, Kind
  <2> DEFINE d == Down(h, x)[r]
  <2>2. DownFinds(h, ht, iv, x, r)
    BY <1>2, <1>4, <2>1, Finds
  <2>3. d \in DOMAIN h /\ h[d].leaf = TRUE /\ x \in iv[d] /\ d \in D
    BY <1>2, <1>6, <2>1, <2>2 DEF DownFinds
  <2> HIDE DEF d
  <2>4. ht[d] = 0 /\ ht[q] = 0
    BY <1>2, <1>16, <2>3, Kind
  <2>5. d \in DOMAIN ht /\ q \in DOMAIN ht /\ Apart(ht, iv)
    BY <1>2, <2>3 DEF Tree, Ranges
  <2>6. d = q
    BY <2>1, <2>3, <2>4, <2>5 DEF Apart
  <2> QED BY <2>3, <2>6
<1>17. \A q \in DOMAIN h : h[q].leaf = TRUE \/ h[q].leaf = FALSE
  BY <1>2, NodeKind
<1>18. Entries(g) = Entries(h)
  <2>1. ASSUME NEW e \in Keys \X Values PROVE e \in Entries(g) <=> e \in Entries(h)
    <3>1. ASSUME NEW q \in DOMAIN g, g[q].leaf, \E j \in 1 .. Len(g[q].data) : g[q].data[j] = e
          PROVE  e \in Entries(h)
      <4>1. q \in DOMAIN h /\ h[q].leaf = TRUE
        BY <1>6, <1>7, <1>8, <1>14, <3>1
      <4>2. g[q].data = h[q].data
        BY <1>7, <1>9, <3>1, <4>1
      <4> QED BY <3>1, <4>1, <4>2 DEF Entries
    <3>2. ASSUME NEW q \in DOMAIN h, h[q].leaf, \E j \in 1 .. Len(h[q].data) : h[q].data[j] = e
          PROVE  e \in Entries(g)
      <4>1. q \in D /\ h[q].leaf = TRUE
        BY <1>16, <1>17, <3>2
      <4>2. g[q].data = h[q].data /\ g[q].leaf = TRUE /\ q \in DOMAIN g
        BY <1>7, <1>9, <4>1
      <4> QED BY <3>2, <4>2 DEF Entries
    <3> QED BY <3>1, <3>2 DEF Entries
  <2>2. Entries(g) \subseteq Keys \X Values /\ Entries(h) \subseteq Keys \X Values
    BY DEF Entries
  <2> QED BY <2>1, <2>2
<1>19. Sound(g, r, E, 1 .. MaxRootKeys, FALSE)
  BY <1>1, <1>13, <1>15, <1>18 DEF Sound
<1> QED BY <1>3, <1>19 DEF r

-----------------------------------------------------------------------------
(* What each call makes of the entries *)

LEMMA WholeHolds ==
  ASSUME NEW t, NEW E, NEW linked, Whole(t, E, linked)
  PROVE  /\ E = Entries(t.heap)
         /\ \A d, e \in E : d[1] = e[1] => d = e
         /\ E \subseteq Keys \X Values
<1>1. Entries(t.heap) \subseteq Keys \X Values
  BY DEF Entries
<1>2. CASE t.root = Null
  <2>1. DOMAIN t.heap = {} /\ E = {}
    BY <1>2 DEF Whole
  <2>2. Entries(t.heap) = {}
    BY <2>1 DEF Entries
  <2> QED BY <2>1, <2>2
<1>3. CASE t.root # Null
  <2>1. Sound(t.heap, t.root, E, 1 .. MaxRootKeys, linked)
    BY <1>3 DEF Whole
  <2>2. PICK ht, iv : RootedAt(t.heap, t.root, ht, iv) /\ Entries(t.heap) = E
    BY <2>1 DEF Sound
  <2>3. \A d, e \in E : d[1] = e[1] => d = e
    BY <2>2, OneEntry
  <2> QED BY <1>1, <2>2, <2>3
<1> QED BY <1>2, <1>3

LEMMA WholeFinds ==
  ASSUME NEW t, NEW E, NEW linked, Whole(t, E, linked), NEW k \in Keys
  PROVE  /\ \A v : v \in Find(t, k) <=> <<k, v>> \in E
         /\ Found(t, k) <=> ~Absent(E, k)
<1>1. \A v : v \in Find(t, k) <=> <<k, v>> \in E
  <2>1. CASE t.root = Null
    BY <2>1 DEF Whole, Find
  <2>2. CASE t.root # Null
    <3>1. Sound(t.heap, t.root, E, 1 .. MaxRootKeys, linked)
      BY <2>2 DEF Whole
    <3>2. PICK ht, iv : RootedAt(t.heap, t.root, ht, iv) /\ Entries(t.heap) = E
      BY <3>1 DEF Sound
    <3> QED BY <3>2, FindsEntry
  <2> QED BY <2>1, <2>2
<1>2. E \subseteq Keys \X Values
  BY WholeHolds
<1>3. ASSUME NEW e \in E, e[1] = k PROVE Found(t, k)
  <2>1. e = <<k, e[2]>>
    BY <1>2, <1>3
  <2>2. e[2] \in Find(t, k)
    BY <1>1, <2>1
  <2> QED BY <2>2 DEF Found
<1>4. ASSUME Found(t, k) PROVE ~Absent(E, k)
  <2>1. PICK v : v \in Find(t, k)
    BY <1>4 DEF Found
  <2>2. <<k, v>> \in E /\ <<k, v>>[1] = k
    BY <1>1, <2>1
  <2> QED BY <2>2 DEF Absent
<1> QED BY <1>1, <1>3, <1>4 DEF Absent

LEMMA WholeSound ==
  ASSUME NEW t, NEW E, NEW linked, Whole(t, E, linked), NEW k \in Keys, Found(t, k)
  PROVE  t.root # Null /\ Sound(t.heap, t.root, E, 1 .. MaxRootKeys, linked) /\ ~Absent(E, k)
<1>1. t.root # Null
  BY DEF Found, Find
<1> QED BY <1>1, WholeFinds DEF Whole

\* The entries with key k and value v, whether there was one with k or not.
Overwritten(E, k, v) == WithEntry(WithoutKey(E, k), k, v)

LEMMA WithoutAbsent ==
  ASSUME NEW E, NEW k, Absent(E, k)
  PROVE  WithoutKey(E, k) = E
BY DEF Absent, WithoutKey

LEMMA EmplaceHolds ==
  ASSUME NEW t, NEW E, NEW linked, Whole(t, E, linked), NEW k \in Keys, NEW v \in Values
  PROVE  Whole(IF Found(t, k) THEN t ELSE Inserted(t, k, v),
               IF Absent(E, k) THEN Overwritten(E, k, v) ELSE E, linked)
<1>1. Found(t, k) <=> ~Absent(E, k)
  BY WholeFinds
<1>2. CASE Found(t, k)
  BY <1>1, <1>2
<1>3. CASE ~Found(t, k)
  <2>1. Absent(E, k)
    BY <1>1, <1>3
  <2>2. Whole(Inserted(t, k, v), WithEntry(E, k, v), linked)
    BY <2>1, InsertIsWhole
  <2>3. WithoutKey(E, k) = E
    BY <2>1, WithoutAbsent
  <2> QED BY <1>3, <2>1, <2>2, <2>3 DEF Overwritten
<1> QED BY <1>2, <1>3

LEMMA AssignHolds ==
  ASSUME NEW t, NEW E, NEW linked, Whole(t, E, linked), NEW k \in Keys, NEW v \in Values
  PROVE  Whole(IF Found(t, k) THEN Assigned(t, k, v) ELSE Inserted(t, k, v), Overwritten(E, k, v), linked)
<1>1. Found(t, k) <=> ~Absent(E, k)
  BY WholeFinds
<1>2. CASE Found(t, k)
  <2> DEFINE u == Assigned(t, k, v)
  <2>1. t.root # Null /\ Sound(t.heap, t.root, E, 1 .. MaxRootKeys, linked) /\ ~Absent(E, k)
    BY <1>2, WholeSound
  <2>2. Sound(u.heap, t.root, Overwritten(E, k, v), 1 .. MaxRootKeys, linked)
    BY <2>1, AssignIsSound DEF Overwritten
  <2>3. u.root = t.root
    BY DEF Assigned
  <2> HIDE DEF u
  <2>4. IsHeap(u.heap)
    BY <2>2 DEF Sound, RootedAt, Tree
  <2>5. Whole(u, Overwritten(E, k, v), linked)
    BY <2>1, <2>2, <2>3, <2>4 DEF Whole
  <2> QED BY <1>2, <2>5 DEF u
<1>3. CASE ~Found(t, k)
  <2>1. Absent(E, k)
    BY <1>1, <1>3
  <2>2. Whole(Inserted(t, k, v), WithEntry(E, k, v), linked)
    BY <2>1, InsertIsWhole
  <2>3. WithoutKey(E, k) = E
    BY <2>1, WithoutAbsent
  <2> QED BY <1>3, <2>2, <2>3 DEF Overwritten
<1> QED BY <1>2, <1>3

LEMMA EraseHolds ==
  ASSUME Order >= 3, NEW t, NEW E, NEW linked, Whole(t, E, linked), NEW k \in Keys
  PROVE  Whole(IF Found(t, k) THEN Erased(t, k) ELSE t, WithoutKey(E, k), linked)
<1>1. Found(t, k) <=> ~Absent(E, k)
  BY WholeFinds
<1>2. CASE Found(t, k)
  <2>1. Sound(t.heap, t.root, E, 1 .. MaxRootKeys, linked) /\ ~Absent(E, k)
    BY <1>2, WholeSound
  <2>2. k \in Int
    BY TreeAssumption
  <2>3. Whole(Erased(t, k), WithoutKey(E, k), linked)
    BY <2>1, <2>2, EraseIsWhole
  <2> QED BY <1>2, <2>3
<1>3. CASE ~Found(t, k)
  <2>1. WithoutKey(E, k) = E
    BY <1>1, <1>3, WithoutAbsent
  <2> QED BY <1>3, <2>1
<1> QED BY <1>2, <1>3

LEMMA StoreHolds ==
  ASSUME Order >= 3, NEW t, NEW E, NEW linked, Whole(t, E, linked), NEW k \in Keys, NEW v \in Values
  PROVE  Whole(Inserted(IF Found(t, k) THEN Erased(t, k) ELSE t, k, v), Overwritten(E, k, v), linked)
<1> DEFINE u == IF Found(t, k) THEN Erased(t, k) ELSE t
<1>1. Whole(u, WithoutKey(E, k), linked)
  BY EraseHolds
<1>2. Absent(WithoutKey(E, k), k)
  BY DEF Absent, WithoutKey
<1> HIDE DEF u
<1>3. Whole(Inserted(u, k, v), Overwritten(E, k, v), linked)
  BY <1>1, <1>2, InsertIsWhole DEF Overwritten
<1> QED BY <1>3 DEF u

LEMMA ReloadHolds ==
  ASSUME NEW t, NEW E, NEW linked, Whole(t, E, linked)
  PROVE  Whole(Reloaded(t), E, FALSE)
<1> DEFINE u == Reloaded(t)
<1>1. u.root = t.root
  BY DEF Reloaded
<1>2. CASE t.root = Null
  <2>1. \E F : u.heap = [p \in {} |-> F[p]]
    <3> DEFINE copy(p) == IF t.heap[p].leaf
                          THEN Leaf(Null, Tail(ChainFrom(t, p)), t.heap[p].data)
                          ELSE t.heap[p]
               F == [p \in {} |-> copy(p)]
    <3>1. u.heap = [p \in {} |-> copy(p)]
      BY <1>2 DEF Reloaded
    <3> HIDE DEF copy, u
    <3>2. u.heap = [p \in {} |-> F[p]]
      BY <3>1
    <3> QED BY <3>2
  <2> HIDE DEF u
  <2>2. DOMAIN u.heap = {} /\ u.heap = [p \in {} |-> u.heap[p]]
    BY <2>1
  <2>3. IsHeap(u.heap)
    BY <2>2, FS_EmptySet DEF IsHeap
  <2> QED BY <1>1, <1>2, <2>2, <2>3 DEF Whole, u
<1>3. CASE t.root # Null
  <2>1. Sound(t.heap, t.root, E, 1 .. MaxRootKeys, linked)
    BY <1>3 DEF Whole
  <2>2. Sound(u.heap, t.root, E, 1 .. MaxRootKeys, FALSE)
    BY <1>3, <2>1, ReloadIsSound
  <2> HIDE DEF u
  <2>3. IsHeap(u.heap)
    BY <2>2 DEF Sound, RootedAt, Tree
  <2> QED BY <1>1, <1>3, <2>2, <2>3 DEF Whole, u
<1> QED BY <1>2, <1>3

LEMMA EmptyHolds ==
  ASSUME NEW linked
  PROVE  Whole(EmptyTree, {}, linked)
<1>1. EmptyTree.root = Null /\ EmptyTree.heap = [p \in {} |-> p]
  BY DEF EmptyTree
<1>2. IsHeap([p \in {} |-> p])
  BY FS_EmptySet DEF IsHeap
<1> QED BY <1>1, <1>2 DEF Whole

-----------------------------------------------------------------------------
(* The theorems *)

\* The inductive invariant.
TreeInv == Whole(tree, Entries(tree.heap), ~reloaded)

\* What a step makes of the entries; the call says which one it is.
Stepped(c, E, E2) ==
  \/ \E k \in Keys, v \in Values :
       \/ c = <<"insert", k, v>> /\ E2 = IF Absent(E, k) THEN Overwritten(E, k, v) ELSE E
       \/ c = <<"assign", k, v>> /\ E2 = Overwritten(E, k, v)
  \/ \E k \in Keys : c = <<"erase", k>> /\ E2 = WithoutKey(E, k)
  \/ c = <<"reload">> /\ E2 = E
  \/ c = <<"clear">> /\ E2 = {}

LEMMA NextSteps ==
  ASSUME Order >= 3, NEW E, Whole(tree, E, ~reloaded), Next
  PROVE  \E E2 : Whole(tree', E2, ~reloaded') /\ Stepped(call', E, E2)
<1>1. ASSUME NEW k \in Keys, NEW v \in Values, Emplace(k, v)
      PROVE  \E E2 : Whole(tree', E2, ~reloaded') /\ Stepped(call', E, E2)
  <2> DEFINE E2 == IF Absent(E, k) THEN Overwritten(E, k, v) ELSE E
  <2>1. Whole(tree', E2, ~reloaded')
    BY <1>1, EmplaceHolds DEF Emplace
  <2>2. Stepped(call', E, E2)
    BY <1>1 DEF Emplace, Stepped
  <2> QED BY <2>1, <2>2
<1>2. ASSUME NEW k \in Keys, NEW v \in Values, InsertOrAssign(k, v)
      PROVE  \E E2 : Whole(tree', E2, ~reloaded') /\ Stepped(call', E, E2)
  <2>1. Whole(tree', Overwritten(E, k, v), ~reloaded')
    BY <1>2, AssignHolds DEF InsertOrAssign
  <2>2. Stepped(call', E, Overwritten(E, k, v))
    BY <1>2 DEF InsertOrAssign, Stepped
  <2> QED BY <2>1, <2>2
<1>3. ASSUME NEW k \in Keys, NEW v \in Values, Store(k, v)
      PROVE  \E E2 : Whole(tree', E2, ~reloaded') /\ Stepped(call', E, E2)
  <2>1. Whole(tree', Overwritten(E, k, v), ~reloaded')
    BY <1>3, StoreHolds DEF Store
  <2>2. Stepped(call', E, Overwritten(E, k, v))
    BY <1>3 DEF Store, Stepped
  <2> QED BY <2>1, <2>2
<1>4. ASSUME NEW k \in Keys, EraseKey(k)
      PROVE  \E E2 : Whole(tree', E2, ~reloaded') /\ Stepped(call', E, E2)
  <2>1. Whole(tree', WithoutKey(E, k), ~reloaded')
    BY <1>4, EraseHolds DEF EraseKey
  <2>2. Stepped(call', E, WithoutKey(E, k))
    BY <1>4 DEF EraseKey, Stepped
  <2> QED BY <2>1, <2>2
<1>5. ASSUME Reload PROVE \E E2 : Whole(tree', E2, ~reloaded') /\ Stepped(call', E, E2)
  <2>1. Whole(tree', E, ~reloaded')
    BY <1>5, ReloadHolds DEF Reload
  <2>2. Stepped(call', E, E)
    BY <1>5 DEF Reload, Stepped
  <2> QED BY <2>1, <2>2
<1>6. ASSUME Clear PROVE \E E2 : Whole(tree', E2, ~reloaded') /\ Stepped(call', E, E2)
  <2>1. Whole(tree', {}, ~reloaded')
    BY <1>6, EmptyHolds DEF Clear
  <2>2. Stepped(call', E, {})
    BY <1>6 DEF Clear, Stepped
  <2> QED BY <2>1, <2>2
<1> QED BY <1>1, <1>2, <1>3, <1>4, <1>5, <1>6 DEF Next

\* After every call the nodes form a tree in which each node is responsible for its
\* own range of keys, all leaves are equally deep and no node is too full or too empty
\* (insert, insert_or_assign, erase, clear of BSP_tree; load_metadata of PageBasedIndex).
THEOREM TreeIsWhole ==
  ASSUME Order >= 3
  PROVE  Spec => []TreeInv
<1>1. Init => TreeInv
  <2> SUFFICES ASSUME Init PROVE TreeInv
    OBVIOUS
  <2>1. Whole(tree, {}, ~reloaded)
    BY EmptyHolds DEF Init
  <2> QED BY <2>1, WholeHolds DEF TreeInv
<1>2. TreeInv /\ [Next]_vars => TreeInv'
  <2> SUFFICES ASSUME TreeInv, [Next]_vars PROVE TreeInv'
    OBVIOUS
  <2>1. CASE Next
    <3>1. PICK E2 : Whole(tree', E2, ~reloaded')
      BY <2>1, NextSteps DEF TreeInv
    <3>2. E2 = Entries(tree'.heap)
      BY <3>1, WholeHolds
    <3> QED BY <3>1, <3>2 DEF TreeInv
  <2>2. CASE UNCHANGED vars
    BY <2>2 DEF TreeInv, vars
  <2> QED BY <2>1, <2>2
<1> QED BY <1>1, <1>2, PTL DEF Spec

\* No node overflows the array it lives in and none but the root is emptier than a
\* split leaves it, whichever nodes lent, were split or merged (BSP_tree).
THEOREM NodesKeepLimits ==
  ASSUME Order >= 3
  PROVE  Spec => []WithinLimits
<1>1. TreeInv => WithinLimits
  <2> SUFFICES ASSUME TreeInv, NEW p \in DOMAIN tree.heap
               PROVE  /\ IF p = tree.root THEN Count(tree.heap, p) \in 1 .. MaxRootKeys
                         ELSE Count(tree.heap, p) \in LeastKeys .. MaxKeys
                      /\ tree.heap[p].leaf \/ Len(tree.heap[p].kids) = Count(tree.heap, p) + 1
    BY DEF WithinLimits
  <2>1. tree.root # Null
    BY DEF TreeInv, Whole
  <2>2. Sound(tree.heap, tree.root, Entries(tree.heap), 1 .. MaxRootKeys, ~reloaded)
    BY <2>1 DEF TreeInv, Whole
  <2>3. PICK ht, iv : RootedAt(tree.heap, tree.root, ht, iv) /\ Sized(tree.heap, tree.root, 1 .. MaxRootKeys)
    BY <2>2 DEF Sound
  <2>4. Tree(tree.heap, ht, iv)
    BY <2>3 DEF RootedAt
  <2>5. tree.heap[p].leaf \/ Len(tree.heap[p].kids) = Count(tree.heap, p) + 1
    BY <2>4, Counts
  <2> QED BY <2>3, <2>5 DEF Sized, Fits
<1> QED BY <1>1, TreeIsWhole, PTL

\* All leaves are equally deep, also after a split of the root or its removal.
THEOREM LeavesEquallyDeep ==
  ASSUME Order >= 3
  PROVE  Spec => []Balanced
<1>1. TreeInv => Balanced
  <2> SUFFICES ASSUME TreeInv PROVE \E d : Depths = {d}
    BY FS_Singleton DEF Balanced
  <2>1. CASE tree.root = Null
    BY <2>1 DEF Depths
  <2>2. CASE tree.root # Null
    <3>1. Sound(tree.heap, tree.root, Entries(tree.heap), 1 .. MaxRootKeys, ~reloaded)
      BY <2>2 DEF TreeInv, Whole
    <3>2. PICK ht, iv : RootedAt(tree.heap, tree.root, ht, iv)
      BY <3>1 DEF Sound
    <3>3. Tree(tree.heap, ht, iv) /\ tree.root \in DOMAIN tree.heap
      BY <3>2 DEF RootedAt
    <3>4. ht[tree.root] \in Nat /\ \A q \in DOMAIN tree.heap : ht[q] <= ht[tree.root]
      BY <3>2, Heights
    <3>5. Below(tree.heap)[tree.root] = {ht[tree.root]}
      BY <3>3, <3>4, AllAsDeep
    <3> QED BY <2>2, <3>5 DEF Depths
  <2> QED BY <2>1, <2>2
<1> QED BY <1>1, TreeIsWhole, PTL

-----------------------------------------------------------------------------
(* The tree is a map *)

\* The map the entries make.
MapOf(E) == [k \in {j \in Keys : ~Absent(E, j)} |-> CHOOSE x \in Values : <<k, x>> \in E]

\* Entries of keys with values, no key with two.
OneValue(E) == E \subseteq Keys \X Values /\ \A d, e \in E : d[1] = e[1] => d = e

LEMMA ValueIs ==
  ASSUME NEW E, OneValue(E), NEW k, NEW v, <<k, v>> \in E
  PROVE  k \in DOMAIN MapOf(E) /\ MapOf(E)[k] = v
<1>1. k \in Keys /\ v \in Values /\ ~Absent(E, k)
  BY DEF OneValue, Absent
<1>2. \A x \in Values : <<k, x>> \in E => x = v
  <2> TAKE x \in Values
  <2> SUFFICES ASSUME <<k, x>> \in E PROVE x = v
    OBVIOUS
  <2>1. <<k, x>>[1] = <<k, v>>[1]
    OBVIOUS
  <2>2. <<k, x>> = <<k, v>>
    BY <2>1 DEF OneValue
  <2> QED BY <2>2
<1>3. (CHOOSE x \in Values : <<k, x>> \in E) = v
  BY <1>1, <1>2
<1> QED BY <1>1, <1>3 DEF MapOf

LEMMA HasValue ==
  ASSUME NEW E, OneValue(E), NEW k \in DOMAIN MapOf(E)
  PROVE  k \in Keys /\ <<k, MapOf(E)[k]>> \in E
<1>1. k \in Keys /\ ~Absent(E, k)
  BY DEF MapOf
<1>2. PICK e \in E : e[1] = k
  BY <1>1 DEF Absent
<1>3. e = <<k, e[2]>>
  BY <1>2 DEF OneValue
<1>4. MapOf(E)[k] = e[2]
  BY <1>2, <1>3, ValueIs
<1> QED BY <1>1, <1>2, <1>3, <1>4

\* Two maps are the same when their entries are.
LEMMA SameMap ==
  ASSUME NEW E, OneValue(E), NEW D, NEW f, f = [k \in D |-> f[k]],
         \A k \in D : <<k, f[k]>> \in E,
         \A e \in E : e[1] \in D
  PROVE  MapOf(E) = f
<1> DEFINE g == MapOf(E)
<1>1. g = [k \in DOMAIN g |-> g[k]]
  <2> DEFINE held == {j \in Keys : ~Absent(E, j)}
             value(k) == CHOOSE x \in Values : <<k, x>> \in E
  <2>1. g = [k \in held |-> value(k)]
    BY DEF MapOf
  <2> HIDE DEF held, value, g
  <2> QED BY <2>1
<1>2. \A k \in D : k \in DOMAIN g /\ g[k] = f[k]
  BY ValueIs
<1>3. ASSUME NEW k \in DOMAIN g PROVE k \in D
  <2>1. <<k, g[k]>> \in E
    BY <1>3, HasValue
  <2>2. <<k, g[k]>>[1] = k
    OBVIOUS
  <2> QED BY <2>1, <2>2
<1> HIDE DEF g
<1>4. DOMAIN g = D
  BY <1>2, <1>3
<1>5. g = f
  BY <1>1, <1>2, <1>4
<1> QED BY <1>5 DEF g

LEMMA MapOverwritten ==
  ASSUME NEW E, OneValue(E), NEW k \in Keys, NEW v \in Values
  PROVE  MapOf(Overwritten(E, k, v)) =
           [j \in DOMAIN MapOf(E) \cup {k} |-> IF j = k THEN v ELSE MapOf(E)[j]]
<1> DEFINE E2 == Overwritten(E, k, v)
           m == MapOf(E)
           D == DOMAIN m \cup {k}
           f == [j \in D |-> IF j = k THEN v ELSE m[j]]
<1>1. \A e : e \in E2 <=> (e = <<k, v>> \/ (e \in E /\ e[1] # k))
  BY DEF Overwritten, WithEntry, WithoutKey
<1>2. \A j \in DOMAIN m : <<j, m[j]>> \in E
  BY HasValue
<1>3. \A e \in E : e[1] \in DOMAIN m
  <2> TAKE e \in E
  <2>1. e = <<e[1], e[2]>>
    BY DEF OneValue
  <2> QED BY <2>1, ValueIs
<1>4. OneValue(E2)
  <2>1. E2 \subseteq Keys \X Values
    BY <1>1 DEF OneValue
  <2>2. <<k, v>>[1] = k
    OBVIOUS
  <2>3. ASSUME NEW d \in E2, NEW e \in E2, d[1] = e[1] PROVE d = e
    BY <1>1, <2>2, <2>3 DEF OneValue
  <2> QED BY <2>1, <2>3 DEF OneValue
<1> HIDE DEF E2, m
<1>5. f = [j \in D |-> f[j]]
  OBVIOUS
<1>6. \A j \in D : <<j, f[j]>> \in E2
  <2> TAKE j \in D
  <2>1. CASE j = k
    BY <1>1, <2>1
  <2>2. CASE j # k
    <3>1. <<j, m[j]>> \in E /\ <<j, m[j]>>[1] = j /\ f[j] = m[j]
      BY <1>2, <2>2
    <3> QED BY <1>1, <2>2, <3>1
  <2> QED BY <2>1, <2>2
<1>7. \A e \in E2 : e[1] \in D
  <2> TAKE e \in E2
  <2>1. e = <<k, v>> \/ e \in E
    BY <1>1
  <2> QED BY <1>3, <2>1
<1> HIDE DEF f, D
<1>8. MapOf(E2) = f
  BY <1>4, <1>5, <1>6, <1>7, SameMap
<1> QED BY <1>8 DEF E2, f, D, m

LEMMA MapWithout ==
  ASSUME NEW E, OneValue(E), NEW k \in Keys
  PROVE  MapOf(WithoutKey(E, k)) = [j \in DOMAIN MapOf(E) \ {k} |-> MapOf(E)[j]]
<1> DEFINE E2 == WithoutKey(E, k)
           m == MapOf(E)
           D == DOMAIN m \ {k}
           f == [j \in D |-> m[j]]
<1>1. \A e : e \in E2 <=> (e \in E /\ e[1] # k)
  BY DEF WithoutKey
<1>2. \A j \in DOMAIN m : <<j, m[j]>> \in E
  BY HasValue
<1>3. \A e \in E : e[1] \in DOMAIN m
  <2> TAKE e \in E
  <2>1. e = <<e[1], e[2]>>
    BY DEF OneValue
  <2> QED BY <2>1, ValueIs
<1>4. OneValue(E2)
  BY <1>1 DEF OneValue
<1> HIDE DEF E2, m
<1>5. f = [j \in D |-> f[j]]
  OBVIOUS
<1>6. \A j \in D : <<j, f[j]>> \in E2
  <2> TAKE j \in D
  <2>1. <<j, m[j]>> \in E /\ <<j, m[j]>>[1] = j /\ f[j] = m[j] /\ j # k
    BY <1>2
  <2> QED BY <1>1, <2>1
<1>7. \A e \in E2 : e[1] \in D
  BY <1>1, <1>3
<1> HIDE DEF f, D
<1>8. MapOf(E2) = f
  BY <1>4, <1>5, <1>6, <1>7, SameMap
<1> QED BY <1>8 DEF E2, f, D, m

LEMMA MapEmpty == MapOf({}) = [k \in {} |-> k]
<1>1. {j \in Keys : ~Absent({}, j)} = {}
  BY DEF Absent
<1>2. DOMAIN MapOf({}) = {} /\ MapOf({}) = [k \in {} |-> MapOf({})[k]]
  BY <1>1 DEF MapOf
<1> QED BY <1>2

ContentOf(t) == [k \in {j \in Keys : Found(t, j)} |-> CHOOSE x \in Values : x \in Find(t, k)]

LEMMA ContentIs ==
  ASSUME NEW t, NEW E, NEW linked, Whole(t, E, linked)
  PROVE  ContentOf(t) = MapOf(E)
<1>1. {j \in Keys : Found(t, j)} = {j \in Keys : ~Absent(E, j)}
  BY WholeFinds
<1>2. ASSUME NEW k \in Keys
      PROVE  (CHOOSE x \in Values : x \in Find(t, k)) = (CHOOSE x \in Values : <<k, x>> \in E)
  <2>1. \A x : x \in Find(t, k) <=> <<k, x>> \in E
    BY WholeFinds
  <2>2. \A x : (x \in Values /\ x \in Find(t, k)) <=> (x \in Values /\ <<k, x>> \in E)
    BY <2>1
  <2> QED BY <2>2
<1> DEFINE found == {j \in Keys : Found(t, j)}
           held  == {j \in Keys : ~Absent(E, j)}
           f(k)  == CHOOSE x \in Values : x \in Find(t, k)
           g(k)  == CHOOSE x \in Values : <<k, x>> \in E
<1>3. found = held /\ \A k \in held : f(k) = g(k)
  BY <1>1, <1>2
<1>4. ContentOf(t) = [k \in found |-> f(k)] /\ MapOf(E) = [k \in held |-> g(k)]
  BY DEF ContentOf, MapOf
<1> HIDE DEF found, held, f, g
<1>5. [k \in found |-> f(k)] = [k \in held |-> g(k)]
  BY <1>3
<1> QED BY <1>4, <1>5

\* A step of the tree is a step of the map.
LEMMA StepImplements ==
  ASSUME NEW E, OneValue(E), NEW E2, Stepped(call', E, E2),
         Content = MapOf(E), Content' = MapOf(E2)
  PROVE  Abstract!Next
<1> DEFINE m == MapOf(E)
<1>1. \A k \in Keys : k \in DOMAIN m <=> ~Absent(E, k)
  BY DEF MapOf
<1>2. \A k \in Keys : \A v \in Values :
        MapOf(Overwritten(E, k, v)) = [j \in DOMAIN m \cup {k} |-> IF j = k THEN v ELSE m[j]]
  BY MapOverwritten
<1>3. \A k \in Keys : MapOf(WithoutKey(E, k)) = [j \in DOMAIN m \ {k} |-> m[j]]
  BY MapWithout
<1>4. Content = m
  OBVIOUS
<1> HIDE DEF m
<1>5. ASSUME NEW k \in Keys, NEW v \in Values, call' = <<"insert", k, v>>,
             E2 = IF Absent(E, k) THEN Overwritten(E, k, v) ELSE E
      PROVE  Abstract!Insert(k, v)
  <2>1. CASE Absent(E, k)
    <3>1. Content' = Abstract!With(k, v) /\ k \notin DOMAIN Content
      BY <1>1, <1>2, <1>4, <1>5, <2>1, ZenonT(40) DEF Abstract!With
    <3> QED BY <1>5, <3>1 DEF Abstract!Insert
  <2>2. CASE ~Absent(E, k)
    <3>1. Content' = Content /\ k \in DOMAIN Content
      BY <1>1, <1>4, <1>5, <2>2
    <3> QED BY <1>5, <3>1 DEF Abstract!Insert
  <2> QED BY <2>1, <2>2
<1>6. ASSUME NEW k \in Keys, NEW v \in Values, call' = <<"assign", k, v>>, E2 = Overwritten(E, k, v)
      PROVE  Abstract!Assign(k, v)
  <2>1. Content' = Abstract!With(k, v)
    BY <1>2, <1>4, <1>6 DEF Abstract!With
  <2> QED BY <1>6, <2>1 DEF Abstract!Assign
<1>7. ASSUME NEW k \in Keys, call' = <<"erase", k>>, E2 = WithoutKey(E, k)
      PROVE  Abstract!Erase(k)
  <2>1. Content' = [j \in DOMAIN Content \ {k} |-> Content[j]]
    BY <1>3, <1>4, <1>7
  <2> QED BY <1>7, <2>1 DEF Abstract!Erase, Abstract!Restrict
<1>8. ASSUME call' = <<"reload">>, E2 = E PROVE Abstract!Reload
  <2>1. Content' = Content
    BY <1>8
  <2> QED BY <1>8, <2>1 DEF Abstract!Reload
<1>9. ASSUME call' = <<"clear">>, E2 = {} PROVE Abstract!Clear
  <2>1. Content' = [k \in {} |-> k]
    BY <1>9, MapEmpty
  <2> QED BY <1>9, <2>1 DEF Abstract!Clear
<1>10. CASE \E k \in Keys, v \in Values :
              /\ call' = <<"insert", k, v>>
              /\ E2 = IF Absent(E, k) THEN Overwritten(E, k, v) ELSE E
  BY <1>5, <1>10 DEF Abstract!Next
<1>11. CASE \E k \in Keys, v \in Values :
              call' = <<"assign", k, v>> /\ E2 = Overwritten(E, k, v)
  BY <1>6, <1>11 DEF Abstract!Next
<1>12. CASE \E k \in Keys : call' = <<"erase", k>> /\ E2 = WithoutKey(E, k)
  BY <1>7, <1>12 DEF Abstract!Next
<1>13. CASE call' = <<"reload">> /\ E2 = E
  BY <1>8, <1>13 DEF Abstract!Next
<1>14. CASE call' = <<"clear">> /\ E2 = {}
  BY <1>9, <1>14 DEF Abstract!Next
<1> QED BY <1>10, <1>11, <1>12, <1>13, <1>14 DEF Stepped

\* What a descent finds is what was put in and not taken out since: insert,
\* insert_or_assign, erase, clear and the reading back of the pages are the steps of
\* a map, whatever they do to the nodes (BSP_tree, PageBasedIndex).
THEOREM TreeIsMap ==
  ASSUME Order >= 3
  PROVE  Spec => ImplementsMap
<1>1. Init => Abstract!Init
  <2> SUFFICES ASSUME Init PROVE Abstract!Init
    OBVIOUS
  <2>1. tree = EmptyTree /\ call = <<"none">>
    BY DEF Init
  <2>2. ContentOf(tree) = [k \in {} |-> k]
    BY <2>1, EmptyHolds, ContentIs, MapEmpty
  <2>3. Content = [k \in {} |-> k]
    BY <2>2 DEF Content, ContentOf
  <2> QED BY <2>1, <2>3 DEF Abstract!Init
<1>2. TreeInv /\ [Next]_vars => [Abstract!Next]_(Abstract!vars)
  <2> SUFFICES ASSUME TreeInv, [Next]_vars PROVE [Abstract!Next]_(Abstract!vars)
    OBVIOUS
  <2> DEFINE E == Entries(tree.heap)
  <2>1. Whole(tree, E, ~reloaded)
    BY DEF TreeInv
  <2>2. Content = ContentOf(tree) /\ Content' = ContentOf(tree')
    BY DEF Content, ContentOf
  <2> HIDE DEF E
  <2>3. CASE Next
    <3>1. PICK E2 : Whole(tree', E2, ~reloaded') /\ Stepped(call', E, E2)
      BY <2>1, <2>3, NextSteps
    <3>2. Content = MapOf(E) /\ Content' = MapOf(E2)
      BY <2>1, <2>2, <3>1, ContentIs
    <3>3. OneValue(E)
      BY <2>1, WholeHolds DEF OneValue
    <3> QED BY <3>1, <3>2, <3>3, StepImplements
  <2>4. CASE UNCHANGED vars
    <3>1. tree' = tree /\ call' = call
      BY <2>4 DEF vars
    <3>2. Content' = Content
      BY <2>2, <3>1
    <3> QED BY <3>1, <3>2 DEF Abstract!vars
  <2> QED BY <2>3, <2>4
<1> QED BY <1>1, <1>2, TreeIsWhole, PTL DEF Spec, ImplementsMap, Abstract!Spec

-----------------------------------------------------------------------------
(* The least key from a given one on *)

Present(E) == {j \in Keys : ~Absent(E, j)}

\* "at" has the least of the keys that is not below "from", none if there is none.
LeastFrom(keys, at, from) ==
  IF at = {} THEN \A j \in keys : j < from
  ELSE \A x \in at : x >= from /\ x \in keys /\ (from .. x - 1) \cap keys = {}

\* The keys a leaf is responsible for are in it or nowhere.
KeysOf(s, I, keys) ==
  /\ Len(s) \in Nat
  /\ \A m \in 1 .. Len(s) : s[m][1] \in Int /\ s[m][1] \in I /\ s[m][1] \in keys
  /\ \A i, j \in 1 .. Len(s) : i < j => s[i][1] < s[j][1]
  /\ \A y \in I : y \in keys => \E m \in 1 .. Len(s) : s[m][1] = y

LEMMA KeysOfLeaf ==
  ASSUME NEW h, NEW ht, NEW iv, Tree(h, ht, iv), NEW p \in DOMAIN h, h[p].leaf = TRUE
  PROVE  KeysOf(h[p].data, iv[p], Present(Entries(h)))
<1> DEFINE s == h[p].data
<1>1. LeafFits(h, ht, iv, p) /\ iv[p] \subseteq Int
  BY Kind
<1>2. IsLeaf(h[p]) /\ DataFits(s, iv[p])
  BY <1>1 DEF LeafFits
<1>3. s \in Seq(Keys \X Values)
  BY <1>2 DEF IsLeaf
<1>4. Len(s) \in Nat /\ \A m \in 1 .. Len(s) : s[m] \in Keys \X Values
  BY <1>3, Elements
<1>5. \A e \in Keys \X Values : e[1] \in iv[p] => (e \in Entries(h) <=> Holds(s, e))
  BY LeafEntries
<1>6. \A m \in 1 .. Len(s) : s[m][1] \in iv[p] /\ s[m][1] \in Keys
  BY <1>2, <1>4 DEF DataFits
<1> HIDE DEF s
<1>7. ASSUME NEW m \in 1 .. Len(s) PROVE s[m][1] \in Present(Entries(h))
  <2>1. Holds(s, s[m])
    BY DEF Holds
  <2>2. s[m] \in Entries(h)
    BY <1>4, <1>5, <1>6, <2>1
  <2> QED BY <1>6, <2>2 DEF Present, Absent
<1>8. ASSUME NEW y \in iv[p], y \in Present(Entries(h)) PROVE \E m \in 1 .. Len(s) : s[m][1] = y
  <2>1. PICK e \in Entries(h) : e[1] = y
    BY <1>8 DEF Present, Absent
  <2>2. e \in Keys \X Values
    BY DEF Entries
  <2>3. Holds(s, e)
    BY <1>5, <1>8, <2>1, <2>2
  <2> QED BY <2>1, <2>3 DEF Holds
<1>9. KeysOf(s, iv[p], Present(Entries(h)))
  BY <1>1, <1>2, <1>4, <1>6, <1>7, <1>8 DEF KeysOf, DataFits
<1> QED BY <1>9 DEF s

\* All keys of the leaf from position u on are not below "from", and the leaf is
\* responsible for "from" or the key just below.
LEMMA LeastHere ==
  ASSUME NEW s, NEW I, NEW keys, keys \subseteq Int, I \subseteq Int, Convex(I), KeysOf(s, I, keys),
         NEW a \in I, NEW from \in a .. a + 1, NEW u, LowerIs(s, from, u), u <= Len(s)
  PROVE  LeastFrom(keys, {s[u][1]}, from)
<1> DEFINE x == s[u][1]
<1>1. u \in 1 .. Len(s) /\ a \in Int /\ from \in Int
  BY DEF LowerIs, KeysOf
<1>2. x \in Int /\ x \in I /\ x \in keys /\ x >= from
  BY <1>1 DEF KeysOf, LowerIs
<1>3. ASSUME NEW y \in Int, y >= from, y < x, y \in keys PROVE FALSE
  <2>1. y \in I
    BY <1>1, <1>2, <1>3 DEF Convex
  <2>2. PICK m \in 1 .. Len(s) : s[m][1] = y
    BY <1>3, <2>1 DEF KeysOf
  <2>3. ~(m < u)
    BY <1>1, <1>3, <2>2 DEF LowerIs
  <2>4. x <= y
    BY <1>1, <1>2, <2>2, <2>3 DEF KeysOf
  <2> QED BY <1>2, <1>3, <2>4
<1> HIDE DEF x
<1>4. (from .. x - 1) \cap keys = {}
  BY <1>1, <1>2, <1>3
<1>5. LeastFrom(keys, {x}, from)
  BY <1>2, <1>4 DEF LeastFrom
<1> QED BY <1>5 DEF x

\* No key of the leaf is.
LEMMA NoneHere ==
  ASSUME NEW s, NEW I, NEW keys, KeysOf(s, I, keys), NEW from, NEW u, LowerIs(s, from, u),
         u > Len(s), NEW y \in I, y \in keys
  PROVE  y < from
<1>1. PICK m \in 1 .. Len(s) : s[m][1] = y
  BY DEF KeysOf
<1>2. m < u
  BY DEF LowerIs, KeysOf
<1> QED BY <1>1, <1>2 DEF LowerIs

LEMMA LeastNext ==
  ASSUME NEW s, NEW I, NEW keys, keys \subseteq Int, I \subseteq Int, KeysOf(s, I, keys),
         NEW a \in I, NEW from \in a .. a + 1, NEW u, LowerIs(s, from, u), u > Len(s),
         NEW t, NEW J, J \subseteq Int, KeysOf(t, J, keys), Len(t) >= 1, Adjacent(I, J)
  PROVE  LeastFrom(keys, {t[1][1]}, from)
<1> DEFINE x == t[1][1]
<1>1. 1 \in 1 .. Len(t) /\ a \in Int /\ from \in Int
  BY DEF KeysOf
<1>2. x \in Int /\ x \in J /\ x \in keys /\ a < x /\ x >= from
  BY <1>1 DEF KeysOf, Adjacent
<1>3. ASSUME NEW y \in Int, y >= from, y < x, y \in keys PROVE FALSE
  <2>1. y \notin I
    BY <1>1, <1>3, NoneHere
  <2>2. a < y
    BY <1>1, <1>3, <2>1
  <2>3. y \in J
    BY <1>2, <1>3, <2>1, <2>2 DEF Adjacent
  <2>4. PICK m \in 1 .. Len(t) : t[m][1] = y
    BY <1>3, <2>3 DEF KeysOf
  <2>5. x <= y
    BY <1>1, <1>2, <2>4 DEF KeysOf
  <2> QED BY <1>2, <1>3, <2>5
<1> HIDE DEF x
<1>4. (from .. x - 1) \cap keys = {}
  BY <1>1, <1>2, <1>3
<1>5. LeastFrom(keys, {x}, from)
  BY <1>2, <1>4 DEF LeastFrom
<1> QED BY <1>5 DEF x

LEMMA NoneAbove ==
  ASSUME NEW s, NEW I, NEW keys, keys \subseteq Int, I \subseteq Int, KeysOf(s, I, keys),
         NEW a \in I, NEW from \in a .. a + 1, NEW u, LowerIs(s, from, u), u > Len(s), Top(I)
  PROVE  LeastFrom(keys, {}, from)
<1>1. ASSUME NEW j \in keys PROVE j < from
  <2> SUFFICES ASSUME j >= from PROVE FALSE
    OBVIOUS
  <2>1. a \in Int /\ from \in Int /\ j \in Int
    OBVIOUS
  <2>2. j \in I
    BY <2>1 DEF Top
  <2>3. j < from
    BY <2>2, NoneHere
  <2> QED BY <2>1, <2>3
<1> QED BY <1>1 DEF LeastFrom

\* An iterator at the first key not below "from" in the leaf, or behind its last one.
LEMMA PointsToLeast ==
  ASSUME NEW t, NEW h, h = t.heap, NEW ht, NEW iv, Tree(h, ht, iv), Chained(h, iv),
         \A q \in DOMAIN h : Count(h, q) >= 1,
         NEW p \in DOMAIN h, h[p].leaf = TRUE, NEW a \in iv[p], NEW from \in a .. a + 1
  PROVE  LeastFrom(Present(Entries(h)), PointedAt(t, p, KeyIndex(h[p], from)), from)
<1> DEFINE keys == Present(Entries(h))
           s == h[p].data
           I == iv[p]
           u == KeyIndex(h[p], from)
<1>1. KeysOf(s, I, keys)
  BY KeysOfLeaf
<1>2. keys \subseteq Int
  BY TreeAssumption DEF Present
<1>3. LeafFits(h, ht, iv, p) /\ I \subseteq Int /\ Convex(I)
  BY Kind
<1>4. from \in Int
  BY <1>3
<1>5. LowerIs(s, from, u)
  <2> DEFINE node == h[p]
  <2>1. node.leaf = TRUE /\ Len(node.data) \in Nat /\ DataFits(node.data, I)
    BY <1>1, <1>3 DEF KeysOf, LeafFits
  <2> HIDE DEF node, I
  <2>2. LowerIs(node.data, from, KeyIndex(node, from))
    BY <1>3, <1>4, <2>1, LowerOf
  <2> QED BY <2>2 DEF node
<1>6. Follows(h, iv, p)
  BY DEF Chained
<1>7. PointedAt(t, p, u) =
        IF u <= Len(s) THEN {s[u][1]}
        ELSE IF h[p].next # Null THEN {KeyAt(h[h[p].next], 1)}
        ELSE IF h[p].copies # <<>> THEN {h[p].copies[1][1][1]}
        ELSE {}
  BY DEF PointedAt, Size, KeyAt
<1>11. Len(s) \in Nat /\ u \in Int
  BY <1>1, <1>5 DEF KeysOf, LowerIs
<1> HIDE DEF u
<1>8. CASE u <= Len(s)
  <2> HIDE DEF s, I, keys
  <2>1. LeastFrom(keys, {s[u][1]}, from)
    BY <1>1, <1>2, <1>3, <1>5, <1>8, LeastHere DEF I
  <2> QED BY <1>7, <1>8, <2>1 DEF keys, u
<1>9. CASE u > Len(s) /\ h[p].next = Null /\ Top(I)
  <2>1. h[p].copies = <<>>
    BY <1>6 DEF Follows
  <2>2. PointedAt(t, p, u) = {}
    BY <1>1, <1>5, <1>7, <1>9, <2>1 DEF KeysOf, LowerIs
  <2> HIDE DEF s, I, keys
  <2>3. LeastFrom(keys, {}, from)
    BY <1>1, <1>2, <1>3, <1>5, <1>9, NoneAbove DEF I
  <2> QED BY <2>2, <2>3 DEF keys, u
<1>10. ASSUME u > Len(s), h[p].next \in DOMAIN h, h[h[p].next].leaf = TRUE,
              Adjacent(I, iv[h[p].next])
       PROVE  LeastFrom(keys, PointedAt(t, p, u), from)
  <2> DEFINE q == h[p].next
             d == h[q].data
             J == iv[q]
  <2>1. q \in DOMAIN h /\ h[q].leaf = TRUE /\ Adjacent(I, J)
    BY <1>10
  <2>2. q # Null
    BY <2>1 DEF Tree, IsHeap, Null
  <2>3. PointedAt(t, p, u) = {KeyAt(h[q], 1)}
    BY <1>7, <1>11, <1>10, <2>2
  <2>3a. KeyAt(h[q], 1) = d[1][1]
    BY <2>1 DEF KeyAt
  <2> HIDE DEF q
  <2>4. KeysOf(d, J, keys) /\ J \subseteq Int
    BY <2>1, KeysOfLeaf, Kind
  <2>5. Len(d) >= 1
    BY <2>1 DEF Count, Size
  <2> HIDE DEF s, I, keys, d, J
  <2>6. LeastFrom(keys, {d[1][1]}, from)
    BY <1>1, <1>2, <1>3, <1>5, <1>10, <2>1, <2>4, <2>5, LeastNext DEF I
  <2> QED BY <2>3, <2>3a, <2>6
<1>12. u > Len(s) \/ u <= Len(s)
  BY <1>11
<1> QED BY <1>6, <1>8, <1>9, <1>10, <1>12 DEF Follows, u

LEMMA UpperIsLower ==
  ASSUME NEW node, node.leaf = TRUE, \A i \in 1 .. Len(node.data) : node.data[i][1] \in Int,
         NEW k \in Int
  PROVE  UpperIndex(node, k) = KeyIndex(node, k + 1)
<1>1. {i \in 1 .. Len(node.data) : node.data[i][1] <= k} =
      {i \in 1 .. Len(node.data) : node.data[i][1] < k + 1}
  OBVIOUS
<1> QED BY <1>1 DEF UpperIndex, KeyIndex, Size, KeyAt

\* Until the tree is read back from its pages lower_bound points to the least key not
\* below the one it is given and upper_bound to the least above, also where that key is
\* in the next leaf (lower_bound, upper_bound of BSP_tree).
THEOREM BoundsAreExact ==
  ASSUME Order >= 3
  PROVE  Spec => []BoundsExact
<1> DEFINE E == Entries(tree.heap)
           keys == DOMAIN Content
<1>1. ASSUME TreeInv, ~reloaded, NEW k \in Keys
      PROVE  /\ LeastFrom(keys, LowerBound(tree, k), k)
             /\ LeastFrom(keys, UpperBound(tree, k), k + 1)
  <2>1. Whole(tree, E, ~reloaded)
    BY <1>1 DEF TreeInv
  <2>2. keys = Present(E)
    <3>1. Content = ContentOf(tree)
      BY DEF Content, ContentOf
    <3>2. ContentOf(tree) = MapOf(E)
      BY <2>1, ContentIs
    <3>3. DOMAIN MapOf(E) = Present(E)
      BY DEF MapOf, Present
    <3> QED BY <3>1, <3>2, <3>3
  <2> HIDE DEF keys
  <2>3. CASE tree.root = Null
    <3>1. E = {} /\ LowerBound(tree, k) = {} /\ UpperBound(tree, k) = {}
      BY <2>1, <2>3 DEF Whole, LowerBound, UpperBound
    <3>2. keys = {}
      BY <2>2, <3>1 DEF Present, Absent
    <3> QED BY <3>1, <3>2 DEF LeastFrom
  <2>4. CASE tree.root # Null
    <3> DEFINE h == tree.heap
               r == tree.root
               p == LeafFor(tree, k)
    <3>1. Sound(h, r, E, 1 .. MaxRootKeys, ~reloaded)
      BY <2>1, <2>4 DEF Whole
    <3>2. PICK ht, iv : RootedAt(h, r, ht, iv) /\ Sized(h, r, 1 .. MaxRootKeys) /\ Chained(h, iv)
      BY <1>1, <3>1 DEF Sound
    <3>3. Tree(h, ht, iv) /\ r \in DOMAIN h /\ iv[r] = Int /\ k \in Int
      BY <3>2, TreeAssumption DEF RootedAt
    <3>4. \A q \in DOMAIN h : Count(h, q) >= 1
      BY <3>2, Limits DEF Sized, Fits
    <3>5. DownFinds(h, ht, iv, k, r)
      <4>1. ht[r] \in Nat /\ \A q \in DOMAIN h : ht[q] <= ht[r]
        BY <3>2, Heights
      <4> HIDE DEF h, r
      <4> QED BY <3>3, <4>1, Finds
    <3>6. p \in DOMAIN h /\ h[p].leaf = TRUE /\ k \in iv[p]
      BY <3>3, <3>5 DEF DownFinds, LeafFor
    <3>7. /\ LowerBound(tree, k) = PointedAt(tree, p, KeyIndex(h[p], k))
          /\ UpperBound(tree, k) = PointedAt(tree, p, UpperIndex(h[p], k))
      BY <2>4 DEF LowerBound, UpperBound
    <3> HIDE DEF p
    <3>8. UpperIndex(h[p], k) = KeyIndex(h[p], k + 1)
      <4> DEFINE node == h[p]
      <4>1. KeysOf(node.data, iv[p], Present(Entries(h)))
        BY <3>3, <3>6, KeysOfLeaf
      <4>2. node.leaf = TRUE /\ \A i \in 1 .. Len(node.data) : node.data[i][1] \in Int
        BY <3>6, <4>1 DEF KeysOf
      <4> HIDE DEF node
      <4>3. UpperIndex(node, k) = KeyIndex(node, k + 1)
        BY <3>3, <4>2, UpperIsLower
      <4> QED BY <4>3 DEF node
    <3>9. LeastFrom(Present(E), PointedAt(tree, p, KeyIndex(h[p], k)), k)
      <4>1. k \in k .. k + 1
        BY <3>3
      <4> QED BY <3>2, <3>3, <3>4, <3>6, <4>1, PointsToLeast
    <3>10. LeastFrom(Present(E), PointedAt(tree, p, KeyIndex(h[p], k + 1)), k + 1)
      <4>1. k + 1 \in k .. k + 1
        BY <3>3
      <4> QED BY <3>2, <3>3, <3>4, <3>6, <4>1, PointsToLeast
    <3> QED BY <2>2, <3>7, <3>8, <3>9, <3>10
  <2> QED BY <2>3, <2>4
<1>2. TreeInv => BoundsExact
  BY <1>1 DEF BoundsExact, LeastFrom
<1> QED BY <1>2, TreeIsWhole, PTL

-----------------------------------------------------------------------------
(* The walk along the chain of leaves *)

\* The nodes that have keys above all of node p.
Later(h, iv, p) == {q \in DOMAIN h : \E z \in iv[q] : \A x \in iv[p] : x < z}

\* There are fewer of them behind the next leaf.
LEMMA FewerLater ==
  ASSUME NEW h, NEW ht, NEW iv, Tree(h, ht, iv), NEW p \in DOMAIN h, NEW n \in DOMAIN h,
         Adjacent(iv[p], iv[n])
  PROVE  Cardinality(Later(h, iv, n)) < Cardinality(Later(h, iv, p))
<1>1. /\ iv[p] \subseteq Int /\ iv[n] \subseteq Int /\ iv[n] # {}
      /\ \A q \in DOMAIN h : iv[q] \subseteq Int
  BY Kind
<1>2. IsFiniteSet(DOMAIN h)
  BY DEF Tree, IsHeap
<1>3. IsFiniteSet(Later(h, iv, p)) /\ Later(h, iv, p) \subseteq DOMAIN h
  BY <1>2, FS_Subset DEF Later
<1>4. PICK y \in iv[n] : y \in Int
  BY <1>1
<1>5. \A x \in iv[p] : x < y
  BY <1>4 DEF Adjacent
<1>6. Later(h, iv, n) \subseteq Later(h, iv, p)
  <2> SUFFICES ASSUME NEW q \in DOMAIN h, NEW z \in iv[q], \A x \in iv[n] : x < z
               PROVE  \A x \in iv[p] : x < z
    BY DEF Later
  <2>1. y < z /\ z \in Int
    BY <1>1, <1>4
  <2> QED BY <1>1, <1>4, <1>5, <2>1
<1>7. n \in Later(h, iv, p)
  BY <1>5 DEF Later
<1>8. n \notin Later(h, iv, n)
  <2> SUFFICES ASSUME NEW z \in iv[n], z < z PROVE FALSE
    BY DEF Later
  <2> QED BY <1>1
<1>9. /\ IsFiniteSet(Later(h, iv, n))
      /\ Cardinality(Later(h, iv, n)) <= Cardinality(Later(h, iv, p))
      /\ Cardinality(Later(h, iv, n)) # Cardinality(Later(h, iv, p))
  BY <1>3, <1>6, <1>7, <1>8, FS_Subset
<1>10. Cardinality(Later(h, iv, n)) \in Nat /\ Cardinality(Later(h, iv, p)) \in Nat
  BY <1>3, <1>9, FS_CardinalityType
<1> QED BY <1>9, <1>10

\* How many leaves may be behind a leaf: every one leads to none or to one with fewer.
Ranked(h, rank, N) ==
  /\ N \in Nat /\ rank \in [DOMAIN h -> 0 .. N]
  /\ \A p \in DOMAIN h : h[p].leaf = TRUE =>
       \/ h[p].next = Null
       \/ /\ h[p].next # Null /\ h[p].next \in DOMAIN h /\ h[h[p].next].leaf = TRUE
          /\ rank[h[p].next] < rank[p]

LEMMA ChainRanked ==
  ASSUME NEW h, NEW ht, NEW iv, Tree(h, ht, iv), Chained(h, iv)
  PROVE  \E rank, N : Ranked(h, rank, N)
<1> DEFINE rank == [p \in DOMAIN h |-> Cardinality(Later(h, iv, p))]
           N == Cardinality(DOMAIN h)
<1>1. IsFiniteSet(DOMAIN h) /\ Null \notin DOMAIN h
  BY DEF Tree, IsHeap, Null
<1>2. N \in Nat /\ \A p \in DOMAIN h : Cardinality(Later(h, iv, p)) \in 0 .. N
  <2>1. N \in Nat
    BY <1>1, FS_CardinalityType
  <2>2. ASSUME NEW p \in DOMAIN h PROVE Cardinality(Later(h, iv, p)) \in 0 .. N
    <3>1. IsFiniteSet(Later(h, iv, p)) /\ Cardinality(Later(h, iv, p)) <= N
      BY <1>1, FS_Subset DEF Later
    <3>2. Cardinality(Later(h, iv, p)) \in Nat
      BY <3>1, FS_CardinalityType
    <3> QED BY <2>1, <3>1, <3>2
  <2> QED BY <2>1, <2>2
<1>3. rank \in [DOMAIN h -> 0 .. N]
  BY <1>2
<1>4. ASSUME NEW p \in DOMAIN h, h[p].leaf = TRUE, h[p].next # Null
      PROVE  h[p].next \in DOMAIN h /\ h[h[p].next].leaf = TRUE /\ rank[h[p].next] < rank[p]
  <2> DEFINE n == h[p].next
  <2>1. n \in DOMAIN h /\ h[n].leaf = TRUE /\ Adjacent(iv[p], iv[n])
    BY <1>4 DEF Chained, Follows
  <2> HIDE DEF n
  <2>2. Cardinality(Later(h, iv, n)) < Cardinality(Later(h, iv, p))
    BY <2>1, FewerLater
  <2> QED BY <2>1, <2>2 DEF n
<1> HIDE DEF rank, N
<1>5. Ranked(h, rank, N)
  BY <1>2, <1>3, <1>4 DEF Ranked
<1> QED BY <1>5

\* What is walked through from leaf p on, when f tells it of the next leaf.
WalkStep(h, f, p) ==
  IF h[p].next = Null THEN <<h[p].data>> \o h[p].copies ELSE <<h[p].data>> \o f[h[p].next]

WalkTo(h, rank, n, f) ==
  f = [p \in {q \in DOMAIN h : h[q].leaf = TRUE /\ rank[q] <= n} |-> WalkStep(h, f, p)]

\* f has what the walks yield.
Walks(t, f) ==
  \A p \in DOMAIN t.heap : t.heap[p].leaf = TRUE =>
     ChainFrom(t, p) = f[p] /\ f[p] = WalkStep(t.heap, f, p)

LEMMA WalkEquation ==
  ASSUME NEW t, NEW h, h = t.heap, NEW ht, NEW iv, Tree(h, ht, iv), Chained(h, iv)
  PROVE  \E f : Walks(t, f)
<1>1. PICK rank, N : Ranked(h, rank, N)
  BY ChainRanked
<1> DEFINE L == {q \in DOMAIN h : h[q].leaf}
           D(n) == {q \in DOMAIN h : h[q].leaf = TRUE /\ rank[q] <= n}
           S == {n \in Nat : \E f : WalkTo(h, rank, n, f)}
<1>2. \A p \in DOMAIN h : h[p].leaf \in BOOLEAN
  BY Kind
<1>3. \A p \in DOMAIN h : rank[p] \in Nat
  BY <1>1 DEF Ranked
<1>4. \A p \in DOMAIN h : h[p].leaf = TRUE =>
        \/ h[p].next = Null
        \/ h[p].next \in DOMAIN h /\ h[h[p].next].leaf = TRUE /\ rank[h[p].next] < rank[p]
  BY <1>1 DEF Ranked
<1>5. 0 \in S
  <2> DEFINE f == [p \in D(0) |-> <<h[p].data>> \o h[p].copies]
  <2>1. \A p \in D(0) : h[p].next = Null
    <3> TAKE p \in D(0)
    <3>1. p \in DOMAIN h /\ h[p].leaf = TRUE /\ rank[p] = 0
      BY <1>3
    <3> QED BY <1>3, <1>4, <3>1
  <2>2. \A p \in D(0) : WalkStep(h, f, p) = <<h[p].data>> \o h[p].copies
    BY <2>1 DEF WalkStep
  <2>3. WalkTo(h, rank, 0, f)
    BY <2>2 DEF WalkTo
  <2> QED BY <2>3
<1>6. ASSUME NEW n \in Nat, n \in S PROVE n + 1 \in S
  <2>1. PICK f : WalkTo(h, rank, n, f)
    BY <1>6
  <2> DEFINE g == [p \in D(n + 1) |-> WalkStep(h, f, p)]
  <2>2. \A p \in D(n) : p \in D(n + 1)
    BY <1>3
  <2>3. DOMAIN g = D(n + 1) /\ \A p \in D(n + 1) : g[p] = WalkStep(h, f, p)
    OBVIOUS
  <2>4. \A p \in D(n) : f[p] = WalkStep(h, f, p)
    BY <2>1 DEF WalkTo
  <2>5. g = [p \in D(n + 1) |-> g[p]]
    OBVIOUS
  <2> HIDE DEF g
  <2>6. ASSUME NEW p \in D(n + 1) PROVE WalkStep(h, g, p) = WalkStep(h, f, p)
    <3>0. p \in DOMAIN h /\ h[p].leaf = TRUE /\ rank[p] <= n + 1
      OBVIOUS
    <3>1. CASE h[p].next = Null
      BY <3>1 DEF WalkStep
    <3>2. CASE h[p].next # Null
      <4> DEFINE m == h[p].next
      <4>1. m \in DOMAIN h /\ h[m].leaf = TRUE /\ rank[m] < rank[p]
        BY <1>4, <3>0, <3>2
      <4>2. m \in D(n)
        BY <1>3, <3>0, <4>1
      <4>3. g[m] = f[m]
        BY <2>2, <2>3, <2>4, <4>2
      <4> QED BY <3>2, <4>3 DEF WalkStep
    <3> QED BY <3>1, <3>2
  <2>7. \A p \in D(n + 1) : g[p] = WalkStep(h, g, p)
    BY <2>3, <2>6
  <2>8. WalkTo(h, rank, n + 1, g)
    BY <2>5, <2>7 DEF WalkTo
  <2> QED BY <2>8
<1>7. N \in Nat /\ \A p \in DOMAIN h : rank[p] <= N
  BY <1>1 DEF Ranked
<1>8. \E f : WalkTo(h, rank, N, f)
  <2> HIDE DEF S
  <2>1. Nat \subseteq S
    BY <1>5, <1>6, Induction
  <2>2. N \in S
    BY <1>7, <2>1
  <2> QED BY <2>2 DEF S
<1>9. PICK f : WalkTo(h, rank, N, f)
  BY <1>8
<1>10. D(N) = L
  BY <1>2, <1>7
<1> DEFINE walk == CHOOSE w : w = [q \in {q \in DOMAIN t.heap : t.heap[q].leaf} |->
                     IF t.heap[q].next = Null THEN <<t.heap[q].data>> \o t.heap[q].copies
                     ELSE <<t.heap[q].data>> \o w[t.heap[q].next]]
<1>11. \E f2 : f2 = [q \in {q \in DOMAIN t.heap : t.heap[q].leaf} |->
                     IF t.heap[q].next = Null THEN <<t.heap[q].data>> \o t.heap[q].copies
                     ELSE <<t.heap[q].data>> \o f2[t.heap[q].next]]
  <2>1. f = [q \in {q \in DOMAIN t.heap : t.heap[q].leaf} |-> WalkStep(t.heap, f, q)]
    BY <1>9, <1>10 DEF WalkTo
  <2> QED BY <2>1 DEF WalkStep
<1>12. walk = [q \in L |-> WalkStep(h, walk, q)]
  BY <1>11 DEF WalkStep
<1>13. \A p : ChainFrom(t, p) = walk[p]
  BY DEF ChainFrom
<1> HIDE DEF walk
<1>14. Walks(t, walk)
  BY <1>12, <1>13 DEF Walks
<1> QED BY <1>14

\* P leads from leaf to leaf up to the last one of all, C is what they hold.
Trail(h, iv, P, C) ==
  /\ P \in Seq({q \in DOMAIN h : h[q].leaf = TRUE}) /\ C \in Seq(Seq(Keys \X Values))
  /\ Len(P) >= 1 /\ Len(C) = Len(P)
  /\ \A i \in 1 .. Len(P) : C[i] = h[P[i]].data
  /\ \A i \in 1 .. Len(P) - 1 : Adjacent(iv[P[i]], iv[P[i + 1]])
  /\ Top(iv[P[Len(P)]])

\* C is what the leaves hold from p on.
TrailFrom(h, iv, p, C) == \E P : Trail(h, iv, P, C) /\ P[1] = p

LEMMA TrailEnds ==
  ASSUME NEW h, NEW iv, NEW p \in DOMAIN h, h[p].leaf = TRUE, h[p].data \in Seq(Keys \X Values),
         Top(iv[p])
  PROVE  TrailFrom(h, iv, p, <<h[p].data>>)
<1>1. <<p>> \in Seq({q \in DOMAIN h : h[q].leaf = TRUE}) /\ Len(<<p>>) = 1 /\ <<p>>[1] = p
  OBVIOUS
<1> DEFINE d == h[p].data
<1>2. <<d>> \in Seq(Seq(Keys \X Values)) /\ Len(<<d>>) = 1 /\ <<d>>[1] = d
  OBVIOUS
<1>3. Trail(h, iv, <<p>>, <<d>>)
  BY <1>1, <1>2 DEF Trail
<1> QED BY <1>1, <1>3 DEF TrailFrom

LEMMA TrailGrows ==
  ASSUME NEW h, NEW iv, NEW C, NEW m, TrailFrom(h, iv, m, C),
         NEW p \in DOMAIN h, h[p].leaf = TRUE, h[p].data \in Seq(Keys \X Values),
         Adjacent(iv[p], iv[m])
  PROVE  TrailFrom(h, iv, p, <<h[p].data>> \o C)
<1>0. PICK P : Trail(h, iv, P, C) /\ P[1] = m
  BY DEF TrailFrom
<1> DEFINE L == {q \in DOMAIN h : h[q].leaf = TRUE}
           X == Seq(Keys \X Values)
           d == h[p].data
           a == <<p>>
           b == <<d>>
           Q == a \o P
           B == b \o C
<1>1. P \in Seq(L) /\ C \in Seq(X) /\ Len(P) >= 1 /\ Len(C) = Len(P) /\ Len(P) \in Nat
  BY <1>0, Elements DEF Trail
<1>2. a \in Seq(L) /\ Len(a) = 1 /\ a[1] = p /\ b \in Seq(X) /\ Len(b) = 1 /\ b[1] = d
  OBVIOUS
<1> HIDE DEF L, X, a, b
<1>3. /\ Q \in Seq(L) /\ Len(Q) = Len(P) + 1 /\ Q[1] = p
      /\ \A j \in 1 .. Len(P) : Q[1 + j] = P[j]
  <2>1. /\ a \o P \in Seq(L) /\ Len(a \o P) = Len(a) + Len(P)
        /\ \A j \in 1 .. Len(a) : (a \o P)[j] = a[j]
        /\ \A j \in 1 .. Len(P) : (a \o P)[Len(a) + j] = P[j]
    <3>1. a \in Seq(L) /\ P \in Seq(L)
      BY <1>1, <1>2
    <3> QED BY <3>1, Concat
  <2> QED BY <1>1, <1>2, <2>1
<1>4. /\ B \in Seq(X) /\ Len(B) = Len(P) + 1 /\ B[1] = d
      /\ \A j \in 1 .. Len(P) : B[1 + j] = C[j]
  <2>1. /\ b \o C \in Seq(X) /\ Len(b \o C) = Len(b) + Len(C)
        /\ \A j \in 1 .. Len(b) : (b \o C)[j] = b[j]
        /\ \A j \in 1 .. Len(C) : (b \o C)[Len(b) + j] = C[j]
    <3>1. b \in Seq(X) /\ C \in Seq(X)
      BY <1>1, <1>2
    <3> QED BY <3>1, Concat
  <2> QED BY <1>1, <1>2, <2>1
<1> HIDE DEF Q, B
<1>5. \A i \in 1 .. Len(Q) : i = 1 \/ \E j \in 1 .. Len(P) : i = 1 + j
  <2> TAKE i \in 1 .. Len(Q)
  <2>1. i # 1 => i - 1 \in 1 .. Len(P) /\ i = 1 + (i - 1)
    BY <1>1, <1>3
  <2> QED BY <2>1
<1>6. \A i \in 1 .. Len(Q) : B[i] = h[Q[i]].data
  <2> TAKE i \in 1 .. Len(Q)
  <2>1. CASE i = 1
    BY <1>3, <1>4, <2>1
  <2>2. ASSUME NEW j \in 1 .. Len(P), i = 1 + j PROVE B[i] = h[Q[i]].data
    <3>1. C[j] = h[P[j]].data
      BY <1>0 DEF Trail
    <3> QED BY <1>3, <1>4, <2>2, <3>1
  <2> QED BY <1>5, <2>1, <2>2
<1>7. \A i \in 1 .. Len(Q) - 1 : Adjacent(iv[Q[i]], iv[Q[i + 1]])
  <2> TAKE i \in 1 .. Len(Q) - 1
  <2>1. i \in 1 .. Len(P)
    BY <1>1, <1>3
  <2>2. Q[i + 1] = P[i]
    BY <1>1, <1>3, <2>1
  <2>3. CASE i = 1
    BY <1>0, <1>3, <2>2, <2>3
  <2>4. CASE i # 1
    <3> DEFINE j == i - 1
    <3>1. j \in 1 .. Len(P) - 1 /\ j \in 1 .. Len(P) /\ i = 1 + j /\ i = j + 1
      BY <1>1, <2>1, <2>4
    <3>2. Q[i] = P[j]
      BY <1>3, <3>1
    <3>3. Adjacent(iv[P[j]], iv[P[j + 1]])
      BY <1>0, <3>1 DEF Trail
    <3> QED BY <2>2, <3>1, <3>2, <3>3
  <2> QED BY <2>3, <2>4
<1>8. Top(iv[Q[Len(Q)]])
  <2>1. Q[Len(Q)] = P[Len(P)]
    BY <1>1, <1>3
  <2> QED BY <1>0, <2>1 DEF Trail
<1>9. Trail(h, iv, Q, B)
  <2>1. Len(Q) >= 1 /\ Len(B) = Len(Q)
    BY <1>1, <1>3, <1>4
  <2> QED BY <1>3, <1>4, <1>6, <1>7, <1>8, <2>1 DEF Trail, L, X
<1>10. TrailFrom(h, iv, p, B)
  BY <1>3, <1>9 DEF TrailFrom
<1> QED BY <1>10 DEF B, b

\* The walk from a leaf takes a way from there to the last leaf.
LEMMA WalksTrail ==
  ASSUME NEW t, NEW h, h = t.heap, NEW ht, NEW iv, Tree(h, ht, iv), Chained(h, iv),
         NEW p \in DOMAIN h, h[p].leaf = TRUE
  PROVE  TrailFrom(h, iv, p, ChainFrom(t, p))
<1>0. PICK f : Walks(t, f)
  BY WalkEquation
<1>1. \A q \in DOMAIN h : h[q].leaf = TRUE =>
        ChainFrom(t, q) = f[q] /\ f[q] = WalkStep(h, f, q)
  BY <1>0 DEF Walks
<1>2. PICK rank, N : Ranked(h, rank, N)
  BY ChainRanked
<1>3. N \in Nat /\ \A q \in DOMAIN h : rank[q] \in Nat /\ rank[q] <= N
  BY <1>2 DEF Ranked
<1> DEFINE S == {n \in Nat : \A q \in DOMAIN h :
                               h[q].leaf = TRUE /\ rank[q] <= n => TrailFrom(h, iv, q, f[q])}
<1>4. \A q \in DOMAIN h : h[q].leaf = TRUE =>
        h[q].data \in Seq(Keys \X Values) /\ Follows(h, iv, q)
  BY Kind DEF Chained, LeafFits, IsLeaf
<1>5. ASSUME NEW q \in DOMAIN h, h[q].leaf = TRUE, h[q].next = Null
      PROVE  TrailFrom(h, iv, q, f[q])
  <2> DEFINE d == h[q].data
  <2>1. h[q].copies = <<>> /\ Top(iv[q])
    <3>1. Null \notin DOMAIN h
      BY DEF Tree, IsHeap, Null
    <3> QED BY <1>4, <1>5, <3>1 DEF Follows
  <2>2. f[q] = <<d>> \o <<>>
    BY <1>1, <1>5, <2>1 DEF WalkStep
  <2>3. <<d>> \o <<>> = <<d>>
    OBVIOUS
  <2>4. TrailFrom(h, iv, q, <<d>>)
    BY <1>4, <1>5, <2>1, TrailEnds
  <2> QED BY <2>2, <2>3, <2>4
<1>6. ASSUME NEW q \in DOMAIN h, h[q].leaf = TRUE, h[q].next # Null, TrailFrom(h, iv, h[q].next, f[h[q].next])
      PROVE  TrailFrom(h, iv, q, f[q])
  <2> DEFINE m == h[q].next
  <2>1. Adjacent(iv[q], iv[m])
    BY <1>4, <1>6 DEF Follows
  <2>2. TrailFrom(h, iv, m, f[m])
    BY <1>6
  <2>3. f[q] = <<h[q].data>> \o f[m]
    BY <1>1, <1>6 DEF WalkStep
  <2> HIDE DEF m
  <2>4. h[q].leaf = TRUE /\ h[q].data \in Seq(Keys \X Values)
    BY <1>4, <1>6
  <2> DEFINE C == f[m]
  <2>5. TrailFrom(h, iv, m, C)
    BY <2>2
  <2> HIDE DEF C
  <2>6. TrailFrom(h, iv, q, <<h[q].data>> \o C)
    BY <2>1, <2>4, <2>5, TrailGrows
  <2> QED BY <2>3, <2>6 DEF C
<1>7. \A q \in DOMAIN h : h[q].leaf = TRUE =>
        \/ h[q].next = Null
        \/ /\ h[q].next # Null /\ h[q].next \in DOMAIN h /\ h[h[q].next].leaf = TRUE
           /\ rank[h[q].next] < rank[q]
  BY <1>2 DEF Ranked
<1>8. 0 \in S
  <2> SUFFICES ASSUME NEW q \in DOMAIN h, h[q].leaf = TRUE, rank[q] <= 0 PROVE TrailFrom(h, iv, q, f[q])
    OBVIOUS
  <2>1. h[q].next = Null
    BY <1>3, <1>7
  <2> QED BY <1>5, <2>1
<1>9. ASSUME NEW n \in Nat, n \in S PROVE n + 1 \in S
  <2> HIDE DEF S
  <2>0. \A q \in DOMAIN h : h[q].leaf = TRUE /\ rank[q] <= n => TrailFrom(h, iv, q, f[q])
    BY <1>9 DEF S
  <2>1. \A q \in DOMAIN h : h[q].leaf = TRUE /\ rank[q] <= n + 1 => TrailFrom(h, iv, q, f[q])
    <3> TAKE q \in DOMAIN h
    <3> HAVE h[q].leaf = TRUE /\ rank[q] <= n + 1
    <3>1. CASE h[q].next = Null
      BY <1>5, <3>1
    <3>2. CASE h[q].next # Null
      <4>1. h[q].next \in DOMAIN h /\ h[h[q].next].leaf = TRUE /\ rank[h[q].next] <= n
        BY <1>3, <1>7, <3>2
      <4>2. TrailFrom(h, iv, h[q].next, f[h[q].next])
        BY <2>0, <4>1
      <4> QED BY <1>6, <3>2, <4>2
    <3> QED BY <3>1, <3>2
  <2> QED BY <2>1 DEF S
<1>10. \A q \in DOMAIN h : h[q].leaf = TRUE => TrailFrom(h, iv, q, f[q])
  <2> HIDE DEF S
  <2>1. N \in S
    BY <1>3, <1>8, <1>9, Induction
  <2> QED BY <1>3, <2>1 DEF S
<1>11. ChainFrom(t, p) = f[p]
  BY <1>1
<1> QED BY <1>10, <1>11

-----------------------------------------------------------------------------
(* Sequences one after the other *)

\* The first i sequences of s, when f tells the first i - 1.
FlatStep(s, f, i) == IF i = 1 THEN s[i] ELSE f[i - 1] \o s[i]

FlatTo(s, n, f) == f = [i \in 1 .. n |-> FlatStep(s, f, i)]

LEMMA FlatEquation ==
  ASSUME NEW s, Len(s) \in Nat, Len(s) # 0
  PROVE  \E f : FlattenSeq(s) = f[Len(s)] /\ \A i \in 1 .. Len(s) : f[i] = FlatStep(s, f, i)
<1> DEFINE S == {n \in Nat : \E f : FlatTo(s, n, f)}
<1>1. 0 \in S
  <2> DEFINE f == [i \in 1 .. 0 |-> i]
  <2>1. FlatTo(s, 0, f)
    BY DEF FlatTo
  <2> QED BY <2>1
<1>2. ASSUME NEW n \in Nat, n \in S PROVE n + 1 \in S
  <2>1. PICK f : FlatTo(s, n, f)
    BY <1>2
  <2> DEFINE g == [i \in 1 .. n + 1 |-> FlatStep(s, f, i)]
  <2>2. DOMAIN g = 1 .. n + 1 /\ \A i \in 1 .. n + 1 : g[i] = FlatStep(s, f, i)
    OBVIOUS
  <2>3. \A i \in 1 .. n : f[i] = FlatStep(s, f, i)
    BY <2>1 DEF FlatTo
  <2>4. g = [i \in 1 .. n + 1 |-> g[i]]
    OBVIOUS
  <2> HIDE DEF g
  <2>5. ASSUME NEW i \in 1 .. n + 1 PROVE FlatStep(s, g, i) = FlatStep(s, f, i)
    <3>1. CASE i = 1
      BY <3>1 DEF FlatStep
    <3>2. CASE i # 1
      <4>1. i - 1 \in 1 .. n /\ i - 1 \in 1 .. n + 1
        BY <3>2
      <4>2. g[i - 1] = f[i - 1]
        BY <2>2, <2>3, <4>1
      <4> QED BY <3>2, <4>2 DEF FlatStep
    <3> QED BY <3>1, <3>2
  <2>6. \A i \in 1 .. n + 1 : g[i] = FlatStep(s, g, i)
    BY <2>2, <2>5
  <2>7. FlatTo(s, n + 1, g)
    BY <2>4, <2>6 DEF FlatTo
  <2> QED BY <2>7
<1>3. \E f : FlatTo(s, Len(s), f)
  <2> HIDE DEF S
  <2>1. Len(s) \in S
    BY <1>1, <1>2, Induction
  <2> QED BY <2>1 DEF S
<1> DEFINE flat == CHOOSE f : f = [i \in 1 .. Len(s) |-> IF i = 1 THEN s[i] ELSE f[i - 1] \o s[i]]
<1>4. \E f : f = [i \in 1 .. Len(s) |-> IF i = 1 THEN s[i] ELSE f[i - 1] \o s[i]]
  BY <1>3 DEF FlatTo, FlatStep
<1>5. flat = [i \in 1 .. Len(s) |-> FlatStep(s, flat, i)]
  BY <1>4 DEF FlatStep
<1>6. FlattenSeq(s) = flat[Len(s)]
  BY DEF FlattenSeq
<1> HIDE DEF flat
<1>7. \A i \in 1 .. Len(s) : flat[i] = FlatStep(s, flat, i)
  BY <1>5
<1> QED BY <1>6, <1>7

-----------------------------------------------------------------------------
(* Where the walk begins *)

\* I has no beginning.
Bottom(I) == \A x \in I : \A y \in Int : y < x => y \in I

\* The first child of an internal node.
FirstKid(h, ht, iv, p, c) ==
  /\ c \in DOMAIN h /\ ht[c] = ht[p] - 1
  /\ Bottom(iv[p]) => Bottom(iv[c])

LEMMA FirstKidOf ==
  ASSUME NEW h, NEW ht, NEW iv, Tree(h, ht, iv), NEW p \in DOMAIN h, h[p].leaf = FALSE
  PROVE  FirstKid(h, ht, iv, p, h[p].kids[1])
<1> DEFINE s == h[p].keys
           c == h[p].kids[1]
<1>1. InternalFits(h, ht, iv, p)
  BY Kind
<1>2. Parent(h, ht, iv, p) /\ Children(h, ht, iv, p)
  BY <1>1, Family
<1>3. 1 \in 1 .. Len(h[p].kids) /\ Len(s) \in Nat /\ \A i \in 1 .. Len(s) : s[i] \in Int
  BY <1>2 DEF Parent
<1>4. c \in DOMAIN h /\ ht[c] = ht[p] - 1 /\ iv[c] = Slice(iv[p], s, 1)
  BY <1>2, <1>3 DEF Children
<1>5. iv[p] \subseteq Int
  BY Kind
<1> HIDE DEF s, c
<1>6. ASSUME Bottom(iv[p]), NEW x \in iv[c], NEW y \in Int, y < x PROVE y \in iv[c]
  <2>1. x \in iv[p] /\ x \in Int /\ (1 <= Len(s) => x < s[1])
    BY <1>4, <1>5 DEF Slice
  <2>2. y \in iv[p]
    BY <1>6, <2>1 DEF Bottom
  <2>3. 1 <= Len(s) => y < s[1]
    <3> HAVE 1 <= Len(s)
    <3>1. s[1] \in Int
      BY <1>3
    <3> QED BY <1>6, <2>1, <3>1
  <2> QED BY <1>4, <2>2, <2>3 DEF Slice
<1>7. FirstKid(h, ht, iv, p, c)
  BY <1>4, <1>6 DEF FirstKid, Bottom
<1> QED BY <1>7 DEF c

\* The leaf the first children of node p lead to, when f tells it of the child.
FirstStep(h, f, p) == IF h[p].leaf THEN p ELSE f[h[p].kids[1]]

FirstTo(h, ht, n, f) ==
  f = [p \in {q \in DOMAIN h : ht[q] <= n} |-> FirstStep(h, f, p)]

\* The leaf down the first children.
Leftmost(h, iv, q) == q \in DOMAIN h /\ h[q].leaf = TRUE /\ Bottom(iv[q])

LEMMA FirstIsLeftmost ==
  ASSUME NEW t, NEW h, h = t.heap, NEW ht, NEW iv, RootedAt(h, t.root, ht, iv)
  PROVE  Leftmost(h, iv, FirstLeaf(t))
<1> DEFINE D(n) == {p \in DOMAIN h : ht[p] <= n}
           S == {n \in Nat : \E f : FirstTo(h, ht, n, f)}
           N == ht[t.root]
<1>1. Tree(h, ht, iv) /\ t.root \in DOMAIN h /\ iv[t.root] = Int
  BY DEF RootedAt
<1>2. N \in Nat /\ \A p \in DOMAIN h : ht[p] \in Nat /\ ht[p] <= N
  BY Heights
<1>3. \A p \in DOMAIN h : h[p].leaf = FALSE => FirstKid(h, ht, iv, p, h[p].kids[1])
  BY <1>1, FirstKidOf
<1>4. \A p \in DOMAIN h : \/ h[p].leaf = TRUE /\ ht[p] = 0
                          \/ h[p].leaf = FALSE /\ ht[p] > 0
  BY <1>1, NodeKind
<1>5. 0 \in S
  <2> DEFINE f == [p \in D(0) |-> p]
  <2>1. \A p \in D(0) : h[p].leaf = TRUE
    BY <1>2, <1>4
  <2>2. \A p \in D(0) : FirstStep(h, f, p) = p
    BY <2>1 DEF FirstStep
  <2>3. FirstTo(h, ht, 0, f)
    BY <2>2 DEF FirstTo
  <2> QED BY <2>3
<1>6. ASSUME NEW n \in Nat, n \in S PROVE n + 1 \in S
  <2>1. PICK f : FirstTo(h, ht, n, f)
    BY <1>6
  <2> DEFINE g == [p \in D(n + 1) |-> FirstStep(h, f, p)]
  <2>2. \A p \in D(n) : p \in D(n + 1)
    BY <1>2
  <2>3. DOMAIN g = D(n + 1) /\ \A p \in D(n + 1) : g[p] = FirstStep(h, f, p)
    OBVIOUS
  <2>4. \A p \in D(n) : f[p] = FirstStep(h, f, p)
    BY <2>1 DEF FirstTo
  <2>5. g = [p \in D(n + 1) |-> g[p]]
    OBVIOUS
  <2> HIDE DEF g
  <2>6. ASSUME NEW p \in D(n + 1) PROVE FirstStep(h, g, p) = FirstStep(h, f, p)
    <3>1. CASE h[p].leaf = TRUE
      BY <3>1 DEF FirstStep
    <3>2. CASE h[p].leaf = FALSE
      <4> DEFINE c == h[p].kids[1]
      <4>1. c \in DOMAIN h /\ ht[c] = ht[p] - 1
        BY <1>3, <3>2 DEF FirstKid
      <4>2. c \in D(n)
        BY <1>2, <4>1
      <4>3. g[c] = f[c]
        BY <2>2, <2>3, <2>4, <4>2
      <4> QED BY <3>2, <4>3 DEF FirstStep
    <3> QED BY <1>4, <3>1, <3>2
  <2>7. \A p \in D(n + 1) : g[p] = FirstStep(h, g, p)
    BY <2>3, <2>6
  <2>8. FirstTo(h, ht, n + 1, g)
    BY <2>5, <2>7 DEF FirstTo
  <2> QED BY <2>8
<1>7. \E f : FirstTo(h, ht, N, f)
  <2> HIDE DEF S
  <2>1. N \in S
    BY <1>2, <1>5, <1>6, Induction
  <2> QED BY <2>1 DEF S
<1>8. D(N) = DOMAIN h
  BY <1>2
<1> DEFINE down == CHOOSE f : f = [p \in DOMAIN t.heap |->
                                     IF t.heap[p].leaf THEN p ELSE f[t.heap[p].kids[1]]]
<1>9. \E f2 : f2 = [p \in DOMAIN t.heap |->
                      IF t.heap[p].leaf THEN p ELSE f2[t.heap[p].kids[1]]]
  BY <1>7, <1>8 DEF FirstStep, FirstTo
<1>10. down = [p \in DOMAIN h |-> FirstStep(h, down, p)]
  BY <1>9 DEF FirstStep
<1>11. FirstLeaf(t) = down[t.root]
  BY DEF FirstLeaf
<1> HIDE DEF down
<1>12. \A p \in DOMAIN h : down[p] = FirstStep(h, down, p)
  BY <1>10
<1> DEFINE T == {n \in Nat : \A p \in DOMAIN h :
                               ht[p] = n /\ Bottom(iv[p]) => Leftmost(h, iv, down[p])}
<1>13. \A p \in DOMAIN h : h[p].leaf = TRUE /\ Bottom(iv[p]) => Leftmost(h, iv, down[p])
  BY <1>12 DEF FirstStep, Leftmost
<1>14. 0 \in T
  BY <1>4, <1>13
<1>15. ASSUME NEW n \in Nat, n \in T PROVE n + 1 \in T
  <2> SUFFICES \A p \in DOMAIN h : ht[p] = n + 1 /\ Bottom(iv[p]) => Leftmost(h, iv, down[p])
    OBVIOUS
  <2> TAKE p \in DOMAIN h
  <2> HAVE ht[p] = n + 1 /\ Bottom(iv[p])
  <2>1. h[p].leaf = FALSE
    BY <1>4
  <2> DEFINE c == h[p].kids[1]
  <2>2. c \in DOMAIN h /\ ht[c] = n /\ Bottom(iv[c])
    <3>1. FirstKid(h, ht, iv, p, c)
      BY <1>3, <2>1
    <3> QED BY <3>1 DEF FirstKid
  <2>3. down[p] = down[c]
    BY <1>12, <2>1 DEF FirstStep
  <2> HIDE DEF c
  <2>4. Leftmost(h, iv, down[c])
    BY <1>15, <2>2
  <2> QED BY <2>3, <2>4
<1>16. Leftmost(h, iv, down[t.root])
  <2> HIDE DEF T
  <2>1. N \in T
    BY <1>2, <1>14, <1>15, Induction
  <2>2. Bottom(iv[t.root])
    BY <1>1 DEF Bottom
  <2> QED BY <1>1, <2>1, <2>2 DEF T
<1> QED BY <1>11, <1>16

-----------------------------------------------------------------------------
(* What the walk meets *)

\* s has the entries of D, each once and in the order of keys.
Lists(s, D) ==
  /\ s \in Seq(Keys \X Values)
  /\ \A i, j \in 1 .. Len(s) : i < j => s[i][1] < s[j][1]
  /\ \A i \in 1 .. Len(s) : s[i] \in D
  /\ \A e \in D : Holds(s, e)

\* Two lists, the second with higher keys, make one.
LEMMA ListsBoth ==
  ASSUME NEW a, NEW A, Lists(a, A), NEW b, NEW B, Lists(b, B),
         \A d \in A, e \in B : d[1] < e[1]
  PROVE  Lists(a \o b, A \cup B)
<1> DEFINE s == a \o b
           X == Keys \X Values
<1>1. /\ a \in Seq(X) /\ b \in Seq(X) /\ Len(a) \in Nat /\ Len(b) \in Nat
  BY Elements DEF Lists
<1>2. /\ s \in Seq(X) /\ Len(s) = Len(a) + Len(b)
      /\ \A j \in 1 .. Len(a) : s[j] = a[j]
      /\ \A j \in 1 .. Len(b) : s[Len(a) + j] = b[j]
  <2> HIDE DEF X
  <2> QED BY <1>1, Concat
<1> HIDE DEF s
<1>3. \A i \in 1 .. Len(s) :
        \/ i \in 1 .. Len(a) /\ s[i] = a[i]
        \/ i - Len(a) \in 1 .. Len(b) /\ s[i] = b[i - Len(a)]
  <2> TAKE i \in 1 .. Len(s)
  <2>1. CASE i <= Len(a)
    BY <1>1, <1>2, <2>1
  <2>2. CASE i > Len(a)
    <3> DEFINE j == i - Len(a)
    <3>1. j \in 1 .. Len(b) /\ i = Len(a) + j
      BY <1>1, <1>2, <2>2
    <3> QED BY <1>2, <3>1
  <2> QED BY <1>1, <2>1, <2>2
<1>4. ASSUME NEW i \in 1 .. Len(s), NEW j \in 1 .. Len(s), i < j PROVE s[i][1] < s[j][1]
  <2>1. CASE i \in 1 .. Len(a) /\ j \in 1 .. Len(a)
    BY <1>2, <1>4, <2>1 DEF Lists
  <2>2. CASE i \in 1 .. Len(a) /\ s[i] = a[i] /\ j - Len(a) \in 1 .. Len(b) /\ s[j] = b[j - Len(a)]
    <3>1. s[i] \in A /\ s[j] \in B
      BY <2>2 DEF Lists
    <3> QED BY <3>1
  <2>3. CASE i - Len(a) \in 1 .. Len(b) /\ s[i] = b[i - Len(a)]
    <3>1. j - Len(a) \in 1 .. Len(b) /\ s[j] = b[j - Len(a)]
      BY <1>1, <1>3, <1>4, <2>3
    <3>2. i - Len(a) < j - Len(a)
      BY <1>1, <1>2, <1>4
    <3> QED BY <2>3, <3>1, <3>2 DEF Lists
  <2> QED BY <1>3, <2>1, <2>2, <2>3
<1>5. \A i \in 1 .. Len(s) : s[i] \in A \cup B
  BY <1>3 DEF Lists
<1>6. ASSUME NEW e \in A \cup B PROVE Holds(s, e)
  <2>1. CASE e \in A
    <3>1. PICK j \in 1 .. Len(a) : a[j] = e
      BY <2>1 DEF Lists, Holds
    <3>2. j \in 1 .. Len(s) /\ s[j] = e
      BY <1>1, <1>2, <3>1
    <3> QED BY <3>2 DEF Holds
  <2>2. CASE e \in B
    <3>1. PICK j \in 1 .. Len(b) : b[j] = e
      BY <2>2 DEF Lists, Holds
    <3>2. Len(a) + j \in 1 .. Len(s) /\ s[Len(a) + j] = e
      BY <1>1, <1>2, <3>1
    <3> QED BY <3>2 DEF Holds
  <2> QED BY <2>1, <2>2
<1>7. Lists(s, A \cup B)
  BY <1>2, <1>4, <1>5, <1>6 DEF Lists
<1> QED BY <1>7 DEF s

\* A list counts what it has.
LEMMA ListCounts ==
  ASSUME NEW s, NEW D, Lists(s, D)
  PROVE  ToSet(s) = D /\ IsFiniteSet(D) /\ Cardinality(D) = Len(s)
<1>1. /\ Len(s) \in Nat /\ ToSet(s) = {s[i] : i \in 1 .. Len(s)}
      /\ \A i \in 1 .. Len(s) : s[i] \in Keys \X Values
  BY Elements, SetOf DEF Lists
<1>2. ToSet(s) = D
  BY <1>1 DEF Lists, Holds
<1> DEFINE f == [i \in 1 .. Len(s) |-> s[i]]
<1>3. f \in Bijection(1 .. Len(s), D)
  <2>1. f \in [1 .. Len(s) -> D]
    BY DEF Lists
  <2>2. \A e \in D : \E i \in 1 .. Len(s) : f[i] = e
    BY DEF Lists, Holds
  <2>3. \A i, j \in 1 .. Len(s) : f[i] = f[j] => i = j
    <3> SUFFICES ASSUME NEW i \in 1 .. Len(s), NEW j \in 1 .. Len(s), s[i] = s[j], i # j PROVE FALSE
      OBVIOUS
    <3>1. i < j \/ j < i
      BY <1>1
    <3>2. s[i][1] < s[i][1]
      BY <3>1 DEF Lists
    <3>3. s[i][1] \in Int
      BY <1>1, TreeAssumption
    <3> QED BY <3>2, <3>3
  <2> HIDE DEF f
  <2> QED BY <2>1, <2>2, <2>3 DEF Bijection, Injection, Surjection, IsInjective
<1>4. ExistsBijection(1 .. Len(s), D)
  BY <1>3 DEF ExistsBijection
<1> QED BY <1>1, <1>2, <1>4, FS_NatBijection, FS_CountingElements

\* The entries with a key in I.
Within(E, I) == {e \in E : e[1] \in I}

LEMMA LeafLists ==
  ASSUME NEW h, NEW ht, NEW iv, Tree(h, ht, iv), NEW p \in DOMAIN h, h[p].leaf = TRUE
  PROVE  Lists(h[p].data, Within(Entries(h), iv[p]))
<1> DEFINE s == h[p].data
           D == Within(Entries(h), iv[p])
<1>1. LeafFits(h, ht, iv, p)
  BY Kind
<1>2. s \in Seq(Keys \X Values) /\ DataFits(s, iv[p])
  BY <1>1 DEF LeafFits, IsLeaf
<1>3. \A i \in 1 .. Len(s) : s[i] \in Keys \X Values
  BY <1>2, Elements
<1>4. \A e \in Keys \X Values : e[1] \in iv[p] => (e \in Entries(h) <=> Holds(s, e))
  BY LeafEntries
<1> HIDE DEF s
<1>5. \A i \in 1 .. Len(s) : s[i] \in D
  <2> TAKE i \in 1 .. Len(s)
  <2>1. Holds(s, s[i])
    BY DEF Holds
  <2>2. s[i][1] \in iv[p]
    BY <1>2 DEF DataFits
  <2> QED BY <1>3, <1>4, <2>1, <2>2 DEF Within
<1>6. \A e \in D : Holds(s, e)
  BY <1>4 DEF Within, Entries
<1> HIDE DEF D
<1>7. Lists(s, D)
  BY <1>2, <1>5, <1>6 DEF Lists, DataFits
<1> QED BY <1>7 DEF s, D

\* The keys up to the end of I.
Upto(I) == {y \in Int : \E x \in I : y <= x}

LEMMA UptoNext ==
  ASSUME NEW I, NEW J, I \subseteq Int, J \subseteq Int, I # {}, J # {}, Convex(J), Adjacent(I, J)
  PROVE  Upto(J) = Upto(I) \cup J /\ \A x \in Upto(I), z \in J : x < z
<1>1. \A x \in Upto(I), z \in J : x < z
  <2> SUFFICES ASSUME NEW y \in Int, NEW x \in I, y <= x, NEW z \in J PROVE y < z
    BY DEF Upto
  <2>1. x < z /\ x \in Int /\ z \in Int
    BY DEF Adjacent
  <2> QED BY <2>1
<1>2. ASSUME NEW y \in Upto(J) PROVE y \in Upto(I) \cup J
  <2>1. PICK z \in J : y <= z
    BY DEF Upto
  <2>2. PICK x \in I : x \in Int
    OBVIOUS
  <2>3. y \in Int /\ z \in Int /\ x < z
    BY <2>2 DEF Upto, Adjacent
  <2>4. CASE y <= x
    BY <2>3, <2>4 DEF Upto
  <2>5. CASE y = z
    BY <2>5
  <2>6. CASE x < y /\ y < z
    <3>1. y \in I \/ y \in J
      BY <2>3, <2>6 DEF Adjacent
    <3> QED BY <2>3, <3>1 DEF Upto
  <2> QED BY <2>1, <2>2, <2>3, <2>4, <2>5, <2>6
<1>3. ASSUME NEW y \in Upto(I) PROVE y \in Upto(J)
  <2>1. PICK z \in J : z \in Int
    OBVIOUS
  <2>2. y < z /\ y \in Int
    BY <1>1 DEF Upto
  <2> QED BY <2>1, <2>2 DEF Upto
<1>4. \A z \in J : z \in Upto(J)
  BY DEF Upto
<1> QED BY <1>1, <1>2, <1>3, <1>4

\* A trail that begins at the first leaf meets all entries.
LEMMA TrailLists ==
  ASSUME NEW h, NEW ht, NEW iv, Tree(h, ht, iv), NEW p, Leftmost(h, iv, p),
         NEW C, TrailFrom(h, iv, p, C)
  PROVE  Lists(FlattenSeq(C), Entries(h))
<1> DEFINE E == Entries(h)
           L == {q \in DOMAIN h : h[q].leaf = TRUE}
<1>1. PICK P : Trail(h, iv, P, C) /\ P[1] = p
  BY DEF TrailFrom
<1>2. /\ P \in Seq(L) /\ Len(P) >= 1 /\ Len(C) = Len(P)
      /\ \A i \in 1 .. Len(P) : C[i] = h[P[i]].data
      /\ \A i \in 1 .. Len(P) - 1 : Adjacent(iv[P[i]], iv[P[i + 1]])
      /\ Top(iv[P[Len(P)]])
  BY <1>1 DEF Trail
<1>3. Len(P) \in Nat /\ \A i \in 1 .. Len(P) : P[i] \in L
  <2> HIDE DEF L
  <2> QED BY <1>2, Elements
<1>4. PICK f : FlattenSeq(C) = f[Len(C)] /\ \A i \in 1 .. Len(C) : f[i] = FlatStep(C, f, i)
  <2>1. Len(C) \in Nat /\ Len(C) # 0
    BY <1>2, <1>3
  <2> QED BY <2>1, FlatEquation
<1> DEFINE n == Len(P)
<1>5. \A i \in 1 .. n : /\ Lists(C[i], Within(E, iv[P[i]]))
                        /\ iv[P[i]] \subseteq Int /\ iv[P[i]] # {} /\ Convex(iv[P[i]])
  <2> TAKE i \in 1 .. n
  <2> DEFINE q == P[i]
  <2>1. q \in DOMAIN h /\ h[q].leaf = TRUE /\ C[i] = h[q].data
    BY <1>2, <1>3
  <2> HIDE DEF q, E
  <2>2. Lists(h[q].data, Within(E, iv[q]))
    BY <2>1, LeafLists DEF E
  <2>3. iv[q] \subseteq Int /\ iv[q] # {} /\ Convex(iv[q])
    BY <2>1, Kind
  <2> QED BY <2>1, <2>2, <2>3 DEF q
<1> DEFINE S == {i \in Nat : i + 1 \in 1 .. n => Lists(f[i + 1], Within(E, Upto(iv[P[i + 1]])))}
<1> HIDE DEF E, L
<1>6. 0 \in S
  <2>1. 1 \in 1 .. n
    BY <1>2, <1>3
  <2>2. f[1] = C[1]
    BY <1>2, <1>4, <2>1 DEF FlatStep
  <2>3. Upto(iv[P[1]]) = iv[P[1]]
    <3>1. Bottom(iv[P[1]]) /\ iv[P[1]] \subseteq Int
      BY <1>1, <1>5, <2>1 DEF Leftmost
    <3> QED BY <3>1 DEF Bottom, Upto
  <2>4. Lists(f[1], Within(E, Upto(iv[P[1]])))
    BY <1>5, <2>1, <2>2, <2>3
  <2> QED BY <2>4
<1>7. ASSUME NEW i \in Nat, i \in S PROVE i + 1 \in S
  <2> DEFINE j == i + 1
             A == Within(E, Upto(iv[P[j]]))
             B == Within(E, iv[P[j + 1]])
  <2>1. ASSUME j + 1 \in 1 .. n PROVE Lists(f[j + 1], Within(E, Upto(iv[P[j + 1]])))
    <3>1. j \in 1 .. n /\ j \in 1 .. n - 1 /\ j + 1 # 1 /\ (j + 1) - 1 = j
      BY <1>3, <2>1
    <3>2. Lists(f[j], A)
      BY <1>7, <3>1
    <3>3. Lists(C[j + 1], B)
      BY <1>5, <2>1
    <3>4. f[j + 1] = f[j] \o C[j + 1]
      BY <1>2, <1>4, <2>1, <3>1 DEF FlatStep
    <3>5. /\ Upto(iv[P[j + 1]]) = Upto(iv[P[j]]) \cup iv[P[j + 1]]
          /\ \A x \in Upto(iv[P[j]]), z \in iv[P[j + 1]] : x < z
      <4> DEFINE U == iv[P[j]]
                 V == iv[P[j + 1]]
      <4>1. Adjacent(U, V) /\ U \subseteq Int /\ U # {} /\ V \subseteq Int /\ V # {} /\ Convex(V)
        BY <1>2, <1>5, <2>1, <3>1
      <4> HIDE DEF U, V
      <4>2. Upto(V) = Upto(U) \cup V /\ \A x \in Upto(U), z \in V : x < z
        BY <4>1, UptoNext
      <4> QED BY <4>2 DEF U, V
    <3>6. Within(E, Upto(iv[P[j + 1]])) = A \cup B
      BY <3>5 DEF Within
    <3>7. \A d \in A, e \in B : d[1] < e[1]
      BY <3>5 DEF Within
    <3> HIDE DEF A, B, j
    <3>8. Lists(f[j] \o C[j + 1], A \cup B)
      BY <3>2, <3>3, <3>7, ListsBoth
    <3> QED BY <3>4, <3>6, <3>8
  <2> QED BY <2>1
<1>8. Lists(f[n], Within(E, Upto(iv[P[n]])))
  <2>1. n - 1 \in Nat /\ (n - 1) + 1 = n /\ n \in 1 .. n
    BY <1>2, <1>3
  <2>2. n - 1 \in S
    <3> HIDE DEF S, n
    <3> QED BY <1>6, <1>7, <2>1, Induction
  <2> QED BY <2>1, <2>2
<1>9. Within(E, Upto(iv[P[n]])) = E
  <2>1. \A e \in E : e[1] \in Int
    BY TreeAssumption DEF E, Entries
  <2>2. Top(iv[P[n]]) /\ iv[P[n]] # {} /\ iv[P[n]] \subseteq Int
    BY <1>2, <1>3, <1>5
  <2>3. \A y \in Int : y \in Upto(iv[P[n]])
    <3> TAKE y \in Int
    <3>1. PICK x \in iv[P[n]] : x \in Int
      BY <2>2
    <3>2. CASE y <= x
      BY <3>1, <3>2 DEF Upto
    <3>3. CASE x < y
      BY <2>2, <3>1, <3>3 DEF Upto, Top
    <3> QED BY <3>1, <3>2, <3>3
  <2> QED BY <2>1, <2>3 DEF Within
<1>10. FlattenSeq(C) = f[n]
  BY <1>2, <1>4
<1> QED BY <1>8, <1>9, <1>10 DEF E

-----------------------------------------------------------------------------
(* How many entries there are *)

\* size() counts the entries.
Counted(t, E) == IsFiniteSet(E) /\ t.size = Cardinality(E)

LEMMA InsertedSize ==
  ASSUME NEW t, NEW k, NEW v
  PROVE  Inserted(t, k, v).size = t.size + 1
BY DEF Inserted, SplitRoot

LEMMA ErasedSize ==
  ASSUME NEW t, NEW k
  PROVE  Erased(t, k).size = t.size - 1
BY DEF Erased

LEMMA InsertCounts ==
  ASSUME NEW t, NEW E, Counted(t, E), NEW k, NEW v, Absent(E, k)
  PROVE  Counted(Inserted(t, k, v), WithEntry(E, k, v))
<1>1. <<k, v>> \notin E
  BY DEF Absent
<1>2. /\ IsFiniteSet(WithEntry(E, k, v))
      /\ Cardinality(WithEntry(E, k, v)) = Cardinality(E) + 1
  BY <1>1, FS_AddElement DEF Counted, WithEntry
<1> QED BY <1>2, InsertedSize DEF Counted

LEMMA EraseCounts ==
  ASSUME NEW t, NEW E, NEW linked, Whole(t, E, linked), Counted(t, E), NEW k, ~Absent(E, k)
  PROVE  Counted(Erased(t, k), WithoutKey(E, k))
<1>1. PICK e \in E : e[1] = k
  BY DEF Absent
<1>2. \A d \in E : d[1] = k => d = e
  BY <1>1, WholeHolds
<1>3. WithoutKey(E, k) = E \ {e}
  BY <1>1, <1>2 DEF WithoutKey
<1>4. /\ IsFiniteSet(WithoutKey(E, k))
      /\ Cardinality(WithoutKey(E, k)) = Cardinality(E) - 1
  BY <1>1, <1>3, FS_RemoveElement DEF Counted
<1> QED BY <1>4, ErasedSize DEF Counted

LEMMA AssignCounts ==
  ASSUME NEW t, NEW E, NEW linked, Whole(t, E, linked), Counted(t, E), NEW k, NEW v, ~Absent(E, k)
  PROVE  Counted(Assigned(t, k, v), Overwritten(E, k, v))
<1> DEFINE F == WithoutKey(E, k)
<1>1. Erased(t, k).size = t.size - 1 /\ Counted(Erased(t, k), F)
  BY ErasedSize, EraseCounts
<1>2. IsFiniteSet(F) /\ Cardinality(F) = Cardinality(E) - 1
  BY <1>1 DEF Counted
<1>3. <<k, v>> \notin F
  BY DEF WithoutKey
<1> HIDE DEF F
<1>4. /\ IsFiniteSet(WithEntry(F, k, v))
      /\ Cardinality(WithEntry(F, k, v)) = Cardinality(F) + 1
  BY <1>2, <1>3, FS_AddElement DEF WithEntry
<1>5. Cardinality(E) \in Nat
  BY FS_CardinalityType DEF Counted
<1>6. Assigned(t, k, v).size = t.size
  BY DEF Assigned
<1> QED BY <1>2, <1>4, <1>5, <1>6 DEF Counted, Overwritten, F

\* Until the tree is read back from its pages.
SizeInv == TreeInv /\ (~reloaded => Counted(tree, Entries(tree.heap)))

LEMMA NextCounts ==
  ASSUME Order >= 3, SizeInv, Next
  PROVE  SizeInv'
<1> DEFINE E == Entries(tree.heap)
<1>0. Whole(tree, E, ~reloaded)
  BY DEF SizeInv, TreeInv
<1>1. \A k \in Keys : Found(tree, k) <=> ~Absent(E, k)
  BY <1>0, WholeFinds
<1> HIDE DEF E
<1>2. ASSUME NEW E2, Whole(tree', E2, ~reloaded'), ~reloaded' => Counted(tree', E2)
      PROVE  SizeInv'
  <2>1. E2 = Entries(tree'.heap)
    BY <1>2, WholeHolds
  <2> QED BY <1>2, <2>1 DEF SizeInv, TreeInv
<1>3. ASSUME NEW k \in Keys, NEW v \in Values, Emplace(k, v) PROVE SizeInv'
  <2> DEFINE E2 == IF Absent(E, k) THEN Overwritten(E, k, v) ELSE E
  <2>1. Whole(tree', E2, ~reloaded')
    BY <1>0, <1>3, EmplaceHolds DEF Emplace
  <2>2. ASSUME ~reloaded' PROVE Counted(tree', E2)
    <3>1. Counted(tree, E) /\ tree' = IF Found(tree, k) THEN tree ELSE Inserted(tree, k, v)
      BY <1>3, <2>2 DEF Emplace, SizeInv, E
    <3>2. CASE Absent(E, k)
      <4>1. Counted(Inserted(tree, k, v), WithEntry(E, k, v))
        BY <1>0, <3>1, <3>2, InsertCounts
      <4>2. WithoutKey(E, k) = E
        BY <3>2, WithoutAbsent
      <4> QED BY <1>1, <3>1, <3>2, <4>1, <4>2 DEF Overwritten
    <3>3. CASE ~Absent(E, k)
      BY <1>1, <3>1, <3>3
    <3> QED BY <3>2, <3>3
  <2> QED BY <1>2, <2>1, <2>2
<1>4. ASSUME NEW k \in Keys, NEW v \in Values, InsertOrAssign(k, v) PROVE SizeInv'
  <2> DEFINE E2 == Overwritten(E, k, v)
  <2>1. Whole(tree', E2, ~reloaded')
    BY <1>0, <1>4, AssignHolds DEF InsertOrAssign
  <2>2. ASSUME ~reloaded' PROVE Counted(tree', E2)
    <3>1. /\ Counted(tree, E)
          /\ tree' = IF Found(tree, k) THEN Assigned(tree, k, v) ELSE Inserted(tree, k, v)
      BY <1>4, <2>2 DEF InsertOrAssign, SizeInv, E
    <3>2. CASE Absent(E, k)
      <4>1. Counted(Inserted(tree, k, v), WithEntry(E, k, v))
        BY <1>0, <3>1, <3>2, InsertCounts
      <4>2. WithoutKey(E, k) = E
        BY <3>2, WithoutAbsent
      <4> QED BY <1>1, <3>1, <3>2, <4>1, <4>2 DEF Overwritten
    <3>3. CASE ~Absent(E, k)
      <4>1. Counted(Assigned(tree, k, v), E2)
        BY <1>0, <3>1, <3>3, AssignCounts
      <4> QED BY <1>1, <3>1, <3>3, <4>1
    <3> QED BY <3>2, <3>3
  <2> QED BY <1>2, <2>1, <2>2
<1>5. ASSUME NEW k \in Keys, NEW v \in Values, Store(k, v) PROVE SizeInv'
  <2> DEFINE E2 == Overwritten(E, k, v)
             F == WithoutKey(E, k)
             t == IF Found(tree, k) THEN Erased(tree, k) ELSE tree
  <2>1. Whole(tree', E2, ~reloaded')
    BY <1>0, <1>5, StoreHolds DEF Store
  <2>2. ASSUME ~reloaded' PROVE Counted(tree', E2)
    <3>1. Counted(tree, E) /\ tree' = Inserted(t, k, v)
      BY <1>5, <2>2 DEF Store, SizeInv, E
    <3>2. Whole(t, F, ~reloaded)
      BY <1>0, EraseHolds
    <3>3. Counted(t, F)
      <4>1. CASE Absent(E, k)
        <5>1. F = E
          BY <4>1, WithoutAbsent
        <5> QED BY <1>1, <3>1, <4>1, <5>1
      <4>2. CASE ~Absent(E, k)
        <5>1. Counted(Erased(tree, k), F)
          BY <1>0, <3>1, <4>2, EraseCounts
        <5> QED BY <1>1, <4>2, <5>1
      <4> QED BY <4>1, <4>2
    <3>4. Absent(F, k)
      BY DEF Absent, WithoutKey
    <3> HIDE DEF t, F
    <3>5. Counted(Inserted(t, k, v), WithEntry(F, k, v))
      BY <3>2, <3>3, <3>4, InsertCounts
    <3> QED BY <3>1, <3>5 DEF Overwritten, F
  <2> QED BY <1>2, <2>1, <2>2
<1>6. ASSUME NEW k \in Keys, EraseKey(k) PROVE SizeInv'
  <2> DEFINE E2 == WithoutKey(E, k)
  <2>1. Whole(tree', E2, ~reloaded')
    BY <1>0, <1>6, EraseHolds DEF EraseKey
  <2>2. ASSUME ~reloaded' PROVE Counted(tree', E2)
    <3>1. Counted(tree, E) /\ tree' = IF Found(tree, k) THEN Erased(tree, k) ELSE tree
      BY <1>6, <2>2 DEF EraseKey, SizeInv, E
    <3>2. CASE Absent(E, k)
      <4>1. WithoutKey(E, k) = E
        BY <3>2, WithoutAbsent
      <4> QED BY <1>1, <3>1, <3>2, <4>1
    <3>3. CASE ~Absent(E, k)
      <4>1. Counted(Erased(tree, k), E2)
        BY <1>0, <3>1, <3>3, EraseCounts
      <4> QED BY <1>1, <3>1, <3>3, <4>1
    <3> QED BY <3>2, <3>3
  <2> QED BY <1>2, <2>1, <2>2
<1>7. ASSUME Reload PROVE SizeInv'
  <2>1. Whole(tree', E, ~reloaded')
    BY <1>0, <1>7, ReloadHolds DEF Reload
  <2> QED BY <1>2, <1>7, <2>1 DEF Reload
<1>8. ASSUME Clear PROVE SizeInv'
  <2>1. Whole(tree', {}, ~reloaded')
    BY <1>8, EmptyHolds DEF Clear
  <2>2. Counted(tree', {})
    BY <1>8, FS_EmptySet DEF Clear, EmptyTree, Counted
  <2> QED BY <1>2, <2>1, <2>2
<1> QED BY <1>3, <1>4, <1>5, <1>6, <1>7, <1>8 DEF Next

LEMMA SizeStays ==
  ASSUME Order >= 3
  PROVE  Spec => []SizeInv
<1>1. Init => SizeInv
  <2> SUFFICES ASSUME Init PROVE SizeInv
    OBVIOUS
  <2>1. Whole(tree, {}, ~reloaded)
    BY EmptyHolds DEF Init
  <2>2. Counted(tree, {})
    BY FS_EmptySet DEF Init, EmptyTree, Counted
  <2> QED BY <2>1, <2>2, WholeHolds DEF SizeInv, TreeInv
<1>2. SizeInv /\ [Next]_vars => SizeInv'
  <2> SUFFICES ASSUME SizeInv, [Next]_vars PROVE SizeInv'
    OBVIOUS
  <2>1. CASE UNCHANGED vars
    BY <2>1 DEF SizeInv, TreeInv, vars
  <2> QED BY <2>1, NextCounts
<1> QED BY <1>1, <1>2, PTL DEF Spec

\* What an iterator meets from begin() to end().
LEMMA IteratedLists ==
  ASSUME NEW t, NEW E, Whole(t, E, TRUE)
  PROVE  Lists(Iterated(t), E)
<1>1. CASE t.root = Null
  <2>1. E = {} /\ Iterated(t) = <<>>
    BY <1>1 DEF Whole, Iterated
  <2> QED BY <2>1 DEF Lists
<1>2. CASE t.root # Null
  <2> DEFINE h == t.heap
             p == FirstLeaf(t)
             C == ChainFrom(t, p)
  <2>1. Sound(h, t.root, E, 1 .. MaxRootKeys, TRUE)
    BY <1>2 DEF Whole
  <2>2. PICK ht, iv : RootedAt(h, t.root, ht, iv) /\ Entries(h) = E /\ Chained(h, iv)
    BY <2>1 DEF Sound
  <2>3. Tree(h, ht, iv)
    BY <2>2 DEF RootedAt
  <2>4. Leftmost(h, iv, p)
    <3> HIDE DEF p
    <3> QED BY <2>2, FirstIsLeftmost DEF p
  <2> HIDE DEF p
  <2>5. p \in DOMAIN h /\ h[p].leaf = TRUE
    BY <2>4 DEF Leftmost
  <2>6. TrailFrom(h, iv, p, C)
    BY <2>2, <2>3, <2>5, WalksTrail
  <2> HIDE DEF C
  <2>7. Lists(FlattenSeq(C), Entries(h))
    BY <2>3, <2>4, <2>6, TrailLists
  <2>8. Iterated(t) = FlattenSeq(C)
    BY <1>2 DEF Iterated, C, p
  <2> QED BY <2>2, <2>7, <2>8
<1> QED BY <1>1, <1>2

\* The map has the entries.
LEMMA MapHolds ==
  ASSUME NEW E, OneValue(E)
  PROVE  {<<k, MapOf(E)[k]>> : k \in DOMAIN MapOf(E)} = E
<1>1. \A k \in DOMAIN MapOf(E) : <<k, MapOf(E)[k]>> \in E
  BY HasValue
<1>2. ASSUME NEW e \in E PROVE \E k \in DOMAIN MapOf(E) : e = <<k, MapOf(E)[k]>>
  <2>1. e = <<e[1], e[2]>>
    BY DEF OneValue
  <2>2. e[1] \in DOMAIN MapOf(E) /\ MapOf(E)[e[1]] = e[2]
    BY <2>1, ValueIs
  <2> QED BY <2>1, <2>2
<1> QED BY <1>1, <1>2

\* Until the tree is read back from its pages an iterator meets every entry once, in the
\* order of keys, and size() counts them (begin, end, size of BSP_tree).
THEOREM IterationIsComplete ==
  ASSUME Order >= 3
  PROVE  Spec => []IterationComplete
<1>1. SizeInv => IterationComplete
  <2> SUFFICES ASSUME SizeInv, ~reloaded PROVE IterationComplete
    BY DEF IterationComplete
  <2> DEFINE E == Entries(tree.heap)
             seen == Iterated(tree)
             map == Content
  <2>1. Whole(tree, E, TRUE) /\ Counted(tree, E)
    <3>1. Whole(tree, E, ~reloaded) /\ Counted(tree, E)
      BY DEF SizeInv, TreeInv
    <3> QED BY <3>1 DEF Whole, Sound
  <2>2. Lists(seen, E)
    BY <2>1, IteratedLists
  <2>3. ToSet(seen) = E /\ tree.size = Len(seen) /\ Len(seen) \in Nat
    BY <2>1, <2>2, ListCounts, Elements DEF Counted, Lists
  <2>4. map = MapOf(E)
    <3>1. Content = ContentOf(tree)
      BY DEF Content, ContentOf
    <3>2. ContentOf(tree) = MapOf(E)
      BY <2>1, ContentIs
    <3> QED BY <3>1, <3>2
  <2>5. OneValue(E)
    BY <2>1, WholeHolds DEF OneValue
  <2> HIDE DEF E, seen, map
  <2>6. {<<k, map[k]>> : k \in DOMAIN map} = E
    BY <2>4, <2>5, MapHolds
  <2>7. \A i \in 1 .. Len(seen) - 1 : seen[i][1] < seen[i + 1][1]
    BY <2>2, <2>3 DEF Lists
  <2> QED BY <2>3, <2>6, <2>7 DEF IterationComplete, seen, map
<1> QED BY <1>1, SizeStays, PTL

=============================================================================
