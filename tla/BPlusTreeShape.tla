--------------------------- MODULE BPlusTreeShape ---------------------------
(***************************************************************************)
(* What a well-formed tree of BPlusTree is, and that lending, splitting    *)
(* and merging nodes keep it one.                                          *)
(***************************************************************************)
EXTENDS BPlusTree, FiniteSetTheorems, SequenceTheorems, TLAPS

-----------------------------------------------------------------------------
(* Induction *)

\* A set of numbers that is not empty has a least element.
LEMMA LeastElement ==
  ASSUME NEW T, T \subseteq Nat, T # {}
  PROVE  \E x \in T : \A y \in T : x <= y
<1> DEFINE R == StrictSubsetOrdering(Nat)
           Upto == {0 .. n : n \in T}
<1>1. IsWellFoundedOn(R, FiniteSubsetsOf(Nat))
  BY FS_StrictSubsetOrderingWellFounded
<1>2. Upto \subseteq FiniteSubsetsOf(Nat) /\ Upto # {}
  <2>1. \A n \in Nat : IsFiniteSet(0 .. n) /\ 0 .. n \subseteq Nat
    BY FS_Interval
  <2> QED BY <2>1 DEF FiniteSubsetsOf
<1>3. \A x, y \in Nat : x < y => <<0 .. x, 0 .. y>> \in R
  <2> SUFFICES ASSUME NEW x \in Nat, NEW y \in Nat, x < y
               PROVE  <<0 .. x, 0 .. y>> \in R
    OBVIOUS
  <2>1. 0 .. x \subseteq 0 .. y /\ y \in 0 .. y /\ y \notin 0 .. x
    OBVIOUS
  <2>2. 0 .. x \in SUBSET Nat /\ 0 .. y \in SUBSET Nat
    OBVIOUS
  <2> QED BY <2>1, <2>2 DEF StrictSubsetOrdering
<1> HIDE DEF R
<1>4. \E U \in Upto : \A V \in Upto : ~ (<<V, U>> \in R)
  <2> HIDE DEF Upto
  <2> QED BY <1>1, <1>2, WFMin
<1>5. PICK x \in T : \A y \in T : ~(<<0 .. y, 0 .. x>> \in R)
  BY <1>4
<1>6. x \in Nat /\ \A y \in T : y \in Nat /\ ~(y < x)
  BY <1>3, <1>5
<1>7. \A y \in T : x <= y
  BY <1>6
<1> QED BY <1>7

\* Induction, with the property as a set.
LEMMA Induction ==
  ASSUME NEW S, 0 \in S, \A n \in Nat : n \in S => n + 1 \in S
  PROVE  Nat \subseteq S
<1> DEFINE T == Nat \ S
<1> SUFFICES ASSUME T # {} PROVE FALSE
  OBVIOUS
<1>1. PICK x \in T : \A y \in T : x <= y
  <2>1. T \subseteq Nat
    OBVIOUS
  <2> HIDE DEF T
  <2> QED BY <2>1, LeastElement
<1>2. x # 0 /\ x \in Nat
  OBVIOUS
<1>3. x - 1 \in Nat /\ x - 1 < x /\ x = (x - 1) + 1
  BY <1>2
<1>4. x - 1 \in S
  BY <1>1, <1>3
<1> QED BY <1>3, <1>4

-----------------------------------------------------------------------------
(* Sequences *)

LEMMA Elements ==
  ASSUME NEW S, NEW s \in Seq(S)
  PROVE  /\ Len(s) \in Nat
         /\ DOMAIN s = 1 .. Len(s)
         /\ \A i \in 1 .. Len(s) : s[i] \in S
         /\ \A T : (\A i \in 1 .. Len(s) : s[i] \in T) => s \in Seq(T)
<1>1. Len(s) \in Nat /\ s \in [1 .. Len(s) -> S] /\ DOMAIN s = 1 .. Len(s)
  BY LenProperties
<1>2. \A T : (\A i \in 1 .. Len(s) : s[i] \in T) => s \in [1 .. Len(s) -> T]
  BY <1>1
<1>3. \A T, n \in Nat : [1 .. n -> T] \subseteq Seq(T)
  BY SeqDef
<1> QED BY <1>1, <1>2, <1>3

LEMMA SetOf ==
  ASSUME NEW S, NEW s \in Seq(S)
  PROVE  ToSet(s) = {s[i] : i \in 1 .. Len(s)}
BY Elements DEF ToSet

LEMMA Concat ==
  ASSUME NEW S, NEW a \in Seq(S), NEW b \in Seq(S)
  PROVE  /\ a \o b \in Seq(S)
         /\ Len(a \o b) = Len(a) + Len(b)
         /\ \A j \in 1 .. Len(a) : (a \o b)[j] = a[j]
         /\ \A j \in 1 .. Len(b) : (a \o b)[Len(a) + j] = b[j]
<1>1. Len(a) \in Nat /\ Len(b) \in Nat
  BY Elements
<1>2. /\ a \o b \in Seq(S)
      /\ Len(a \o b) = Len(a) + Len(b)
      /\ \A i \in 1 .. Len(a) + Len(b) : (a \o b)[i] =
                     IF i <= Len(a) THEN a[i] ELSE b[i - Len(a)]
  BY ConcatProperties
<1>3. ASSUME NEW j \in 1 .. Len(a) PROVE (a \o b)[j] = a[j]
  <2>1. j \in 1 .. Len(a) + Len(b) /\ j <= Len(a)
    BY <1>1
  <2> QED BY <1>2, <2>1
<1>4. ASSUME NEW j \in 1 .. Len(b) PROVE (a \o b)[Len(a) + j] = b[j]
  <2>1. /\ Len(a) + j \in 1 .. Len(a) + Len(b) /\ ~(Len(a) + j <= Len(a))
        /\ (Len(a) + j) - Len(a) = j
    BY <1>1
  <2> QED BY <1>2, <2>1
<1> QED BY <1>2, <1>3, <1>4

LEMMA InsertedAt ==
  ASSUME NEW S, NEW s \in Seq(S), NEW e \in S, NEW i \in 1 .. Len(s) + 1
  PROVE  /\ InsertAt(s, i, e) \in Seq(S)
         /\ Len(InsertAt(s, i, e)) = Len(s) + 1
         /\ \A j \in 1 .. i - 1 : InsertAt(s, i, e)[j] = s[j]
         /\ InsertAt(s, i, e)[i] = e
         /\ \A j \in i .. Len(s) : InsertAt(s, i, e)[j + 1] = s[j]
<1> DEFINE a == SubSeq(s, 1, i - 1)
           b == SubSeq(s, i, Len(s))
           c == a \o <<e>>
<1>1. Len(s) \in Nat /\ \A j \in 1 .. Len(s) : s[j] \in S
  BY Elements
<1>2. a \in Seq(S) /\ Len(a) = i - 1 /\ \A j \in 1 .. i - 1 : a[j] = s[j]
  <2>1. \A j \in 1 .. i - 1 : s[j] \in S
    BY <1>1
  <2>2. 1 \in Int /\ i - 1 \in Int
    BY <1>1
  <2> QED BY <1>1, <2>1, <2>2, SubSeqProperties
<1>3. b \in Seq(S) /\ Len(b) = Len(s) - i + 1 /\ \A j \in 1 .. Len(s) - i + 1 : b[j] = s[i + j - 1]
  <2>1. \A j \in i .. Len(s) : s[j] \in S
    BY <1>1
  <2>2. i \in Int /\ Len(s) \in Int
    BY <1>1
  <2> QED BY <1>1, <2>1, <2>2, SubSeqProperties
<1>4. <<e>> \in Seq(S) /\ Len(<<e>>) = 1 /\ <<e>>[1] = e
  OBVIOUS
<1> HIDE DEF a, b
<1>5. c \in Seq(S) /\ Len(c) = i /\ (\A j \in 1 .. i - 1 : c[j] = s[j]) /\ c[i] = e
  <2>1. /\ c \in Seq(S) /\ Len(c) = i - 1 + 1
        /\ \A j \in 1 .. i - 1 : c[j] = a[j]
        /\ \A j \in 1 .. 1 : c[i - 1 + j] = <<e>>[j]
    BY <1>2, <1>4, Concat
  <2>2. c[i - 1 + 1] = <<e>>[1]
    BY <2>1
  <2> QED BY <1>1, <1>2, <1>4, <2>1, <2>2
<1> HIDE DEF c
<1>6. /\ c \o b \in Seq(S) /\ Len(c \o b) = Len(s) + 1
      /\ \A j \in 1 .. i : (c \o b)[j] = c[j]
      /\ \A j \in 1 .. Len(s) - i + 1 : (c \o b)[i + j] = b[j]
  <2>1. /\ c \o b \in Seq(S) /\ Len(c \o b) = Len(c) + Len(b)
        /\ \A j \in 1 .. Len(c) : (c \o b)[j] = c[j]
        /\ \A j \in 1 .. Len(b) : (c \o b)[Len(c) + j] = b[j]
    BY <1>3, <1>5, Concat
  <2>2. Len(c) + Len(b) = Len(s) + 1
    BY <1>1, <1>3, <1>5
  <2> QED BY <1>3, <1>5, <2>1, <2>2
<1>7. ASSUME NEW j \in i .. Len(s) PROVE (c \o b)[j + 1] = s[j]
  <2>1. /\ j - i + 1 \in 1 .. Len(s) - i + 1 /\ i + (j - i + 1) = j + 1
        /\ i + (j - i + 1) - 1 = j
    BY <1>1
  <2>2. (c \o b)[i + (j - i + 1)] = b[j - i + 1] /\ b[j - i + 1] = s[i + (j - i + 1) - 1]
    BY <1>3, <1>6, <2>1
  <2> QED BY <2>1, <2>2
<1>8. \A j \in 1 .. i - 1 : (c \o b)[j] = s[j]
  BY <1>1, <1>5, <1>6
<1>9. (c \o b)[i] = e
  BY <1>1, <1>5, <1>6
<1> QED BY <1>6, <1>7, <1>8, <1>9 DEF InsertAt, a, b, c

LEMMA RemovedAt ==
  ASSUME NEW S, NEW s \in Seq(S), NEW i \in 1 .. Len(s)
  PROVE  /\ RemoveAt(s, i) \in Seq(S)
         /\ Len(RemoveAt(s, i)) = Len(s) - 1
         /\ \A j \in 1 .. i - 1 : RemoveAt(s, i)[j] = s[j]
         /\ \A j \in i .. Len(s) - 1 : RemoveAt(s, i)[j] = s[j + 1]
<1> DEFINE a == SubSeq(s, 1, i - 1)
           b == SubSeq(s, i + 1, Len(s))
<1>1. Len(s) \in Nat /\ \A j \in 1 .. Len(s) : s[j] \in S
  BY Elements
<1>2. a \in Seq(S) /\ Len(a) = i - 1 /\ \A j \in 1 .. i - 1 : a[j] = s[j]
  <2>1. \A j \in 1 .. i - 1 : s[j] \in S
    BY <1>1
  <2>2. 1 \in Int /\ i - 1 \in Int
    BY <1>1
  <2> QED BY <1>1, <2>1, <2>2, SubSeqProperties
<1>3. b \in Seq(S) /\ Len(b) = Len(s) - i /\ \A j \in 1 .. Len(s) - i : b[j] = s[i + j]
  <2>1. \A j \in i + 1 .. Len(s) : s[j] \in S
    BY <1>1
  <2>2. i + 1 \in Int /\ Len(s) \in Int
    BY <1>1
  <2> QED BY <1>1, <2>1, <2>2, SubSeqProperties
<1> HIDE DEF a, b
<1>4. /\ a \o b \in Seq(S) /\ Len(a \o b) = Len(s) - 1
      /\ \A j \in 1 .. i - 1 : (a \o b)[j] = a[j]
      /\ \A j \in 1 .. Len(s) - i : (a \o b)[(i - 1) + j] = b[j]
  <2>1. /\ a \o b \in Seq(S) /\ Len(a \o b) = Len(a) + Len(b)
        /\ \A j \in 1 .. Len(a) : (a \o b)[j] = a[j]
        /\ \A j \in 1 .. Len(b) : (a \o b)[Len(a) + j] = b[j]
    <3>1. a \in Seq(S) /\ b \in Seq(S)
      BY <1>2, <1>3
    <3> QED BY <3>1, Concat
  <2>2. Len(a) + Len(b) = Len(s) - 1
    BY <1>1, <1>2, <1>3
  <2> QED BY <1>2, <1>3, <2>1, <2>2
<1>5. ASSUME NEW j \in i .. Len(s) - 1 PROVE (a \o b)[j] = s[j + 1]
  <2>1. /\ j - i + 1 \in 1 .. Len(s) - i /\ (i - 1) + (j - i + 1) = j
        /\ i + (j - i + 1) = j + 1
    BY <1>1
  <2>2. (a \o b)[(i - 1) + (j - i + 1)] = b[j - i + 1] /\ b[j - i + 1] = s[i + (j - i + 1)]
    BY <1>3, <1>4, <2>1
  <2> QED BY <2>1, <2>2
<1>6. \A j \in 1 .. i - 1 : (a \o b)[j] = s[j]
  BY <1>1, <1>2, <1>4
<1> QED BY <1>4, <1>5, <1>6 DEF RemoveAt, a, b

-----------------------------------------------------------------------------
(* Well-formed trees *)

\* The keys of I that the child at position i is responsible for.
Slice(I, keys, i) ==
  {x \in I : (i > 1 => keys[i - 1] <= x) /\ (i <= Len(keys) => x < keys[i])}

\* The two parts of I on the sides of a key.
Lower(I, key) == {x \in I : x < key}
Upper(I, key) == {x \in I : key <= x}

IsLeaf(node) ==
  /\ node = Leaf(node.next, node.copies, node.data)
  /\ node.data \in Seq(Keys \X Values)

IsInternal(node, D) ==
  /\ node = Internal(node.keys, node.kids)
  /\ node.keys \in Seq(Int)
  /\ node.kids \in Seq(D)
  /\ Len(node.kids) = Len(node.keys) + 1

\* The entries of a leaf, the separators of an internal node: ascending, and keys
\* that the node is responsible for.
DataFits(data, I) ==
  /\ \A i, j \in 1 .. Len(data) : i < j => data[i][1] < data[j][1]
  /\ \A i \in 1 .. Len(data) : data[i][1] \in I

KeysFit(keys, I) ==
  /\ \A i, j \in 1 .. Len(keys) : i < j => keys[i] < keys[j]
  /\ \A i \in 1 .. Len(keys) : keys[i] \in I

\* ht[p] is the height of node p over the leaves, iv[p] the set of keys it is
\* responsible for: those whose descent comes to it.
LeafFits(h, ht, iv, p) ==
  /\ ht[p] = 0
  /\ IsLeaf(h[p])
  /\ DataFits(h[p].data, iv[p])

InternalFits(h, ht, iv, p) ==
  /\ ht[p] > 0
  /\ IsInternal(h[p], DOMAIN h)
  /\ KeysFit(h[p].keys, iv[p])
  /\ \A i \in 1 .. Len(h[p].kids) :
       /\ ht[h[p].kids[i]] = ht[p] - 1
       /\ iv[h[p].kids[i]] = Slice(iv[p], h[p].keys, i)

Convex(I) == \A x, z \in I : \A y \in Int : x < y /\ y < z => y \in I

IsHeap(h) ==
  /\ h = [q \in DOMAIN h |-> h[q]]
  /\ IsFiniteSet(DOMAIN h)
  /\ DOMAIN h \subseteq Nat \ {0}

\* Nodes of the same height share no key: the descent of a key comes to one of them
\* at most.
Apart(ht, iv) ==
  \A p, q \in DOMAIN ht : ht[p] = ht[q] /\ p # q => iv[p] \cap iv[q] = {}

Ranges(h, ht, iv) ==
  /\ ht \in [DOMAIN h -> Nat]
  /\ iv \in [DOMAIN h -> SUBSET Int]
  /\ \A p \in DOMAIN h : iv[p] # {} /\ Convex(iv[p])

Tree(h, ht, iv) ==
  /\ IsHeap(h)
  /\ Ranges(h, ht, iv)
  /\ Apart(ht, iv)
  /\ \A p \in DOMAIN h : LeafFits(h, ht, iv, p) \/ InternalFits(h, ht, iv, p)

\* J begins where I ends; I has no end.
Adjacent(I, J) ==
  \A x \in I, z \in J : x < z /\ \A y \in Int : x < y /\ y < z => y \in I \/ y \in J

Top(I) == \A x \in I : \A y \in Int : x < y => y \in I

\* Each leaf leads to the one that is responsible for the keys above its own, the last
\* leaf to none. This is so until a tree is read back from its pages.
Follows(h, iv, p) ==
  /\ h[p].copies = <<>>
  /\ \/ h[p].next = Null /\ Top(iv[p])
     \/ /\ h[p].next \in DOMAIN h /\ h[h[p].next].leaf = TRUE
        /\ Adjacent(iv[p], iv[h[p].next])

Chained(h, iv) == \A p \in DOMAIN h : h[p].leaf = TRUE => Follows(h, iv, p)

LEMMA Kind ==
  ASSUME NEW h, NEW ht, NEW iv, Tree(h, ht, iv), NEW p \in DOMAIN h
  PROVE  /\ h[p].leaf => LeafFits(h, ht, iv, p)
         /\ ~h[p].leaf => InternalFits(h, ht, iv, p)
         /\ h[p].leaf \in BOOLEAN
         /\ h[p].leaf <=> ht[p] = 0
         /\ ht[p] \in Nat /\ iv[p] \subseteq Int /\ iv[p] # {} /\ Convex(iv[p])
<1>1. ht[p] \in Nat /\ iv[p] \subseteq Int /\ iv[p] # {} /\ Convex(iv[p])
  BY DEF Tree, Ranges
<1>2. CASE LeafFits(h, ht, iv, p)
  <2>1. h[p].leaf = TRUE
    BY <1>2 DEF LeafFits, IsLeaf, Leaf
  <2> QED BY <1>1, <1>2, <2>1 DEF LeafFits
<1>3. CASE InternalFits(h, ht, iv, p)
  <2>1. h[p].leaf = FALSE
    BY <1>3 DEF InternalFits, IsInternal, Internal
  <2>2. ht[p] # 0
    BY <1>1, <1>3 DEF InternalFits
  <2> QED BY <1>1, <1>3, <2>1, <2>2
<1> QED BY <1>2, <1>3 DEF Tree

\* What there is to know about an internal node and its children.
Parent(h, ht, iv, p) ==
  /\ h[p] = Internal(h[p].keys, h[p].kids) /\ h[p].leaf = FALSE
  /\ Len(h[p].keys) \in Nat /\ Len(h[p].kids) = Len(h[p].keys) + 1
  /\ h[p].keys \in Seq(Int) /\ h[p].kids \in Seq(DOMAIN h)
  /\ \A i \in 1 .. Len(h[p].keys) : h[p].keys[i] \in Int /\ h[p].keys[i] \in iv[p]
  /\ \A i, j \in 1 .. Len(h[p].keys) : i < j => h[p].keys[i] < h[p].keys[j]
  /\ ht[p] \in Nat /\ ht[p] > 0 /\ iv[p] \subseteq Int

Children(h, ht, iv, p) ==
  \A i \in 1 .. Len(h[p].kids) :
    /\ h[p].kids[i] \in DOMAIN h /\ h[p].kids[i] # p
    /\ ht[h[p].kids[i]] = ht[p] - 1
    /\ iv[h[p].kids[i]] = Slice(iv[p], h[p].keys, i)

LEMMA Family ==
  ASSUME NEW h, NEW ht, NEW iv, Tree(h, ht, iv),
         NEW p \in DOMAIN h, InternalFits(h, ht, iv, p)
  PROVE  Parent(h, ht, iv, p) /\ Children(h, ht, iv, p)
<1> DEFINE n == h[p]
<1>1. IsInternal(n, DOMAIN h) /\ KeysFit(n.keys, iv[p]) /\ ht[p] > 0
  BY DEF InternalFits
<1>2. ht[p] \in Nat /\ iv[p] \subseteq Int
  BY Kind
<1>3. /\ n = Internal(n.keys, n.kids) /\ n.keys \in Seq(Int) /\ n.kids \in Seq(DOMAIN h)
      /\ Len(n.kids) = Len(n.keys) + 1
  BY <1>1 DEF IsInternal
<1>4. n.leaf = FALSE
  BY <1>3 DEF Internal
<1>5. Len(n.keys) \in Nat /\ \A i \in 1 .. Len(n.keys) : n.keys[i] \in Int
  BY <1>3, Elements
<1>6. \A i \in 1 .. Len(n.kids) : n.kids[i] \in DOMAIN h
  BY <1>3, Elements
<1>7. \A i \in 1 .. Len(n.kids) : ht[n.kids[i]] = ht[p] - 1 /\ iv[n.kids[i]] = Slice(iv[p], n.keys, i)
  BY DEF InternalFits
<1>8. \A i \in 1 .. Len(n.kids) : n.kids[i] # p
  BY <1>2, <1>7
<1>9. Parent(h, ht, iv, p)
  BY <1>1, <1>2, <1>3, <1>4, <1>5 DEF KeysFit, Parent
<1> QED BY <1>6, <1>7, <1>8, <1>9 DEF Children

\* A node is the child of one node only, and only once.
LEMMA OneParent ==
  ASSUME NEW h, NEW ht, NEW iv, Tree(h, ht, iv),
         NEW p \in DOMAIN h, InternalFits(h, ht, iv, p), NEW i \in 1 .. Len(h[p].kids),
         NEW q \in DOMAIN h, InternalFits(h, ht, iv, q), NEW j \in 1 .. Len(h[q].kids),
         h[p].kids[i] = h[q].kids[j]
  PROVE  p = q /\ i = j
<1> DEFINE c == h[p].kids[i]
<1>1. /\ Parent(h, ht, iv, p) /\ Children(h, ht, iv, p)
      /\ Parent(h, ht, iv, q) /\ Children(h, ht, iv, q)
  BY Family
<1>2. c \in DOMAIN h /\ ht[c] = ht[p] - 1 /\ iv[c] = Slice(iv[p], h[p].keys, i)
  BY <1>1 DEF Children
<1>3. ht[c] = ht[q] - 1 /\ iv[c] = Slice(iv[q], h[q].keys, j)
  BY <1>1 DEF Children
<1>4. PICK x : x \in iv[c]
  BY <1>2, Kind
<1>5. x \in iv[p] /\ x \in iv[q] /\ ht[p] = ht[q]
  <2>1. x \in iv[p] /\ x \in iv[q]
    BY <1>2, <1>3, <1>4 DEF Slice
  <2>2. ht[p] \in Nat /\ ht[q] \in Nat
    BY <1>1 DEF Parent
  <2> QED BY <1>2, <1>3, <2>1, <2>2
<1>6. p = q
  BY <1>5 DEF Tree, Apart, Ranges
<1>7. \A a, b \in 1 .. Len(h[p].kids) :
        x \in Slice(iv[p], h[p].keys, a) /\ x \in Slice(iv[p], h[p].keys, b) => ~(a < b)
  <2> SUFFICES ASSUME NEW a \in 1 .. Len(h[p].kids), NEW b \in 1 .. Len(h[p].kids),
                      x \in Slice(iv[p], h[p].keys, a), x \in Slice(iv[p], h[p].keys, b), a < b
               PROVE  FALSE
    OBVIOUS
  <2>1. Len(h[p].keys) \in Nat /\ Len(h[p].kids) = Len(h[p].keys) + 1 /\ iv[p] \subseteq Int
    BY <1>1 DEF Parent
  <2>2. a \in 1 .. Len(h[p].keys) /\ b - 1 \in 1 .. Len(h[p].keys) /\ (a < b - 1 \/ a = b - 1)
    BY <2>1
  <2>3. x \in Int /\ x < h[p].keys[a] /\ h[p].keys[b - 1] <= x
    BY <2>1, <2>2 DEF Slice
  <2>4. h[p].keys[a] \in Int /\ h[p].keys[b - 1] \in Int /\ h[p].keys[a] <= h[p].keys[b - 1]
    <3>1. /\ \A m \in 1 .. Len(h[p].keys) : h[p].keys[m] \in Int
          /\ \A m, n \in 1 .. Len(h[p].keys) : m < n => h[p].keys[m] < h[p].keys[n]
      BY <1>1 DEF Parent
    <3> QED BY <2>2, <3>1
  <2> QED BY <2>3, <2>4
<1>8. ~(i < j) /\ ~(j < i)
  BY <1>2, <1>3, <1>4, <1>6, <1>7
<1>9. i \in Int /\ j \in Int
  OBVIOUS
<1> QED BY <1>6, <1>8, <1>9

-----------------------------------------------------------------------------
(* Two neighbours and their union *)

\* s is t without position i.
Without1(t, s, i) ==
  /\ i \in 1 .. Len(t) /\ Len(s) \in Nat /\ Len(t) = Len(s) + 1
  /\ \A j \in 1 .. i - 1 : s[j] = t[j]
  /\ \A j \in i .. Len(s) : s[j] = t[j + 1]

\* c is a, then b.
Joined(a, b, c) ==
  /\ Len(a) \in Nat /\ Len(b) \in Nat /\ Len(c) = Len(a) + Len(b)
  /\ \A j \in 1 .. Len(a) : c[j] = a[j]
  /\ \A j \in 1 .. Len(b) : c[Len(a) + j] = b[j]

\* c is a, then key, then b.
JoinedBy(a, key, b, c) ==
  /\ Len(a) \in Nat /\ Len(b) \in Nat /\ Len(c) = Len(a) + 1 + Len(b)
  /\ \A j \in 1 .. Len(a) : c[j] = a[j]
  /\ c[Len(a) + 1] = key
  /\ \A j \in 1 .. Len(b) : c[Len(a) + 1 + j] = b[j]

Ascending(keys) ==
  /\ Len(keys) \in Nat
  /\ \A i \in 1 .. Len(keys) : keys[i] \in Int
  /\ \A i, j \in 1 .. Len(keys) : i < j => keys[i] < keys[j]

\* Without the separator between them, two children are one that is responsible
\* for the keys of both; the others stay as they are.
LEMMA SlicesAbove ==
  ASSUME NEW I \in SUBSET Int, NEW t, Ascending(t), NEW s, NEW i, Without1(t, s, i)
  PROVE  /\ Slice(I, t, i) = Lower(Slice(I, s, i), t[i])
         /\ Slice(I, t, i + 1) = Upper(Slice(I, s, i), t[i])
<1>1. /\ i \in 1 .. Len(t) /\ Len(s) \in Nat /\ Len(t) = Len(s) + 1
      /\ i \in Int
  BY DEF Without1
<1>2. \A j \in 1 .. i - 1 : s[j] = t[j]
  BY DEF Without1
<1>3. \A j \in i .. Len(s) : s[j] = t[j + 1]
  BY DEF Without1
<1>4. \A j \in 1 .. Len(t) : t[j] \in Int
  BY DEF Ascending
<1>5. i > 1 => s[i - 1] = t[i - 1] /\ t[i - 1] \in Int /\ t[i - 1] < t[i]
  <2>1. i > 1 => i - 1 \in 1 .. i - 1 /\ i - 1 \in 1 .. Len(t)
    BY <1>1
  <2>2. \A m, n \in 1 .. Len(t) : m < n => t[m] < t[n]
    BY DEF Ascending
  <2> QED BY <1>1, <1>2, <1>4, <2>1, <2>2
<1>6. i <= Len(s) => s[i] = t[i + 1] /\ t[i + 1] \in Int /\ t[i] < t[i + 1]
  <2>1. i <= Len(s) => i \in i .. Len(s) /\ i + 1 \in 1 .. Len(t)
    BY <1>1
  <2>2. \A m, n \in 1 .. Len(t) : m < n => t[m] < t[n]
    BY DEF Ascending
  <2> QED BY <1>1, <1>3, <1>4, <2>1, <2>2
<1>7. t[i] \in Int
  BY <1>1, <1>4
<1>8. Slice(I, t, i) = Lower(Slice(I, s, i), t[i])
  <2>1. ASSUME NEW x \in I
        PROVE  x \in Slice(I, t, i) <=> x \in Slice(I, s, i) /\ x < t[i]
    BY <1>1, <1>5, <1>6, <1>7 DEF Slice
  <2> QED BY <2>1 DEF Slice, Lower
<1>9. Slice(I, t, i + 1) = Upper(Slice(I, s, i), t[i])
  <2>1. ASSUME NEW x \in I
        PROVE  x \in Slice(I, t, i + 1) <=> x \in Slice(I, s, i) /\ t[i] <= x
    <3>1. i + 1 > 1 /\ (i + 1) - 1 = i /\ (i + 1 <= Len(t) <=> i <= Len(s))
      BY <1>1
    <3> QED BY <1>1, <1>5, <1>6, <1>7, <3>1 DEF Slice
  <2> QED BY <2>1 DEF Slice, Upper
<1> QED BY <1>8, <1>9

LEMMA SlicesAside ==
  ASSUME NEW I \in SUBSET Int, NEW t, Ascending(t), NEW s, NEW i, Without1(t, s, i)
  PROVE  /\ \A j \in 1 .. i - 1 : Slice(I, s, j) = Slice(I, t, j)
         /\ \A j \in i + 1 .. Len(t) : Slice(I, s, j) = Slice(I, t, j + 1)
<1>1. /\ i \in 1 .. Len(t) /\ Len(s) \in Nat /\ Len(t) = Len(s) + 1
      /\ i \in Int
  BY DEF Without1
<1>2. \A j \in 1 .. i - 1 : s[j] = t[j]
  BY DEF Without1
<1>3. \A j \in i .. Len(s) : s[j] = t[j + 1]
  BY DEF Without1
<1>4. ASSUME NEW j \in 1 .. i - 1 PROVE Slice(I, s, j) = Slice(I, t, j)
  <2>1. s[j] = t[j] /\ (j > 1 => s[j - 1] = t[j - 1])
    <3>1. j > 1 => j - 1 \in 1 .. i - 1
      BY <1>1
    <3> QED BY <1>2, <3>1
  <2>2. j <= Len(s) /\ j <= Len(t)
    BY <1>1
  <2> QED BY <2>1, <2>2 DEF Slice
<1>5. ASSUME NEW j \in i + 1 .. Len(t) PROVE Slice(I, s, j) = Slice(I, t, j + 1)
  <2>1. /\ j > 1 /\ j + 1 > 1 /\ (j + 1) - 1 = j
        /\ (j <= Len(s) <=> j + 1 <= Len(t))
    BY <1>1
  <2>2. s[j - 1] = t[j]
    <3>1. j - 1 \in i .. Len(s) /\ (j - 1) + 1 = j
      BY <1>1
    <3> QED BY <1>3, <3>1
  <2>3. j <= Len(s) => s[j] = t[j + 1]
    <3>1. j <= Len(s) => j \in i .. Len(s)
      BY <1>1
    <3> QED BY <1>3, <3>1
  <2> QED BY <2>1, <2>2, <2>3 DEF Slice
<1> QED BY <1>4, <1>5

\* The children of the left part and of the right part are responsible for what
\* they are in the whole.
LEMMA SlicesLower ==
  ASSUME NEW I \in SUBSET Int, NEW a, NEW key, NEW b, NEW c, Ascending(c), JoinedBy(a, key, b, c),
         NEW j \in 1 .. Len(a) + 1
  PROVE  Slice(Lower(I, key), a, j) = Slice(I, c, j)
<1>1. Len(a) \in Nat /\ Len(b) \in Nat /\ Len(c) = Len(a) + 1 + Len(b)
  BY DEF JoinedBy
<1>2. /\ \A w \in 1 .. Len(a) : c[w] = a[w]
      /\ c[Len(a) + 1] = key
      /\ \A w \in 1 .. Len(b) : c[Len(a) + 1 + w] = b[w]
  BY DEF JoinedBy
<1>3. /\ \A w \in 1 .. Len(c) : c[w] \in Int
      /\ \A m, n \in 1 .. Len(c) : m < n => c[m] < c[n]
  BY DEF Ascending
<1>4. key \in Int
  <2>1. Len(a) + 1 \in 1 .. Len(c)
    BY <1>1
  <2> QED BY <1>2, <1>3, <2>1
<1>5. Slice(Lower(I, key), a, j) = Slice(I, c, j)
  <2>1. j > 1 => a[j - 1] = c[j - 1]
    <3>1. j > 1 => j - 1 \in 1 .. Len(a)
      BY <1>1
    <3> QED BY <1>2, <3>1
  <2>2. j <= Len(a) => a[j] = c[j] /\ c[j] \in Int /\ c[j] < key
    <3>1. j <= Len(a) => j \in 1 .. Len(a) /\ j \in 1 .. Len(c) /\ Len(a) + 1 \in 1 .. Len(c)
                         /\ j < Len(a) + 1
      BY <1>1
    <3> QED BY <1>2, <1>3, <3>1
  <2>3. j <= Len(c) /\ (~(j <= Len(a)) => c[j] = key)
    <3>1. ~(j <= Len(a)) => j = Len(a) + 1
      BY <1>1
    <3> QED BY <1>1, <1>2, <3>1
  <2>4. ASSUME NEW x \in I
        PROVE  x < key /\ (j <= Len(a) => x < a[j]) <=> (j <= Len(c) => x < c[j])
    BY <1>4, <2>2, <2>3
  <2> QED BY <2>1, <2>4 DEF Slice, Lower
<1> QED BY <1>5

LEMMA SlicesUpper ==
  ASSUME NEW I \in SUBSET Int, NEW a, NEW key, NEW b, NEW c, Ascending(c), JoinedBy(a, key, b, c),
         NEW j \in 1 .. Len(b) + 1
  PROVE  Slice(Upper(I, key), b, j) = Slice(I, c, Len(a) + 1 + j)
<1>1. Len(a) \in Nat /\ Len(b) \in Nat /\ Len(c) = Len(a) + 1 + Len(b)
  BY DEF JoinedBy
<1>2. /\ \A w \in 1 .. Len(a) : c[w] = a[w]
      /\ c[Len(a) + 1] = key
      /\ \A w \in 1 .. Len(b) : c[Len(a) + 1 + w] = b[w]
  BY DEF JoinedBy
<1>3. /\ \A w \in 1 .. Len(c) : c[w] \in Int
      /\ \A m, n \in 1 .. Len(c) : m < n => c[m] < c[n]
  BY DEF Ascending
<1>4. key \in Int
  <2>1. Len(a) + 1 \in 1 .. Len(c)
    BY <1>1
  <2> QED BY <1>2, <1>3, <2>1
<1>5. Slice(Upper(I, key), b, j) = Slice(I, c, Len(a) + 1 + j)
  <2> DEFINE m == Len(a) + 1 + j
  <2>1. m \in Nat /\ m > 1 /\ (m <= Len(c) <=> j <= Len(b))
    BY <1>1
  <2>2. j <= Len(b) => b[j] = c[m]
    <3>1. j <= Len(b) => j \in 1 .. Len(b)
      OBVIOUS
    <3> QED BY <1>2, <3>1
  <2>3. j > 1 => b[j - 1] = c[m - 1] /\ c[m - 1] \in Int /\ key < c[m - 1]
    <3>1. j > 1 => /\ j - 1 \in 1 .. Len(b) /\ m - 1 = Len(a) + 1 + (j - 1)
                   /\ m - 1 \in 1 .. Len(c) /\ Len(a) + 1 \in 1 .. Len(c)
                   /\ Len(a) + 1 < m - 1
      BY <1>1
    <3> QED BY <1>2, <1>3, <3>1
  <2>4. ~(j > 1) => c[m - 1] = key
    <3>1. ~(j > 1) => m - 1 = Len(a) + 1
      BY <1>1
    <3> QED BY <1>2, <3>1
  <2>5. ASSUME NEW x \in I
        PROVE  key <= x /\ (j > 1 => b[j - 1] <= x) <=> (m > 1 => c[m - 1] <= x)
    BY <1>4, <2>1, <2>3, <2>4
  <2> HIDE DEF m
  <2>6. Slice(Upper(I, key), b, j) = Slice(I, c, m)
    BY <2>1, <2>2, <2>5 DEF Slice, Upper
  <2> QED BY <2>6 DEF m
<1> QED BY <1>5

\* small is big with the children l and r of p, at i and i + 1, made one: l, without
\* the separator between them.
Halved(big, small, p, i, l, r) ==
  /\ p \in DOMAIN big /\ l \in DOMAIN big /\ r \in DOMAIN big
  /\ p # l /\ p # r /\ l # r
  /\ DOMAIN small = DOMAIN big \ {r}
  /\ \A q \in DOMAIN big \ {p, l, r} : small[q] = big[q]

HalvedAbove(b, s, i, l, r, D) ==
  /\ IsInternal(b, D) /\ IsInternal(s, D)
  /\ Without1(b.keys, s.keys, i)
  /\ Without1(b.kids, s.kids, i + 1)
  /\ b.kids[i] = l /\ b.kids[i + 1] = r

HalvedLeaf(a, b, c) ==
  /\ IsLeaf(a) /\ IsLeaf(b) /\ IsLeaf(c)
  /\ Joined(a.data, b.data, c.data)
  /\ c.next = b.next /\ c.copies = b.copies

HalvedInternal(a, key, b, c, D) ==
  /\ IsInternal(a, D) /\ IsInternal(b, D) /\ IsInternal(c, D)
  /\ JoinedBy(a.keys, key, b.keys, c.keys)
  /\ Joined(a.kids, b.kids, c.kids)

Halves(big, small, p, i, l, r) ==
  /\ IsHeap(big) /\ IsHeap(small)
  /\ Halved(big, small, p, i, l, r)
  /\ HalvedAbove(big[p], small[p], i, l, r, DOMAIN big)
  /\ \/ HalvedLeaf(big[l], big[r], small[l])
     \/ HalvedInternal(big[l], big[p].keys[i], big[r], small[l], DOMAIN big)

LEMMA ConvexSlice ==
  ASSUME NEW I \in SUBSET Int, Convex(I), NEW keys, Len(keys) \in Nat,
         \A j \in 1 .. Len(keys) : keys[j] \in Int, NEW i \in 1 .. Len(keys) + 1
  PROVE  Convex(Slice(I, keys, i))
<1> SUFFICES ASSUME NEW x \in Slice(I, keys, i), NEW z \in Slice(I, keys, i), NEW y \in Int,
                    x < y, y < z
             PROVE  y \in Slice(I, keys, i)
  BY DEF Convex
<1>1. x \in I /\ z \in I /\ x \in Int /\ z \in Int
  BY DEF Slice
<1>2. y \in I
  BY <1>1 DEF Convex
<1>3. i > 1 => keys[i - 1] <= x /\ keys[i - 1] \in Int
  <2>1. i > 1 => i - 1 \in 1 .. Len(keys)
    OBVIOUS
  <2> QED BY <2>1 DEF Slice
<1>4. i <= Len(keys) => z < keys[i] /\ keys[i] \in Int
  BY DEF Slice
<1> QED BY <1>1, <1>2, <1>3, <1>4 DEF Slice

\* The parts of a sequence without one position.
LEMMA Without1Ascending ==
  ASSUME NEW t, Ascending(t), NEW s, NEW i, Without1(t, s, i)
  PROVE  /\ Ascending(s)
         /\ \A j \in 1 .. Len(s) : \E m \in 1 .. Len(t) : s[j] = t[m]
<1>1. i \in 1 .. Len(t) /\ Len(s) \in Nat /\ Len(t) = Len(s) + 1
  BY DEF Without1
<1> DEFINE At(j) == IF j < i THEN j ELSE j + 1
<1>2. ASSUME NEW j \in 1 .. Len(s) PROVE At(j) \in 1 .. Len(t) /\ s[j] = t[At(j)]
  <2>1. CASE j < i
    <3>1. j \in 1 .. i - 1 /\ j \in 1 .. Len(t)
      BY <1>1, <2>1
    <3> QED BY <2>1, <3>1 DEF Without1
  <2>2. CASE ~(j < i)
    <3>1. j \in i .. Len(s) /\ j + 1 \in 1 .. Len(t)
      BY <1>1, <2>2
    <3> QED BY <2>2, <3>1 DEF Without1
  <2> QED BY <2>1, <2>2
<1>3. \A j, k \in 1 .. Len(s) : j < k => At(j) < At(k)
  BY <1>1
<1> HIDE DEF At
<1>4. /\ \A m \in 1 .. Len(t) : t[m] \in Int
      /\ \A m, n \in 1 .. Len(t) : m < n => t[m] < t[n]
  BY DEF Ascending
<1>5. \A j \in 1 .. Len(s) : s[j] \in Int
  BY <1>2, <1>4
<1>6. ASSUME NEW j \in 1 .. Len(s), NEW k \in 1 .. Len(s), j < k PROVE s[j] < s[k]
  BY <1>2, <1>3, <1>4, <1>6
<1> QED BY <1>1, <1>2, <1>5, <1>6 DEF Ascending

\* Two ascending parts with a bound between them are one.
LEMMA JoinedAscending ==
  ASSUME NEW a, Ascending(a), NEW b, Ascending(b), NEW key \in Int, NEW c, JoinedBy(a, key, b, c),
         \A j \in 1 .. Len(a) : a[j] < key,
         \A j \in 1 .. Len(b) : key < b[j]
  PROVE  Ascending(c)
<1>1. Len(a) \in Nat /\ Len(b) \in Nat /\ Len(c) = Len(a) + 1 + Len(b)
  BY DEF JoinedBy
<1>2. ASSUME NEW j \in 1 .. Len(c)
      PROVE  \/ j \in 1 .. Len(a) /\ c[j] = a[j]
             \/ j = Len(a) + 1 /\ c[j] = key
             \/ j > Len(a) + 1 /\ j - Len(a) - 1 \in 1 .. Len(b) /\ c[j] = b[j - Len(a) - 1]
  <2>1. CASE j <= Len(a)
    <3>1. j \in 1 .. Len(a)
      BY <1>1, <2>1
    <3> QED BY <3>1 DEF JoinedBy
  <2>2. CASE j = Len(a) + 1
    BY <2>2 DEF JoinedBy
  <2>3. CASE j > Len(a) + 1
    <3>1. j - Len(a) - 1 \in 1 .. Len(b) /\ Len(a) + 1 + (j - Len(a) - 1) = j
      BY <1>1, <2>3
    <3> QED BY <2>3, <3>1 DEF JoinedBy
  <2> QED BY <1>1, <2>1, <2>2, <2>3
<1>3. /\ \A j \in 1 .. Len(a) : a[j] \in Int
      /\ \A m, n \in 1 .. Len(a) : m < n => a[m] < a[n]
      /\ \A j \in 1 .. Len(b) : b[j] \in Int
      /\ \A m, n \in 1 .. Len(b) : m < n => b[m] < b[n]
  BY DEF Ascending
<1>4. \A j \in 1 .. Len(c) : c[j] \in Int
  BY <1>2, <1>3
<1>5. ASSUME NEW j \in 1 .. Len(c), NEW k \in 1 .. Len(c), j < k PROVE c[j] < c[k]
  <2>1. CASE j \in 1 .. Len(a) /\ c[j] = a[j]
    <3>1. CASE k \in 1 .. Len(a) /\ c[k] = a[k]
      BY <1>3, <1>5, <2>1, <3>1
    <3>2. CASE k = Len(a) + 1 /\ c[k] = key
      BY <2>1, <3>2
    <3>3. CASE k - Len(a) - 1 \in 1 .. Len(b) /\ c[k] = b[k - Len(a) - 1]
      <4>1. a[j] < key /\ key < b[k - Len(a) - 1] /\ a[j] \in Int /\ b[k - Len(a) - 1] \in Int
        BY <1>3, <2>1, <3>3
      <4> QED BY <2>1, <3>3, <4>1
    <3> QED BY <1>2, <3>1, <3>2, <3>3
  <2>2. CASE j = Len(a) + 1 /\ c[j] = key
    <3>1. k > Len(a) + 1
      BY <1>1, <1>5, <2>2
    <3>2. k - Len(a) - 1 \in 1 .. Len(b) /\ c[k] = b[k - Len(a) - 1]
      BY <1>1, <1>2, <3>1
    <3> QED BY <2>2, <3>2
  <2>3. CASE j > Len(a) + 1 /\ j - Len(a) - 1 \in 1 .. Len(b) /\ c[j] = b[j - Len(a) - 1]
    <3>1. k > Len(a) + 1
      BY <1>1, <1>5, <2>3
    <3>2. k - Len(a) - 1 \in 1 .. Len(b) /\ c[k] = b[k - Len(a) - 1]
      BY <1>1, <1>2, <3>1
    <3>3. j - Len(a) - 1 < k - Len(a) - 1
      BY <1>1, <1>5
    <3> QED BY <1>3, <2>3, <3>2, <3>3
  <2> QED BY <1>2, <2>1, <2>2, <2>3
<1> QED BY <1>1, <1>4, <1>5 DEF Ascending

\* A position of the whole is one of a part.
InPart(a, b, c, j) ==
  \/ j \in 1 .. Len(a) /\ c[j] = a[j]
  \/ \E m \in 1 .. Len(b) : j = Len(a) + m /\ c[j] = b[m]

InPartBy(a, key, b, c, j) ==
  \/ j \in 1 .. Len(a) /\ c[j] = a[j]
  \/ j = Len(a) + 1 /\ c[j] = key
  \/ \E m \in 1 .. Len(b) : j = Len(a) + 1 + m /\ c[j] = b[m]

LEMMA JoinedCases ==
  ASSUME NEW a, NEW b, NEW c, Joined(a, b, c), NEW j \in 1 .. Len(c)
  PROVE  InPart(a, b, c, j)
<1>1. Len(a) \in Nat /\ Len(b) \in Nat /\ Len(c) = Len(a) + Len(b)
  BY DEF Joined
<1>2. CASE j <= Len(a)
  <2>1. j \in 1 .. Len(a)
    BY <1>1, <1>2
  <2> QED BY <2>1 DEF Joined, InPart
<1>3. CASE j > Len(a)
  <2>1. j - Len(a) \in 1 .. Len(b) /\ Len(a) + (j - Len(a)) = j
    BY <1>1, <1>3
  <2> QED BY <2>1 DEF Joined, InPart
<1> QED BY <1>1, <1>2, <1>3

LEMMA JoinedByCases ==
  ASSUME NEW a, NEW key, NEW b, NEW c, JoinedBy(a, key, b, c), NEW j \in 1 .. Len(c)
  PROVE  InPartBy(a, key, b, c, j)
<1>1. Len(a) \in Nat /\ Len(b) \in Nat /\ Len(c) = Len(a) + 1 + Len(b)
  BY DEF JoinedBy
<1>2. CASE j <= Len(a)
  <2>1. j \in 1 .. Len(a)
    BY <1>1, <1>2
  <2> QED BY <2>1 DEF JoinedBy, InPartBy
<1>3. CASE j = Len(a) + 1
  BY <1>3 DEF JoinedBy, InPartBy
<1>4. CASE j > Len(a) + 1
  <2>1. j - (Len(a) + 1) \in 1 .. Len(b) /\ Len(a) + 1 + (j - (Len(a) + 1)) = j
    BY <1>1, <1>4
  <2> QED BY <2>1 DEF JoinedBy, InPartBy
<1> QED BY <1>1, <1>2, <1>3, <1>4

LEMMA JoinedData ==
  ASSUME NEW a, NEW b, NEW c, Joined(a, b, c),
         NEW I \in SUBSET Int, NEW K \in SUBSET Int, DataFits(a, I), DataFits(b, K),
         \A x \in I, y \in K : x < y
  PROVE  DataFits(c, I \cup K)
<1>1. Len(a) \in Nat /\ Len(b) \in Nat /\ Len(c) = Len(a) + Len(b)
  BY DEF Joined
<1>2. /\ \A j, k \in 1 .. Len(a) : j < k => a[j][1] < a[k][1]
      /\ \A j \in 1 .. Len(a) : a[j][1] \in I
      /\ \A j, k \in 1 .. Len(b) : j < k => b[j][1] < b[k][1]
      /\ \A j \in 1 .. Len(b) : b[j][1] \in K
  BY DEF DataFits
<1>3. \A j \in 1 .. Len(c) :
         \/ j \in 1 .. Len(a) /\ c[j] = a[j]
         \/ \E m \in 1 .. Len(b) : j = Len(a) + m /\ c[j] = b[m]
  BY JoinedCases DEF InPart
<1>4. \A j \in 1 .. Len(c) : c[j][1] \in I \cup K
  BY <1>2, <1>3
<1>5. ASSUME NEW j \in 1 .. Len(c), NEW k \in 1 .. Len(c), j < k PROVE c[j][1] < c[k][1]
  <2>1. CASE j \in 1 .. Len(a) /\ c[j] = a[j]
    <3>1. CASE k \in 1 .. Len(a) /\ c[k] = a[k]
      BY <1>2, <1>5, <2>1, <3>1
    <3>2. CASE \E m \in 1 .. Len(b) : k = Len(a) + m /\ c[k] = b[m]
      BY <1>2, <2>1, <3>2
    <3> QED BY <1>3, <3>1, <3>2
  <2>2. CASE \E m \in 1 .. Len(b) : j = Len(a) + m /\ c[j] = b[m]
    <3>1. PICK m \in 1 .. Len(b) : j = Len(a) + m /\ c[j] = b[m]
      BY <2>2
    <3>2. k \notin 1 .. Len(a)
      BY <1>1, <1>5, <3>1
    <3>3. PICK n \in 1 .. Len(b) : k = Len(a) + n /\ c[k] = b[n]
      BY <1>3, <3>2
    <3>4. m < n
      BY <1>1, <1>5, <3>1, <3>3
    <3> QED BY <1>2, <3>1, <3>3, <3>4
  <2> QED BY <1>3, <2>1, <2>2
<1> QED BY <1>4, <1>5 DEF DataFits

\* What the two halves are responsible for, and together.
LEMMA HalvesRanges ==
  ASSUME NEW big, NEW ht, NEW iv, Tree(big, ht, iv),
         NEW small, NEW p, NEW i, NEW l, NEW r, Halves(big, small, p, i, l, r)
  PROVE  /\ InternalFits(big, ht, iv, p)
         /\ ht[l] = ht[p] - 1 /\ ht[r] = ht[p] - 1
         /\ i \in 1 .. Len(big[p].keys) /\ big[p].keys[i] \in Int
         /\ iv[l] = Lower(Slice(iv[p], small[p].keys, i), big[p].keys[i])
         /\ iv[r] = Upper(Slice(iv[p], small[p].keys, i), big[p].keys[i])
         /\ iv[l] \cup iv[r] = Slice(iv[p], small[p].keys, i)
         /\ Ascending(big[p].keys)
<1> DEFINE key == big[p].keys[i]
           J == Slice(iv[p], small[p].keys, i)
<1>1. /\ p \in DOMAIN big /\ big[p] = Internal(big[p].keys, big[p].kids)
      /\ Without1(big[p].keys, small[p].keys, i)
      /\ Without1(big[p].kids, small[p].kids, i + 1)
      /\ big[p].kids[i] = l /\ big[p].kids[i + 1] = r
  BY DEF Halves, Halved, HalvedAbove, IsInternal
<1>2. ~big[p].leaf
  BY <1>1 DEF Internal
<1>3. InternalFits(big, ht, iv, p)
  BY <1>1, <1>2, Kind
<1>4. Parent(big, ht, iv, p) /\ Children(big, ht, iv, p)
  BY <1>1, <1>3, Family
<1>5. Ascending(big[p].keys) /\ iv[p] \in SUBSET Int
  BY <1>4 DEF Parent, Ascending
<1>6. i \in 1 .. Len(big[p].keys)
  BY <1>1 DEF Without1
<1>7. key \in Int
  BY <1>5, <1>6 DEF Ascending
<1>8. i \in 1 .. Len(big[p].kids) /\ i + 1 \in 1 .. Len(big[p].kids)
  <2>1. Len(big[p].keys) \in Nat /\ Len(big[p].kids) = Len(big[p].keys) + 1
    BY <1>4 DEF Parent
  <2> QED BY <1>6, <2>1
<1>9. /\ ht[l] = ht[p] - 1 /\ iv[l] = Slice(iv[p], big[p].keys, i)
      /\ ht[r] = ht[p] - 1 /\ iv[r] = Slice(iv[p], big[p].keys, i + 1)
  BY <1>1, <1>4, <1>8 DEF Children
<1>10. iv[l] = Lower(J, key) /\ iv[r] = Upper(J, key)
  <2>1. Without1(big[p].keys, small[p].keys, i)
    BY <1>1
  <2>2. /\ Slice(iv[p], big[p].keys, i) = Lower(J, key)
        /\ Slice(iv[p], big[p].keys, i + 1) = Upper(J, key)
    BY <1>5, <2>1, SlicesAbove
  <2> QED BY <1>9, <2>2
<1>11. J \subseteq Int
  BY <1>5 DEF Slice
<1>12. iv[l] \cup iv[r] = J
  <2> HIDE DEF J, key
  <2>1. \A x \in J : x < key \/ key <= x
    BY <1>7, <1>11
  <2> QED BY <1>10, <2>1 DEF Lower, Upper
<1> QED BY <1>3, <1>5, <1>6, <1>7, <1>9, <1>10, <1>12

\* The children of other nodes than p are neither l nor r.
LEMMA ElsewhereNoHalf ==
  ASSUME NEW big, NEW ht, NEW iv, Tree(big, ht, iv),
         NEW small, NEW p, NEW i, NEW l, NEW r, Halves(big, small, p, i, l, r),
         NEW q \in DOMAIN big, InternalFits(big, ht, iv, q), NEW j \in 1 .. Len(big[q].kids),
         q # p \/ (j # i /\ j # i + 1)
  PROVE  big[q].kids[j] # l /\ big[q].kids[j] # r
<1>1. /\ p \in DOMAIN big /\ big[p].kids[i] = l /\ big[p].kids[i + 1] = r
  BY DEF Halves, Halved, HalvedAbove
<1>2. InternalFits(big, ht, iv, p) /\ i \in 1 .. Len(big[p].keys)
  BY HalvesRanges
<1>3. i \in 1 .. Len(big[p].kids) /\ i + 1 \in 1 .. Len(big[p].kids)
  <2>1. Parent(big, ht, iv, p)
    BY <1>1, <1>2, Family
  <2>2. Len(big[p].keys) \in Nat /\ Len(big[p].kids) = Len(big[p].keys) + 1
    BY <2>1 DEF Parent
  <2> QED BY <1>2, <2>2
<1>4. big[q].kids[j] = l => q = p /\ j = i
  BY <1>1, <1>2, <1>3, OneParent
<1>5. big[q].kids[j] = r => q = p /\ j = i + 1
  BY <1>1, <1>2, <1>3, OneParent
<1> QED BY <1>4, <1>5

JoinedHeight(ht, r) == [q \in DOMAIN ht \ {r} |-> ht[q]]
JoinedRange(iv, l, r) ==
  [q \in DOMAIN iv \ {r} |-> IF q = l THEN iv[l] \cup iv[r] ELSE iv[q]]

LEMMA JoinRanges ==
  ASSUME NEW big, NEW ht, NEW iv, Tree(big, ht, iv),
         NEW small, NEW p, NEW i, NEW l, NEW r, Halves(big, small, p, i, l, r)
  PROVE  /\ Ranges(small, JoinedHeight(ht, r), JoinedRange(iv, l, r))
         /\ Apart(JoinedHeight(ht, r), JoinedRange(iv, l, r))
<1> DEFINE ht2 == JoinedHeight(ht, r)
           iv2 == JoinedRange(iv, l, r)
<1>1. /\ p \in DOMAIN big /\ l \in DOMAIN big /\ r \in DOMAIN big /\ l # r
      /\ DOMAIN small = DOMAIN big \ {r}
      /\ IsInternal(small[p], DOMAIN big)
      /\ Without1(big[p].keys, small[p].keys, i)
  BY DEF Halves, Halved, HalvedAbove
<1>2. ht \in [DOMAIN big -> Nat] /\ iv \in [DOMAIN big -> SUBSET Int]
  BY DEF Tree, Ranges
<1>3. ht2 \in [DOMAIN small -> Nat] /\ iv2 \in [DOMAIN small -> SUBSET Int]
  BY <1>1, <1>2 DEF JoinedHeight, JoinedRange
<1>4. /\ \A q \in DOMAIN small : ht2[q] = ht[q]
      /\ \A q \in DOMAIN small : q # l => iv2[q] = iv[q]
      /\ iv2[l] = iv[l] \cup iv[r]
  BY <1>1, <1>2 DEF JoinedHeight, JoinedRange
<1>5. iv2[l] # {} /\ Convex(iv2[l])
  <2>1. iv[l] # {}
    BY <1>1, Kind
  <2>2. iv[l] \cup iv[r] = Slice(iv[p], small[p].keys, i) /\ Ascending(big[p].keys)
    BY HalvesRanges
  <2>3. Ascending(small[p].keys)
    BY <1>1, <2>2, Without1Ascending
  <2>4. Convex(iv[p]) /\ iv[p] \in SUBSET Int
    BY <1>1, Kind
  <2>5. i \in 1 .. Len(small[p].keys) + 1
    BY <1>1 DEF Without1
  <2>6. Convex(Slice(iv[p], small[p].keys, i))
    BY <2>3, <2>4, <2>5, ConvexSlice DEF Ascending
  <2> QED BY <1>4, <2>1, <2>2, <2>6
<1>6. \A q \in DOMAIN small : iv2[q] # {} /\ Convex(iv2[q])
  <2>1. \A q \in DOMAIN small : q # l => iv[q] # {} /\ Convex(iv[q])
    BY <1>1, Kind
  <2> QED BY <1>4, <1>5, <2>1
<1>7. ht[l] = ht[r]
  BY HalvesRanges
<1>8. ASSUME NEW a \in DOMAIN small, NEW b \in DOMAIN small, ht2[a] = ht2[b], a # b
      PROVE  iv2[a] \cap iv2[b] = {}
  <2>1. \A c, d \in DOMAIN big : ht[c] = ht[d] /\ c # d => iv[c] \cap iv[d] = {}
    BY <1>2 DEF Tree, Apart
  <2>2. a \in DOMAIN big /\ b \in DOMAIN big /\ a # r /\ b # r /\ ht[a] = ht[b]
    BY <1>1, <1>4, <1>8
  <2>3. iv[a] \cap iv[b] = {}
    BY <1>8, <2>1, <2>2
  <2>4. CASE a = l
    <3>1. iv[r] \cap iv[b] = {}
      BY <1>1, <1>7, <2>1, <2>2, <2>4
    <3> QED BY <1>4, <1>8, <2>3, <2>4, <3>1
  <2>5. CASE b = l
    <3>1. iv[a] \cap iv[r] = {}
      BY <1>1, <1>7, <2>1, <2>2, <2>5
    <3> QED BY <1>4, <1>8, <2>3, <2>5, <3>1
  <2>6. CASE a # l /\ b # l
    BY <1>4, <2>3, <2>6
  <2> QED BY <2>4, <2>5, <2>6
<1>9. DOMAIN ht2 = DOMAIN small
  BY <1>3
<1> HIDE DEF ht2, iv2
<1>10. Apart(ht2, iv2)
  BY <1>8, <1>9 DEF Apart
<1>11. Ranges(small, ht2, iv2)
  BY <1>3, <1>6 DEF Ranges
<1> QED BY <1>10, <1>11 DEF ht2, iv2

\* The parent of the two.
LEMMA JoinAbove ==
  ASSUME NEW big, NEW ht, NEW iv, Tree(big, ht, iv),
         NEW small, NEW p, NEW i, NEW l, NEW r, Halves(big, small, p, i, l, r)
  PROVE  InternalFits(small, JoinedHeight(ht, r), JoinedRange(iv, l, r), p)
<1> DEFINE ht2 == JoinedHeight(ht, r)
           iv2 == JoinedRange(iv, l, r)
           t == big[p].keys
           s == small[p].keys
           bc == big[p].kids
           sc == small[p].kids
<1>1. /\ p \in DOMAIN big /\ l \in DOMAIN big /\ r \in DOMAIN big /\ l # r /\ p # l /\ p # r
      /\ DOMAIN small = DOMAIN big \ {r}
      /\ bc[i] = l /\ bc[i + 1] = r
  BY DEF Halves, Halved, HalvedAbove
<1>2. IsInternal(big[p], DOMAIN big) /\ IsInternal(small[p], DOMAIN big)
  BY DEF Halves, HalvedAbove
<1>3. Without1(t, s, i) /\ Without1(bc, sc, i + 1)
  BY DEF Halves, HalvedAbove
<1>4. /\ InternalFits(big, ht, iv, p) /\ Ascending(t)
      /\ ht[l] = ht[p] - 1 /\ iv[l] \cup iv[r] = Slice(iv[p], s, i)
  BY HalvesRanges
<1>5. Parent(big, ht, iv, p) /\ Children(big, ht, iv, p)
  BY <1>1, <1>4, Family
<1>6. /\ ht \in [DOMAIN big -> Nat] /\ iv \in [DOMAIN big -> SUBSET Int]
  BY DEF Tree, Ranges
<1>7. /\ \A q \in DOMAIN big : q # r => ht2[q] = ht[q]
      /\ \A q \in DOMAIN big : q # r /\ q # l => iv2[q] = iv[q]
      /\ iv2[l] = iv[l] \cup iv[r]
  BY <1>1, <1>6 DEF JoinedHeight, JoinedRange
<1>8. /\ i \in 1 .. Len(t) /\ Len(s) \in Nat /\ Len(t) = Len(s) + 1 /\ Len(t) \in Nat
      /\ Len(bc) = Len(t) + 1 /\ Len(sc) = Len(s) + 1
  <2>1. Len(bc) = Len(t) + 1 /\ Len(sc) = Len(s) + 1
    BY <1>2 DEF IsInternal
  <2> QED BY <1>3, <2>1 DEF Without1
<1> HIDE DEF ht2, iv2
\* where the child at position j was
<1> DEFINE At(j) == IF j < i + 1 THEN j ELSE j + 1
<1>9. ASSUME NEW j \in 1 .. Len(sc) PROVE sc[j] = bc[At(j)] /\ At(j) \in 1 .. Len(bc) /\ At(j) # i + 1
  <2>1. CASE j < i + 1
    <3>1. j \in 1 .. (i + 1) - 1 /\ j \in 1 .. Len(bc) /\ j # i + 1
      BY <1>8, <2>1
    <3> QED BY <1>3, <2>1, <3>1 DEF Without1
  <2>2. CASE ~(j < i + 1)
    <3>1. j \in i + 1 .. Len(sc) /\ j + 1 \in 1 .. Len(bc) /\ j + 1 # i + 1
      BY <1>8, <2>2
    <3> QED BY <1>3, <2>2, <3>1 DEF Without1
  <2> QED BY <2>1, <2>2
<1>10. ASSUME NEW j \in 1 .. Len(sc) PROVE At(j) = i <=> j = i
  BY <1>8
<1> HIDE DEF At
<1>11. ASSUME NEW j \in 1 .. Len(sc)
       PROVE  sc[j] \in DOMAIN big /\ sc[j] # r /\ (j # i => sc[j] # l)
  <2>1. sc[j] \in DOMAIN big
    BY <1>5, <1>9 DEF Children
  <2>2. CASE j = i
    BY <1>1, <1>9, <1>10, <2>1, <2>2
  <2>3. CASE j # i
    <3>1. At(j) # i /\ At(j) # i + 1 /\ At(j) \in 1 .. Len(bc)
      BY <1>9, <1>10, <2>3
    <3>2. bc[At(j)] # l /\ bc[At(j)] # r
      BY <1>1, <1>4, <3>1, ElsewhereNoHalf
    <3> QED BY <1>9, <2>1, <3>2
  <2> QED BY <2>2, <2>3
<1>12. IsInternal(small[p], DOMAIN small)
  <2>1. \A j \in 1 .. Len(sc) : sc[j] \in DOMAIN small
    BY <1>1, <1>11
  <2>2. sc \in Seq(DOMAIN big)
    BY <1>2 DEF IsInternal
  <2>3. sc \in Seq(DOMAIN small)
    BY <2>1, <2>2, Elements
  <2> QED BY <1>2, <2>3 DEF IsInternal
<1>13. KeysFit(s, iv[p])
  <2>1. Ascending(s) /\ \A j \in 1 .. Len(s) : \E m \in 1 .. Len(t) : s[j] = t[m]
    BY <1>3, <1>4, Without1Ascending
  <2>2. \A m \in 1 .. Len(t) : t[m] \in iv[p]
    BY <1>5 DEF Parent
  <2>3. \A j \in 1 .. Len(s) : s[j] \in iv[p]
    BY <2>1, <2>2
  <2> QED BY <2>1, <2>3 DEF KeysFit, Ascending
<1>14. ht2[p] = ht[p] /\ iv2[p] = iv[p] /\ iv[p] \in SUBSET Int
  BY <1>1, <1>6, <1>7
<1>15. ASSUME NEW j \in 1 .. Len(sc)
       PROVE  ht2[sc[j]] = ht[p] - 1 /\ iv2[sc[j]] = Slice(iv[p], s, j)
  <2>1. /\ ht[sc[j]] = ht[p] - 1
        /\ iv[sc[j]] = Slice(iv[p], t, At(j))
    BY <1>5, <1>9 DEF Children
  <2>2. ht2[sc[j]] = ht[p] - 1
    BY <1>7, <1>11, <2>1
  <2>3. CASE j < i
    <3>1. j \in 1 .. i - 1 /\ At(j) = j
      BY <1>8, <2>3 DEF At
    <3>2. Slice(iv[p], s, j) = Slice(iv[p], t, j)
      BY <1>3, <1>4, <1>14, <3>1, SlicesAside
    <3> QED BY <1>7, <1>11, <2>1, <2>2, <2>3, <3>1, <3>2
  <2>4. CASE j = i
    <3>1. sc[j] = l
      BY <1>1, <1>9, <1>10, <2>4
    <3> QED BY <1>4, <1>7, <2>2, <2>4, <3>1
  <2>5. CASE j > i
    <3>1. j \in i + 1 .. Len(t) /\ At(j) = j + 1 /\ j # i
      BY <1>8, <2>5 DEF At
    <3>2. Slice(iv[p], s, j) = Slice(iv[p], t, j + 1)
      BY <1>3, <1>4, <1>14, <3>1, SlicesAside
    <3> QED BY <1>7, <1>11, <2>1, <2>2, <3>1, <3>2
  <2> QED BY <1>8, <2>3, <2>4, <2>5
<1>16. ht2[p] > 0
  BY <1>5, <1>14 DEF Parent
<1> QED BY <1>12, <1>13, <1>14, <1>15, <1>16 DEF InternalFits, ht2, iv2

\* Nodes that are neither the parent nor one of the two.
LEMMA JoinAside ==
  ASSUME NEW big, NEW ht, NEW iv, Tree(big, ht, iv),
         NEW small, NEW p, NEW i, NEW l, NEW r, Halves(big, small, p, i, l, r),
         NEW q \in DOMAIN big, q # p, q # l, q # r
  PROVE  \/ LeafFits(small, JoinedHeight(ht, r), JoinedRange(iv, l, r), q)
         \/ InternalFits(small, JoinedHeight(ht, r), JoinedRange(iv, l, r), q)
<1> DEFINE ht2 == JoinedHeight(ht, r)
           iv2 == JoinedRange(iv, l, r)
           kids == big[q].kids
<1>1. /\ l \in DOMAIN big /\ r \in DOMAIN big /\ l # r
      /\ DOMAIN small = DOMAIN big \ {r}
      /\ small[q] = big[q]
  BY DEF Halves, Halved
<1>2. /\ ht \in [DOMAIN big -> Nat] /\ iv \in [DOMAIN big -> SUBSET Int]
  BY DEF Tree, Ranges
<1>3. /\ \A a \in DOMAIN big : a # r => ht2[a] = ht[a]
      /\ \A a \in DOMAIN big : a # r /\ a # l => iv2[a] = iv[a]
  BY <1>1, <1>2 DEF JoinedHeight, JoinedRange
<1>4. ht2[q] = ht[q] /\ iv2[q] = iv[q]
  BY <1>1, <1>3
<1> HIDE DEF ht2, iv2
<1>5. CASE LeafFits(big, ht, iv, q)
  <2>1. LeafFits(small, ht2, iv2, q)
    BY <1>1, <1>4, <1>5 DEF LeafFits
  <2> QED BY <2>1 DEF ht2, iv2
<1>6. CASE InternalFits(big, ht, iv, q)
  <2>1. Parent(big, ht, iv, q) /\ Children(big, ht, iv, q)
    BY <1>6, Family
  <2>2. \A j \in 1 .. Len(kids) : kids[j] # l /\ kids[j] # r
    BY <1>6, ElsewhereNoHalf
  <2>3. \A j \in 1 .. Len(kids) :
          /\ kids[j] \in DOMAIN small
          /\ ht2[kids[j]] = ht2[q] - 1
          /\ iv2[kids[j]] = Slice(iv2[q], big[q].keys, j)
    BY <1>1, <1>3, <1>4, <2>1, <2>2 DEF Children
  <2>4. IsInternal(big[q], DOMAIN big) /\ KeysFit(big[q].keys, iv[q]) /\ ht[q] > 0
    BY <1>6 DEF InternalFits
  <2>5. kids \in Seq(DOMAIN small)
    <3>1. kids \in Seq(DOMAIN big)
      BY <2>4 DEF IsInternal
    <3> QED BY <2>3, <3>1, Elements
  <2>6. IsInternal(big[q], DOMAIN small)
    BY <2>4, <2>5 DEF IsInternal
  <2>7. InternalFits(small, ht2, iv2, q)
    BY <1>1, <1>4, <2>3, <2>4, <2>6 DEF InternalFits
  <2> QED BY <2>7 DEF ht2, iv2
<1> QED BY <1>5, <1>6 DEF Tree

\* The two made one, leaves first.
LEMMA JoinLeaves ==
  ASSUME NEW big, NEW ht, NEW iv, Tree(big, ht, iv),
         NEW small, NEW p, NEW i, NEW l, NEW r, Halves(big, small, p, i, l, r),
         HalvedLeaf(big[l], big[r], small[l])
  PROVE  LeafFits(small, JoinedHeight(ht, r), JoinedRange(iv, l, r), l)
<1> DEFINE a == big[l].data
           b == big[r].data
           c == small[l].data
           key == big[p].keys[i]
           J == iv[l] \cup iv[r]
<1>1. l \in DOMAIN big /\ r \in DOMAIN big /\ l # r
  BY DEF Halves, Halved
<1>2. ht \in [DOMAIN big -> Nat] /\ iv \in [DOMAIN big -> SUBSET Int]
  BY DEF Tree, Ranges
<1>3. JoinedHeight(ht, r)[l] = ht[l] /\ JoinedRange(iv, l, r)[l] = J
  BY <1>1, <1>2 DEF JoinedHeight, JoinedRange
<1>4. IsLeaf(big[l]) /\ IsLeaf(big[r]) /\ IsLeaf(small[l]) /\ Joined(a, b, c)
  BY DEF HalvedLeaf
<1>5. LeafFits(big, ht, iv, l) /\ LeafFits(big, ht, iv, r)
  <2>1. big[l].leaf = TRUE /\ big[r].leaf = TRUE
    BY <1>4 DEF IsLeaf, Leaf
  <2> QED BY <1>1, <2>1, Kind
<1>6. /\ iv[l] = Lower(Slice(iv[p], small[p].keys, i), key)
      /\ iv[r] = Upper(Slice(iv[p], small[p].keys, i), key)
      /\ key \in Int
  BY HalvesRanges
<1>7. iv[l] \subseteq Int /\ iv[r] \subseteq Int
  BY <1>1, <1>2
<1>8. \A x \in iv[l], y \in iv[r] : x < y
  <2>1. (\A x \in iv[l] : x < key) /\ (\A x \in iv[r] : key <= x)
    BY <1>6 DEF Lower, Upper
  <2> QED BY <1>6, <1>7, <2>1
<1>9. DataFits(a, iv[l]) /\ DataFits(b, iv[r])
  BY <1>5 DEF LeafFits
<1>10. DataFits(c, J)
  BY <1>4, <1>7, <1>8, <1>9, JoinedData
<1>11. ht[l] = 0
  BY <1>5 DEF LeafFits
<1> QED BY <1>3, <1>4, <1>10, <1>11 DEF LeafFits

LEMMA JoinInternals ==
  ASSUME NEW big, NEW ht, NEW iv, Tree(big, ht, iv),
         NEW small, NEW p, NEW i, NEW l, NEW r, Halves(big, small, p, i, l, r),
         HalvedInternal(big[l], big[p].keys[i], big[r], small[l], DOMAIN big)
  PROVE  InternalFits(small, JoinedHeight(ht, r), JoinedRange(iv, l, r), l)
<1> DEFINE a == big[l]
           b == big[r]
           c == small[l]
           key == big[p].keys[i]
           J == iv[l] \cup iv[r]
           ht2 == JoinedHeight(ht, r)
           iv2 == JoinedRange(iv, l, r)
<1>1. /\ l \in DOMAIN big /\ r \in DOMAIN big /\ p \in DOMAIN big /\ l # r
      /\ DOMAIN small = DOMAIN big \ {r}
  BY DEF Halves, Halved
<1>2. ht \in [DOMAIN big -> Nat] /\ iv \in [DOMAIN big -> SUBSET Int]
  BY DEF Tree, Ranges
<1>3. /\ \A q \in DOMAIN big : q # r => ht2[q] = ht[q]
      /\ \A q \in DOMAIN big : q # r /\ q # l => iv2[q] = iv[q]
      /\ iv2[l] = J
  BY <1>1, <1>2 DEF JoinedHeight, JoinedRange
<1> HIDE DEF ht2, iv2
<1>4. /\ IsInternal(a, DOMAIN big) /\ IsInternal(b, DOMAIN big) /\ IsInternal(c, DOMAIN big)
      /\ JoinedBy(a.keys, key, b.keys, c.keys)
      /\ Joined(a.kids, b.kids, c.kids)
  BY DEF HalvedInternal
<1>5. InternalFits(big, ht, iv, l) /\ InternalFits(big, ht, iv, r)
  <2>1. a.leaf = FALSE /\ b.leaf = FALSE
    BY <1>4 DEF IsInternal, Internal
  <2> QED BY <1>1, <2>1, Kind
<1>6. /\ Parent(big, ht, iv, l) /\ Children(big, ht, iv, l)
      /\ Parent(big, ht, iv, r) /\ Children(big, ht, iv, r)
  BY <1>1, <1>5, Family
<1>7. /\ iv[l] = Lower(Slice(iv[p], small[p].keys, i), key)
      /\ iv[r] = Upper(Slice(iv[p], small[p].keys, i), key)
      /\ J = Slice(iv[p], small[p].keys, i)
      /\ key \in Int /\ Ascending(big[p].keys) /\ i \in 1 .. Len(big[p].keys)
      /\ ht[l] = ht[p] - 1 /\ ht[r] = ht[p] - 1
  BY HalvesRanges
<1>8. iv[l] = Lower(J, key) /\ iv[r] = Upper(J, key)
  BY <1>7
<1>9. J \in SUBSET Int
  BY <1>1, <1>2
\* no separator of the right node is below the one between the nodes; that one
\* is not among them, because the first child of the right node has keys
<1>10. /\ \A j \in 1 .. Len(a.keys) : a.keys[j] \in iv[l]
       /\ \A j \in 1 .. Len(b.keys) : b.keys[j] \in iv[r] /\ b.keys[j] \in Int
       /\ \A j, k \in 1 .. Len(b.keys) : j < k => b.keys[j] < b.keys[k]
  BY <1>6 DEF Parent
<1>11. \A j \in 1 .. Len(a.keys) : a.keys[j] < key
  BY <1>8, <1>10 DEF Lower
<1>12. \A j \in 1 .. Len(b.keys) : key < b.keys[j]
  <2> SUFFICES ASSUME NEW j \in 1 .. Len(b.keys) PROVE key < b.keys[j]
    OBVIOUS
  <2>1. Len(b.keys) \in Nat /\ Len(b.kids) = Len(b.keys) + 1
    BY <1>6 DEF Parent
  <2>2. 1 \in 1 .. Len(b.kids) /\ 1 \in 1 .. Len(b.keys) /\ (1 < j \/ 1 = j)
    BY <2>1
  <2>3. b.kids[1] \in DOMAIN big /\ iv[b.kids[1]] = Slice(iv[r], b.keys, 1)
    BY <1>6, <2>2 DEF Children
  <2>4. PICK x : x \in Slice(iv[r], b.keys, 1)
    BY <2>3, Kind
  <2>5. x \in iv[r] /\ x < b.keys[1]
    BY <2>2, <2>4 DEF Slice
  <2>6. key <= x /\ x \in Int
    BY <1>8, <1>9, <2>5 DEF Upper
  <2>7. b.keys[1] <= b.keys[j] /\ b.keys[1] \in Int /\ b.keys[j] \in Int
    BY <1>10, <2>2
  <2> QED BY <1>7, <2>5, <2>6, <2>7
<1>13. Ascending(a.keys) /\ Ascending(b.keys)
  BY <1>6 DEF Parent, Ascending
<1>14. Ascending(c.keys)
  BY <1>4, <1>7, <1>11, <1>12, <1>13, JoinedAscending
<1>15. /\ Len(a.keys) \in Nat /\ Len(b.keys) \in Nat
       /\ Len(a.kids) = Len(a.keys) + 1 /\ Len(b.kids) = Len(b.keys) + 1
       /\ Len(c.keys) = Len(a.keys) + 1 + Len(b.keys)
       /\ Len(c.kids) = Len(a.kids) + Len(b.kids)
  BY <1>4 DEF IsInternal, JoinedBy, Joined
<1>16. key \in J
  <2>1. key \in iv[p]
    <3>1. Parent(big, ht, iv, p)
      BY <1>1, Family, HalvesRanges
    <3> QED BY <1>7, <3>1 DEF Parent
  <2>2. Without1(big[p].keys, small[p].keys, i)
    BY DEF Halves, HalvedAbove
  <2>3. i + 1 \in 1 .. Len(big[p].kids) /\ big[p].kids[i + 1] = r
    <3>1. Len(big[p].kids) = Len(big[p].keys) + 1 /\ Len(big[p].keys) \in Nat
      BY <1>7 DEF Halves, HalvedAbove, IsInternal, Ascending
    <3> QED BY <1>7, <3>1 DEF Halves, HalvedAbove
  <2>4. iv[r] = Slice(iv[p], big[p].keys, i + 1)
    <3>1. Children(big, ht, iv, p)
      BY <1>1, Family, HalvesRanges
    <3> QED BY <2>3, <3>1 DEF Children
  <2>5. key \in Slice(iv[p], big[p].keys, i + 1)
    <3>1. i + 1 <= Len(big[p].keys) => key < big[p].keys[i + 1]
      BY <1>7 DEF Ascending
    <3>2. (i + 1) - 1 = i /\ key <= key
      BY <1>7
    <3> QED BY <2>1, <3>1, <3>2 DEF Slice
  <2> QED BY <2>4, <2>5
<1>17. \A j \in 1 .. Len(c.keys) : c.keys[j] \in J
  <2>1. JoinedBy(a.keys, key, b.keys, c.keys)
    BY <1>4
  <2>2. \A j \in 1 .. Len(c.keys) : InPartBy(a.keys, key, b.keys, c.keys, j)
    BY <2>1, JoinedByCases
  <2> QED BY <1>10, <1>16, <2>2 DEF InPartBy
<1>18. ASSUME NEW q \in DOMAIN big, ht[q] = ht[l] - 1
       PROVE  q # l /\ q # r /\ ht2[q] = ht[q] /\ iv2[q] = iv[q]
  <2>1. ht[l] \in Nat /\ ht[r] = ht[l]
    BY <1>1, <1>2, <1>7
  <2>2. q # l /\ q # r
    BY <1>18, <2>1
  <2> QED BY <1>3, <2>2
<1>19. ASSUME NEW j \in 1 .. Len(c.kids)
       PROVE  /\ c.kids[j] \in DOMAIN small
              /\ ht2[c.kids[j]] = ht[l] - 1
              /\ iv2[c.kids[j]] = Slice(J, c.keys, j)
  <2>1. JoinedBy(a.keys, key, b.keys, c.keys)
    BY <1>4
  <2>2. CASE j \in 1 .. Len(a.kids) /\ c.kids[j] = a.kids[j]
    <3>1. j \in 1 .. Len(a.keys) + 1
      BY <1>15, <2>2
    <3>2. /\ a.kids[j] \in DOMAIN big /\ ht[a.kids[j]] = ht[l] - 1
          /\ iv[a.kids[j]] = Slice(iv[l], a.keys, j)
      BY <1>6, <2>2 DEF Children
    <3>3. Slice(Lower(J, key), a.keys, j) = Slice(J, c.keys, j)
      BY <1>9, <1>14, <2>1, <3>1, SlicesLower
    <3> QED BY <1>1, <1>8, <1>18, <2>2, <3>2, <3>3
  <2>3. CASE \E m \in 1 .. Len(b.kids) : j = Len(a.kids) + m /\ c.kids[j] = b.kids[m]
    <3>1. PICK m \in 1 .. Len(b.kids) : j = Len(a.kids) + m /\ c.kids[j] = b.kids[m]
      BY <2>3
    <3>2. m \in 1 .. Len(b.keys) + 1 /\ Len(a.keys) + 1 + m = j
      BY <1>15, <3>1
    <3>3. /\ b.kids[m] \in DOMAIN big /\ ht[b.kids[m]] = ht[r] - 1
          /\ iv[b.kids[m]] = Slice(iv[r], b.keys, m)
      BY <1>6, <3>1 DEF Children
    <3>4. Slice(Upper(J, key), b.keys, m) = Slice(J, c.keys, Len(a.keys) + 1 + m)
      BY <1>9, <1>14, <2>1, <3>2, SlicesUpper
    <3> QED BY <1>1, <1>7, <1>8, <1>18, <3>1, <3>2, <3>3, <3>4
  <2>4. InPart(a.kids, b.kids, c.kids, j)
    BY <1>4, JoinedCases
  <2> QED BY <2>2, <2>3, <2>4 DEF InPart
<1>20. IsInternal(c, DOMAIN small)
  <2>1. c.kids \in Seq(DOMAIN big)
    BY <1>4 DEF IsInternal
  <2>2. c.kids \in Seq(DOMAIN small)
    BY <1>19, <2>1, Elements
  <2> QED BY <1>4, <2>2 DEF IsInternal
<1>21. KeysFit(c.keys, J)
  BY <1>14, <1>17 DEF KeysFit, Ascending
<1>22. ht2[l] = ht[l] /\ ht[l] > 0
  BY <1>1, <1>3, <1>6 DEF Parent
<1>23. InternalFits(small, ht2, iv2, l)
  BY <1>3, <1>19, <1>20, <1>21, <1>22 DEF InternalFits
<1> QED BY <1>23 DEF ht2, iv2

\* A tree with two neighbours made one is a tree.
LEMMA JoinKeepsTree ==
  ASSUME NEW big, NEW ht, NEW iv, Tree(big, ht, iv),
         NEW small, NEW p, NEW i, NEW l, NEW r, Halves(big, small, p, i, l, r)
  PROVE  Tree(small, JoinedHeight(ht, r), JoinedRange(iv, l, r))
<1> DEFINE ht2 == JoinedHeight(ht, r)
           iv2 == JoinedRange(iv, l, r)
<1>1. DOMAIN small = DOMAIN big \ {r} /\ IsHeap(small)
  BY DEF Halves, Halved
<1>2. Ranges(small, ht2, iv2) /\ Apart(ht2, iv2)
  BY JoinRanges
<1>3. InternalFits(small, ht2, iv2, p)
  BY JoinAbove
<1>4. LeafFits(small, ht2, iv2, l) \/ InternalFits(small, ht2, iv2, l)
  BY JoinLeaves, JoinInternals DEF Halves
<1>5. \A q \in DOMAIN big : q # p /\ q # l /\ q # r =>
        LeafFits(small, ht2, iv2, q) \/ InternalFits(small, ht2, iv2, q)
  BY JoinAside
<1> HIDE DEF ht2, iv2
<1>6. Tree(small, ht2, iv2)
  BY <1>1, <1>2, <1>3, <1>4, <1>5 DEF Tree
<1> QED BY <1>6 DEF ht2, iv2

-----------------------------------------------------------------------------
(* And back: one node cut in two *)

CutHeight(ht, l, r) == [q \in DOMAIN ht \cup {r} |-> IF q = r THEN ht[l] ELSE ht[q]]
CutRange(iv, l, r, key) ==
  [q \in DOMAIN iv \cup {r} |->
     IF q = r THEN Upper(iv[l], key) ELSE IF q = l THEN Lower(iv[l], key) ELSE iv[q]]

\* Both halves have something, and the new separator is the first key that goes
\* to the right.
Proper(big, p, i, l, r) ==
  IF big[l].leaf
  THEN /\ Len(big[l].data) >= 1 /\ Len(big[r].data) >= 1
       /\ big[p].keys[i] = big[r].data[1][1]
  ELSE Len(big[l].keys) >= 1

\* A separator more, at the right place, leaves them ascending.
LEMMA Without1Inserted ==
  ASSUME NEW s, Ascending(s), NEW t, NEW i, Without1(t, s, i), t[i] \in Int,
         i > 1 => s[i - 1] < t[i],
         i <= Len(s) => t[i] < s[i]
  PROVE  Ascending(t)
<1>1. i \in 1 .. Len(t) /\ Len(s) \in Nat /\ Len(t) = Len(s) + 1
  BY DEF Without1
<1>2. /\ \A j \in 1 .. Len(s) : s[j] \in Int
      /\ \A j, k \in 1 .. Len(s) : j < k => s[j] < s[k]
  BY DEF Ascending
<1>3. ASSUME NEW j \in 1 .. Len(t)
      PROVE  \/ j < i /\ j \in 1 .. Len(s) /\ t[j] = s[j]
             \/ j = i
             \/ j > i /\ j - 1 \in 1 .. Len(s) /\ j - 1 >= i /\ t[j] = s[j - 1]
  <2>1. CASE j < i
    <3>1. j \in 1 .. i - 1 /\ j \in 1 .. Len(s)
      BY <1>1, <2>1
    <3> QED BY <2>1, <3>1 DEF Without1
  <2>2. CASE j > i
    <3>1. j - 1 \in i .. Len(s) /\ (j - 1) + 1 = j /\ j - 1 \in 1 .. Len(s) /\ j - 1 >= i
      BY <1>1, <2>2
    <3> QED BY <2>2, <3>1 DEF Without1
  <2> QED BY <1>1, <2>1, <2>2
<1>4. \A j \in 1 .. Len(t) : t[j] \in Int
  BY <1>2, <1>3
<1>5. \A j \in 1 .. Len(s) : j < i => s[j] < t[i]
  <2> SUFFICES ASSUME NEW j \in 1 .. Len(s), j < i PROVE s[j] < t[i]
    OBVIOUS
  <2>1. i > 1 /\ i - 1 \in 1 .. Len(s) /\ (j < i - 1 \/ j = i - 1)
    BY <1>1
  <2>2. s[i - 1] < t[i] /\ s[j] <= s[i - 1] /\ s[j] \in Int /\ s[i - 1] \in Int
    BY <1>2, <2>1
  <2> QED BY <2>2
<1>6. \A j \in 1 .. Len(s) : j >= i => t[i] < s[j]
  <2> SUFFICES ASSUME NEW j \in 1 .. Len(s), j >= i PROVE t[i] < s[j]
    OBVIOUS
  <2>1. i <= Len(s) /\ i \in 1 .. Len(s) /\ (i < j \/ j = i)
    BY <1>1
  <2>2. t[i] < s[i] /\ s[i] <= s[j] /\ s[j] \in Int /\ s[i] \in Int
    BY <1>2, <2>1
  <2> QED BY <2>2
<1>7. ASSUME NEW j \in 1 .. Len(t), NEW k \in 1 .. Len(t), j < k PROVE t[j] < t[k]
  <2>1. CASE j < i /\ j \in 1 .. Len(s) /\ t[j] = s[j]
    <3>1. CASE k < i /\ k \in 1 .. Len(s) /\ t[k] = s[k]
      BY <1>2, <1>7, <2>1, <3>1
    <3>2. CASE k = i
      BY <1>5, <2>1, <3>2
    <3>3. CASE k > i /\ k - 1 \in 1 .. Len(s) /\ k - 1 >= i /\ t[k] = s[k - 1]
      <4>1. j < k - 1
        BY <1>1, <2>1, <3>3
      <4> QED BY <1>2, <2>1, <3>3, <4>1
    <3> QED BY <1>3, <3>1, <3>2, <3>3
  <2>2. CASE j = i
    <3>1. k > i /\ ~(k < i) /\ k # i
      BY <1>1, <1>7, <2>2
    <3>2. k - 1 \in 1 .. Len(s) /\ k - 1 >= i /\ t[k] = s[k - 1]
      BY <1>3, <3>1
    <3> QED BY <1>6, <2>2, <3>2
  <2>3. CASE j > i /\ j - 1 \in 1 .. Len(s) /\ j - 1 >= i /\ t[j] = s[j - 1]
    <3>1. k > i /\ ~(k < i) /\ k # i /\ j - 1 < k - 1
      BY <1>1, <1>7, <2>3
    <3>2. k - 1 \in 1 .. Len(s) /\ t[k] = s[k - 1]
      BY <1>3, <3>1
    <3> QED BY <1>2, <2>3, <3>1, <3>2
  <2> QED BY <1>3, <2>1, <2>2, <2>3
<1> QED BY <1>1, <1>4, <1>7 DEF Ascending

LEMMA ConvexParts ==
  ASSUME NEW I \in SUBSET Int, Convex(I), NEW key \in Int
  PROVE  Convex(Lower(I, key)) /\ Convex(Upper(I, key))
<1>1. \A x, z \in I : \A y \in Int : x < y /\ y < z => y \in I
  BY DEF Convex
<1>2. Convex(Lower(I, key))
  BY <1>1 DEF Convex, Lower
<1>3. Convex(Upper(I, key))
  BY <1>1 DEF Convex, Upper
<1> QED BY <1>2, <1>3

\* The parts of the data of a leaf.
LEMMA CutData ==
  ASSUME NEW a, NEW b, NEW c, Joined(a, b, c),
         NEW I \in SUBSET Int, DataFits(c, I),
         Len(a) >= 1, Len(b) >= 1
  PROVE  /\ b[1][1] \in I
         /\ a[1][1] \in Lower(I, b[1][1])
         /\ DataFits(a, Lower(I, b[1][1]))
         /\ DataFits(b, Upper(I, b[1][1]))
<1>1. Len(a) \in Nat /\ Len(b) \in Nat /\ Len(c) = Len(a) + Len(b)
  BY DEF Joined
<1>2. /\ \A j, k \in 1 .. Len(c) : j < k => c[j][1] < c[k][1]
      /\ \A j \in 1 .. Len(c) : c[j][1] \in I
  BY DEF DataFits
<1>3. /\ \A j \in 1 .. Len(a) : j \in 1 .. Len(c) /\ c[j] = a[j]
      /\ \A j \in 1 .. Len(b) : Len(a) + j \in 1 .. Len(c) /\ c[Len(a) + j] = b[j]
  BY <1>1, SMTT(40) DEF Joined
<1>4. 1 \in 1 .. Len(a) /\ 1 \in 1 .. Len(b)
  BY <1>1
<1>5. b[1][1] \in I
  BY <1>2, <1>3, <1>4
<1>6. ASSUME NEW j \in 1 .. Len(a) PROVE a[j][1] \in I /\ a[j][1] < b[1][1]
  <2>1. j < Len(a) + 1
    BY <1>1
  <2>2. c[j] = a[j] /\ c[Len(a) + 1] = b[1] /\ j \in 1 .. Len(c) /\ Len(a) + 1 \in 1 .. Len(c)
    BY <1>3, <1>4
  <2> QED BY <1>2, <2>1, <2>2
<1>7. ASSUME NEW j \in 1 .. Len(b) PROVE b[j][1] \in I /\ b[1][1] <= b[j][1]
  <2>1. Len(a) + 1 < Len(a) + j \/ j = 1
    BY <1>1
  <2>2. /\ c[Len(a) + j] = b[j] /\ c[Len(a) + 1] = b[1]
        /\ Len(a) + j \in 1 .. Len(c) /\ Len(a) + 1 \in 1 .. Len(c)
    BY <1>3, <1>4
  <2>3. b[j][1] \in I /\ b[1][1] \in I
    BY <1>2, <2>2
  <2>4. b[j][1] \in Int /\ b[1][1] \in Int
    BY <2>3
  <2>5. CASE Len(a) + 1 < Len(a) + j
    <3>1. c[Len(a) + 1][1] < c[Len(a) + j][1]
      BY <1>2, <2>2, <2>5
    <3> QED BY <2>2, <2>3, <2>4, <3>1
  <2>6. CASE j = 1
    BY <2>3, <2>4, <2>6
  <2> QED BY <2>1, <2>5, <2>6
<1>8. /\ \A j, k \in 1 .. Len(a) : j < k => a[j][1] < a[k][1]
      /\ \A j, k \in 1 .. Len(b) : j < k => b[j][1] < b[k][1]
  <2>1. \A j, k \in 1 .. Len(b) : j < k => Len(a) + j < Len(a) + k
    BY <1>1
  <2> QED BY <1>2, <1>3, <2>1
<1>9. DataFits(a, Lower(I, b[1][1]))
  BY <1>6, <1>8 DEF DataFits, Lower
<1>10. DataFits(b, Upper(I, b[1][1]))
  BY <1>7, <1>8 DEF DataFits, Upper
<1> QED BY <1>4, <1>5, <1>6, <1>9, <1>10 DEF Lower

\* The parts of the separators of an internal node.
LEMMA CutKeys ==
  ASSUME NEW a, NEW key, NEW b, NEW c, JoinedBy(a, key, b, c), Ascending(c),
         NEW I \in SUBSET Int, \A j \in 1 .. Len(c) : c[j] \in I
  PROVE  /\ key \in I
         /\ KeysFit(a, Lower(I, key))
         /\ KeysFit(b, Upper(I, key))
<1>1. Len(a) \in Nat /\ Len(b) \in Nat /\ Len(c) = Len(a) + 1 + Len(b)
  BY DEF JoinedBy
<1>2. \A j, k \in 1 .. Len(c) : j < k => c[j] < c[k]
  BY DEF Ascending
<1>3. /\ \A j \in 1 .. Len(a) : j \in 1 .. Len(c) /\ c[j] = a[j]
      /\ \A j \in 1 .. Len(b) : Len(a) + 1 + j \in 1 .. Len(c) /\ c[Len(a) + 1 + j] = b[j]
      /\ Len(a) + 1 \in 1 .. Len(c) /\ c[Len(a) + 1] = key
  BY <1>1 DEF JoinedBy
<1>4. key \in I
  BY <1>3
<1>5. ASSUME NEW j \in 1 .. Len(a) PROVE a[j] \in I /\ a[j] < key
  <2>1. j < Len(a) + 1
    BY <1>1
  <2> QED BY <1>2, <1>3, <2>1
<1>6. ASSUME NEW j \in 1 .. Len(b) PROVE b[j] \in I /\ key <= b[j]
  <2>1. Len(a) + 1 < Len(a) + 1 + j
    BY <1>1
  <2>2. /\ Len(a) + 1 \in 1 .. Len(c) /\ Len(a) + 1 + j \in 1 .. Len(c)
        /\ c[Len(a) + 1] = key /\ c[Len(a) + 1 + j] = b[j]
    BY <1>3
  <2>3. c[Len(a) + 1] < c[Len(a) + 1 + j] /\ b[j] \in I
    BY <1>2, <2>1, <2>2
  <2>4. key \in Int /\ b[j] \in Int /\ key < b[j]
    BY <1>4, <2>2, <2>3
  <2> QED BY <2>3, <2>4
<1>7. /\ \A j, k \in 1 .. Len(a) : j < k => a[j] < a[k]
      /\ \A j, k \in 1 .. Len(b) : j < k => b[j] < b[k]
  <2>1. \A j, k \in 1 .. Len(b) : j < k => Len(a) + 1 + j < Len(a) + 1 + k
    BY <1>1
  <2> QED BY <1>2, <1>3, <2>1
<1>8. KeysFit(a, Lower(I, key))
  BY <1>5, <1>7 DEF KeysFit, Lower
<1>9. KeysFit(b, Upper(I, key))
  BY <1>6, <1>7 DEF KeysFit, Upper
<1> QED BY <1>4, <1>8, <1>9

\* Where the cut is made.
LEMMA CutPlace ==
  ASSUME NEW small, NEW ht, NEW iv, Tree(small, ht, iv),
         NEW big, NEW p, NEW i, NEW l, NEW r, Halves(big, small, p, i, l, r),
         Proper(big, p, i, l, r)
  PROVE  /\ InternalFits(small, ht, iv, p)
         /\ i \in 1 .. Len(small[p].kids) /\ small[p].kids[i] = l
         /\ ht[l] = ht[p] - 1 /\ iv[l] = Slice(iv[p], small[p].keys, i)
         /\ big[p].keys[i] \in Int /\ big[p].keys[i] \in iv[l]
         /\ Lower(iv[l], big[p].keys[i]) # {}
<1> DEFINE key == big[p].keys[i]
<1>1. /\ p \in DOMAIN small /\ l \in DOMAIN small
      /\ IsInternal(big[p], DOMAIN big) /\ IsInternal(small[p], DOMAIN big)
      /\ Without1(big[p].keys, small[p].keys, i)
      /\ Without1(big[p].kids, small[p].kids, i + 1)
      /\ big[p].kids[i] = l
  BY DEF Halves, Halved, HalvedAbove
<1>2. InternalFits(small, ht, iv, p)
  <2>1. ~small[p].leaf
    BY <1>1 DEF IsInternal, Internal
  <2> QED BY <1>1, <2>1, Kind
<1>3. Parent(small, ht, iv, p) /\ Children(small, ht, iv, p)
  BY <1>1, <1>2, Family
<1>4. i \in 1 .. Len(small[p].kids) /\ i \in 1 .. (i + 1) - 1
  <2>1. /\ i \in 1 .. Len(big[p].keys) /\ Len(small[p].keys) \in Nat
        /\ Len(big[p].keys) = Len(small[p].keys) + 1
    BY <1>1 DEF Without1
  <2>2. Len(small[p].kids) = Len(small[p].keys) + 1
    BY <1>3 DEF Parent
  <2> QED BY <2>1, <2>2
<1>5. small[p].kids[i] = l
  BY <1>1, <1>4 DEF Without1
<1>6. ht[l] = ht[p] - 1 /\ iv[l] = Slice(iv[p], small[p].keys, i)
  BY <1>3, <1>4, <1>5 DEF Children
<1>7. iv[l] \in SUBSET Int
  BY <1>1, Kind
<1>8. key \in iv[l] /\ Lower(iv[l], key) # {}
  <2>1. CASE HalvedLeaf(big[l], big[r], small[l])
    <3>1. /\ IsLeaf(big[l]) /\ IsLeaf(small[l])
          /\ Joined(big[l].data, big[r].data, small[l].data)
      BY <2>1 DEF HalvedLeaf
    <3>2. big[l].leaf = TRUE /\ small[l].leaf = TRUE
      BY <3>1 DEF IsLeaf, Leaf
    <3>3. /\ Len(big[l].data) >= 1 /\ Len(big[r].data) >= 1
          /\ key = big[r].data[1][1]
      BY <3>2 DEF Proper
    <3>4. DataFits(small[l].data, iv[l])
      BY <1>1, <3>2, Kind DEF LeafFits
    <3>5. /\ big[r].data[1][1] \in iv[l]
          /\ big[l].data[1][1] \in Lower(iv[l], big[r].data[1][1])
      BY <1>7, <3>1, <3>3, <3>4, CutData
    <3> QED BY <3>3, <3>5
  <2>2. CASE HalvedInternal(big[l], key, big[r], small[l], DOMAIN big)
    <3>1. /\ IsInternal(big[l], DOMAIN big) /\ IsInternal(small[l], DOMAIN big)
          /\ JoinedBy(big[l].keys, key, big[r].keys, small[l].keys)
      BY <2>2 DEF HalvedInternal
    <3>2. big[l].leaf = FALSE /\ ~small[l].leaf
      BY <3>1 DEF IsInternal, Internal
    <3>3. Len(big[l].keys) >= 1
      BY <3>2 DEF Proper
    <3>4. InternalFits(small, ht, iv, l)
      BY <1>1, <3>2, Kind
    <3>5. Parent(small, ht, iv, l)
      BY <1>1, <3>4, Family
    <3>6. Ascending(small[l].keys) /\ \A j \in 1 .. Len(small[l].keys) : small[l].keys[j] \in iv[l]
      BY <3>5 DEF Parent, Ascending
    <3>7. key \in iv[l] /\ KeysFit(big[l].keys, Lower(iv[l], key))
      BY <1>7, <3>1, <3>6, CutKeys
    <3>8. 1 \in 1 .. Len(big[l].keys)
      <4>1. Len(big[l].keys) \in Nat
        BY <3>1 DEF JoinedBy
      <4> QED BY <3>3, <4>1
    <3>9. big[l].keys[1] \in Lower(iv[l], key)
      BY <3>7, <3>8 DEF KeysFit
    <3> QED BY <3>7, <3>9
  <2> QED BY <2>1, <2>2 DEF Halves
<1> QED BY <1>2, <1>4, <1>5, <1>6, <1>7, <1>8

\* The separators of the parent, with the new one.
LEMMA CutSeparators ==
  ASSUME NEW small, NEW ht, NEW iv, Tree(small, ht, iv),
         NEW big, NEW p, NEW i, NEW l, NEW r, Halves(big, small, p, i, l, r),
         Proper(big, p, i, l, r)
  PROVE  Ascending(big[p].keys) /\ KeysFit(big[p].keys, iv[p])
<1> DEFINE t == big[p].keys
           s == small[p].keys
           key == t[i]
<1>1. p \in DOMAIN small /\ Without1(t, s, i)
  BY DEF Halves, Halved, HalvedAbove
<1>2. /\ InternalFits(small, ht, iv, p)
      /\ iv[l] = Slice(iv[p], s, i)
      /\ key \in Int /\ key \in iv[l]
      /\ Lower(iv[l], key) # {}
  BY CutPlace
<1>3. Parent(small, ht, iv, p)
  BY <1>1, <1>2, Family
<1>4. Ascending(s) /\ iv[p] \in SUBSET Int /\ \A j \in 1 .. Len(s) : s[j] \in iv[p]
  BY <1>3 DEF Parent, Ascending
<1>5. PICK x : x \in Lower(iv[l], key)
  BY <1>2
<1>6. x \in iv[l] /\ x < key /\ x \in Int
  BY <1>2, <1>4, <1>5 DEF Lower, Slice
<1>7. i \in 1 .. Len(t) /\ Len(s) \in Nat /\ Len(t) = Len(s) + 1
  BY <1>1 DEF Without1
<1>8. i > 1 => s[i - 1] < key
  <2>1. i > 1 => i - 1 \in 1 .. Len(s)
    BY <1>7
  <2>2. i > 1 => s[i - 1] \in Int
    BY <1>4, <2>1 DEF Ascending
  <2>3. i > 1 => s[i - 1] <= x
    BY <1>2, <1>6 DEF Slice
  <2> QED BY <1>2, <1>6, <2>2, <2>3
<1>9. i <= Len(s) => key < s[i]
  BY <1>2 DEF Slice
<1>10. Ascending(t)
  BY <1>1, <1>2, <1>4, <1>8, <1>9, Without1Inserted
<1>11. \A j \in 1 .. Len(t) : t[j] \in iv[p]
  <2> SUFFICES ASSUME NEW j \in 1 .. Len(t) PROVE t[j] \in iv[p]
    OBVIOUS
  <2>1. CASE j < i
    <3>1. j \in 1 .. i - 1 /\ j \in 1 .. Len(s)
      BY <1>7, <2>1
    <3>2. s[j] = t[j]
      BY <1>1, <3>1 DEF Without1
    <3> QED BY <1>4, <3>1, <3>2
  <2>2. CASE j = i
    BY <1>2, <2>2 DEF Slice
  <2>3. CASE j > i
    <3>1. j - 1 \in i .. Len(s) /\ (j - 1) + 1 = j /\ j - 1 \in 1 .. Len(s)
      BY <1>7, <2>3
    <3>2. s[j - 1] = t[(j - 1) + 1]
      BY <1>1, <3>1 DEF Without1
    <3> QED BY <1>4, <3>1, <3>2
  <2> QED BY <1>7, <2>1, <2>2, <2>3
<1>12. KeysFit(t, iv[p])
  BY <1>10, <1>11 DEF KeysFit, Ascending
<1> QED BY <1>10, <1>12

\* What the nodes are responsible for after the cut.
CutFacts(big, small, ht, iv, p, l, r, key) ==
  /\ p \in DOMAIN small /\ l \in DOMAIN small /\ r \notin DOMAIN small
  /\ p # l /\ p # r /\ l # r
  /\ DOMAIN big = DOMAIN small \cup {r}
  /\ \A q \in DOMAIN small : q # p /\ q # l => big[q] = small[q]
  /\ \A q \in DOMAIN small : CutHeight(ht, l, r)[q] = ht[q]
  /\ CutHeight(ht, l, r)[r] = ht[l]
  /\ \A q \in DOMAIN small : q # l => CutRange(iv, l, r, key)[q] = iv[q]
  /\ CutRange(iv, l, r, key)[l] = Lower(iv[l], key)
  /\ CutRange(iv, l, r, key)[r] = Upper(iv[l], key)
  /\ ht \in [DOMAIN small -> Nat] /\ iv \in [DOMAIN small -> SUBSET Int]

LEMMA CutMaps ==
  ASSUME NEW small, NEW ht, NEW iv, Tree(small, ht, iv),
         NEW big, NEW p, NEW i, NEW l, NEW r, Halves(big, small, p, i, l, r), NEW key
  PROVE  CutFacts(big, small, ht, iv, p, l, r, key)
<1>1. /\ p \in DOMAIN small /\ l \in DOMAIN small /\ r \notin DOMAIN small
      /\ p # l /\ p # r /\ l # r
      /\ DOMAIN big = DOMAIN small \cup {r}
      /\ \A q \in DOMAIN small : q # p /\ q # l => big[q] = small[q]
  BY DEF Halves, Halved
<1>2. /\ ht \in [DOMAIN small -> Nat] /\ iv \in [DOMAIN small -> SUBSET Int]
  BY DEF Tree, Ranges
<1>3. /\ \A q \in DOMAIN small : CutHeight(ht, l, r)[q] = ht[q]
      /\ CutHeight(ht, l, r)[r] = ht[l]
  BY <1>1, <1>2 DEF CutHeight
<1>4. /\ \A q \in DOMAIN small : q # l => CutRange(iv, l, r, key)[q] = iv[q]
      /\ CutRange(iv, l, r, key)[l] = Lower(iv[l], key)
      /\ CutRange(iv, l, r, key)[r] = Upper(iv[l], key)
  BY <1>1, <1>2 DEF CutRange
<1> QED BY <1>1, <1>2, <1>3, <1>4 DEF CutFacts

LEMMA CutRanges ==
  ASSUME NEW small, NEW ht, NEW iv, Tree(small, ht, iv),
         NEW big, NEW p, NEW i, NEW l, NEW r, Halves(big, small, p, i, l, r),
         Proper(big, p, i, l, r)
  PROVE  /\ Ranges(big, CutHeight(ht, l, r), CutRange(iv, l, r, big[p].keys[i]))
         /\ Apart(CutHeight(ht, l, r), CutRange(iv, l, r, big[p].keys[i]))
<1> DEFINE key == big[p].keys[i]
           ht2 == CutHeight(ht, l, r)
           iv2 == CutRange(iv, l, r, key)
<1>1. /\ l \in DOMAIN small /\ r \notin DOMAIN small
      /\ l # r
      /\ DOMAIN big = DOMAIN small \cup {r}
      /\ \A q \in DOMAIN small : ht2[q] = ht[q]
      /\ ht2[r] = ht[l]
      /\ \A q \in DOMAIN small : q # l => iv2[q] = iv[q]
      /\ iv2[l] = Lower(iv[l], key)
      /\ iv2[r] = Upper(iv[l], key)
      /\ ht \in [DOMAIN small -> Nat] /\ iv \in [DOMAIN small -> SUBSET Int]
  <2>1. CutFacts(big, small, ht, iv, p, l, r, key)
    BY CutMaps
  <2> QED BY <2>1 DEF CutFacts
<1>2. key \in Int /\ key \in iv[l] /\ Lower(iv[l], key) # {}
  BY CutPlace
<1>3. iv[l] \in SUBSET Int
  BY <1>1
<1>4. Lower(iv[l], key) \subseteq iv[l] /\ Upper(iv[l], key) \subseteq iv[l]
  BY DEF Lower, Upper
<1>5. Lower(iv[l], key) \cap Upper(iv[l], key) = {}
  BY <1>2, <1>3 DEF Lower, Upper
<1>6. key \in Upper(iv[l], key)
  BY <1>2 DEF Upper
<1>7. Convex(Lower(iv[l], key)) /\ Convex(Upper(iv[l], key))
  BY <1>1, <1>2, <1>3, Kind, ConvexParts
<1>8. ht2 \in [DOMAIN big -> Nat]
  BY <1>1 DEF CutHeight
<1>9. iv2 \in [DOMAIN big -> SUBSET Int]
  BY <1>1, <1>3, <1>4 DEF CutRange
<1> HIDE DEF ht2, iv2, key
<1>10. \A q \in DOMAIN big : iv2[q] # {} /\ Convex(iv2[q])
  <2>1. \A q \in DOMAIN small : q # l => iv[q] # {} /\ Convex(iv[q])
    BY Kind
  <2> QED BY <1>1, <1>2, <1>6, <1>7, <2>1
<1>11. Ranges(big, ht2, iv2)
  BY <1>8, <1>9, <1>10 DEF Ranges
<1>12. ASSUME NEW a \in DOMAIN big, NEW b \in DOMAIN big, ht2[a] = ht2[b], a # b
       PROVE  iv2[a] \cap iv2[b] = {}
  <2> DEFINE Old(q) == IF q = r THEN l ELSE q
  <2>1. \A q \in DOMAIN big : Old(q) \in DOMAIN small /\ ht2[q] = ht[Old(q)] /\ iv2[q] \subseteq iv[Old(q)]
    BY <1>1, <1>4
  <2>2. \A c, d \in DOMAIN small : ht[c] = ht[d] /\ c # d => iv[c] \cap iv[d] = {}
    BY <1>1 DEF Tree, Apart
  <2>3. CASE Old(a) # Old(b)
    <3> HIDE DEF Old
    <3>1. iv[Old(a)] \cap iv[Old(b)] = {}
      BY <1>12, <2>1, <2>2, <2>3
    <3> QED BY <2>1, <3>1
  <2>4. CASE Old(a) = Old(b)
    <3>1. (a = l /\ b = r) \/ (a = r /\ b = l)
      BY <1>1, <1>12, <2>4
    <3> QED BY <1>1, <1>5, <3>1
  <2> QED BY <2>3, <2>4
<1>13. DOMAIN ht2 = DOMAIN big
  BY <1>8
<1>14. Apart(ht2, iv2)
  BY <1>12, <1>13 DEF Apart
<1> QED BY <1>11, <1>14 DEF ht2, iv2, key

\* The parent of the halves.
LEMMA CutAbove ==
  ASSUME NEW small, NEW ht, NEW iv, Tree(small, ht, iv),
         NEW big, NEW p, NEW i, NEW l, NEW r, Halves(big, small, p, i, l, r),
         Proper(big, p, i, l, r)
  PROVE  InternalFits(big, CutHeight(ht, l, r), CutRange(iv, l, r, big[p].keys[i]), p)
<1> DEFINE t == big[p].keys
           s == small[p].keys
           bc == big[p].kids
           sc == small[p].kids
           key == big[p].keys[i]
           ht2 == CutHeight(ht, l, r)
           iv2 == CutRange(iv, l, r, key)
<1>1. /\ l \in DOMAIN small /\ r \notin DOMAIN small /\ p \in DOMAIN small
      /\ p # l /\ p # r /\ l # r
      /\ DOMAIN big = DOMAIN small \cup {r}
      /\ \A q \in DOMAIN small : ht2[q] = ht[q]
      /\ ht2[r] = ht[l]
      /\ \A q \in DOMAIN small : q # l => iv2[q] = iv[q]
      /\ iv2[l] = Lower(iv[l], key)
      /\ iv2[r] = Upper(iv[l], key)
      /\ ht \in [DOMAIN small -> Nat] /\ iv \in [DOMAIN small -> SUBSET Int]
  <2>1. CutFacts(big, small, ht, iv, p, l, r, key)
    BY CutMaps
  <2> QED BY <2>1 DEF CutFacts
<1>2. /\ IsInternal(big[p], DOMAIN big) /\ Without1(t, s, i) /\ Without1(bc, sc, i + 1)
      /\ bc[i] = l /\ bc[i + 1] = r
  BY DEF Halves, HalvedAbove
<1>3. /\ InternalFits(small, ht, iv, p) /\ i \in 1 .. Len(sc) /\ sc[i] = l
      /\ ht[l] = ht[p] - 1 /\ iv[l] = Slice(iv[p], s, i)
  BY CutPlace
<1>4. Parent(small, ht, iv, p) /\ Children(small, ht, iv, p)
  BY <1>1, <1>3, Family
<1>5. Ascending(t) /\ KeysFit(t, iv[p])
  BY CutSeparators
<1>6. iv[p] \in SUBSET Int
  BY <1>1
<1>7. /\ Slice(iv[p], t, i) = Lower(iv[l], key)
      /\ Slice(iv[p], t, i + 1) = Upper(iv[l], key)
  BY <1>2, <1>3, <1>5, <1>6, SlicesAbove
<1>8. \A j \in 1 .. i - 1 : Slice(iv[p], s, j) = Slice(iv[p], t, j)
  BY <1>2, <1>5, <1>6, SlicesAside
<1>9. \A j \in i + 1 .. Len(t) : Slice(iv[p], s, j) = Slice(iv[p], t, j + 1)
  BY <1>2, <1>5, <1>6, SlicesAside
<1>10. /\ i \in 1 .. Len(t) /\ Len(s) \in Nat /\ Len(t) = Len(s) + 1 /\ Len(sc) \in Nat
       /\ Len(bc) = Len(t) + 1 /\ Len(sc) = Len(s) + 1 /\ i \in Nat
  <2>1. Len(bc) = Len(t) + 1 /\ Len(sc) = Len(s) + 1
    BY <1>2, <1>4 DEF IsInternal, Parent
  <2> QED BY <1>2, <2>1 DEF Without1
<1>11. \A j \in 1 .. Len(sc) : j # i => sc[j] # l
  BY <1>1, <1>3, OneParent
<1>12. \A j \in 1 .. Len(sc) : sc[j] \in DOMAIN small
  BY <1>4 DEF Children
<1> HIDE DEF ht2, iv2, key
<1>13. ASSUME NEW j \in 1 .. Len(sc), j # i
       PROVE  ht2[sc[j]] = ht[p] - 1 /\ iv2[sc[j]] = Slice(iv[p], s, j)
  <2>1. ht[sc[j]] = ht[p] - 1 /\ iv[sc[j]] = Slice(iv[p], s, j)
    BY <1>4 DEF Children
  <2> QED BY <1>1, <1>11, <1>12, <1>13, <2>1
<1>14. ASSUME NEW j \in 1 .. Len(bc)
       PROVE  ht2[bc[j]] = ht[p] - 1 /\ iv2[bc[j]] = Slice(iv[p], t, j)
  <2>1. CASE j < i
    <3>1. j \in 1 .. i - 1 /\ j \in 1 .. (i + 1) - 1 /\ j \in 1 .. Len(sc) /\ j # i
      BY <1>10, <2>1
    <3>2. bc[j] = sc[j]
      BY <1>2, <3>1 DEF Without1
    <3> QED BY <1>8, <1>13, <3>1, <3>2
  <2>2. CASE j = i
    BY <1>1, <1>2, <1>3, <1>7, <2>2
  <2>3. CASE j = i + 1
    BY <1>1, <1>2, <1>3, <1>7, <2>3
  <2>4. CASE j > i + 1
    <3>1. /\ j - 1 \in i + 1 .. Len(sc) /\ j - 1 \in i + 1 .. Len(t) /\ (j - 1) + 1 = j
          /\ j - 1 \in 1 .. Len(sc) /\ j - 1 # i
      BY <1>10, <2>4
    <3>2. bc[j] = sc[j - 1]
      BY <1>2, <3>1 DEF Without1
    <3>3. Slice(iv[p], s, j - 1) = Slice(iv[p], t, j)
      BY <1>9, <3>1
    <3> QED BY <1>13, <3>1, <3>2, <3>3
  <2> QED BY <1>10, <2>1, <2>2, <2>3, <2>4
<1>15. ht2[p] = ht[p] /\ iv2[p] = iv[p] /\ ht[p] > 0
  BY <1>1, <1>4 DEF Parent
<1> QED BY <1>2, <1>5, <1>14, <1>15 DEF InternalFits, ht2, iv2, key

\* Nodes that are neither the parent nor a half.
LEMMA CutAside ==
  ASSUME NEW small, NEW ht, NEW iv, Tree(small, ht, iv),
         NEW big, NEW p, NEW i, NEW l, NEW r, Halves(big, small, p, i, l, r),
         Proper(big, p, i, l, r),
         NEW q \in DOMAIN small, q # p, q # l
  PROVE  \/ LeafFits(big, CutHeight(ht, l, r), CutRange(iv, l, r, big[p].keys[i]), q)
         \/ InternalFits(big, CutHeight(ht, l, r), CutRange(iv, l, r, big[p].keys[i]), q)
<1> DEFINE key == big[p].keys[i]
           ht2 == CutHeight(ht, l, r)
           iv2 == CutRange(iv, l, r, key)
           kids == small[q].kids
<1>1. /\ l \in DOMAIN small /\ p \in DOMAIN small
      /\ DOMAIN big = DOMAIN small \cup {r}
      /\ big[q] = small[q]
      /\ \A a \in DOMAIN small : ht2[a] = ht[a]
      /\ \A a \in DOMAIN small : a # l => iv2[a] = iv[a]
  <2>1. CutFacts(big, small, ht, iv, p, l, r, key)
    BY CutMaps
  <2> QED BY <2>1 DEF CutFacts
<1>2. ht2[q] = ht[q] /\ iv2[q] = iv[q]
  BY <1>1
<1>3. InternalFits(small, ht, iv, p) /\ i \in 1 .. Len(small[p].kids) /\ small[p].kids[i] = l
  BY CutPlace
<1> HIDE DEF ht2, iv2
<1>5. CASE LeafFits(small, ht, iv, q)
  <2>1. LeafFits(big, ht2, iv2, q)
    BY <1>1, <1>2, <1>5 DEF LeafFits
  <2> QED BY <2>1 DEF ht2, iv2
<1>6. CASE InternalFits(small, ht, iv, q)
  <2>1. Parent(small, ht, iv, q) /\ Children(small, ht, iv, q)
    BY <1>6, Family
  <2>2. \A j \in 1 .. Len(kids) : kids[j] # l
    BY <1>1, <1>3, <1>6, OneParent
  <2>3. \A j \in 1 .. Len(kids) :
          /\ kids[j] \in DOMAIN small
          /\ ht2[kids[j]] = ht2[q] - 1
          /\ iv2[kids[j]] = Slice(iv2[q], small[q].keys, j)
    BY <1>1, <1>2, <2>1, <2>2 DEF Children
  <2>4. IsInternal(small[q], DOMAIN small) /\ KeysFit(small[q].keys, iv[q]) /\ ht[q] > 0
    BY <1>6 DEF InternalFits
  <2>5. kids \in Seq(DOMAIN big)
    <3>1. kids \in Seq(DOMAIN small)
      BY <2>4 DEF IsInternal
    <3>2. \A j \in 1 .. Len(kids) : kids[j] \in DOMAIN big
      BY <1>1, <2>3
    <3> QED BY <3>1, <3>2, Elements
  <2>6. IsInternal(small[q], DOMAIN big)
    BY <2>4, <2>5 DEF IsInternal
  <2>7. InternalFits(big, ht2, iv2, q)
    BY <1>1, <1>2, <2>3, <2>4, <2>6 DEF InternalFits
  <2> QED BY <2>7 DEF ht2, iv2
<1> QED BY <1>5, <1>6 DEF Tree

LEMMA CutLeaves ==
  ASSUME NEW small, NEW ht, NEW iv, Tree(small, ht, iv),
         NEW big, NEW p, NEW i, NEW l, NEW r, Halves(big, small, p, i, l, r),
         Proper(big, p, i, l, r),
         HalvedLeaf(big[l], big[r], small[l])
  PROVE  /\ LeafFits(big, CutHeight(ht, l, r), CutRange(iv, l, r, big[p].keys[i]), l)
         /\ LeafFits(big, CutHeight(ht, l, r), CutRange(iv, l, r, big[p].keys[i]), r)
<1> DEFINE key == big[p].keys[i]
           ht2 == CutHeight(ht, l, r)
           iv2 == CutRange(iv, l, r, key)
           a == big[l].data
           b == big[r].data
           c == small[l].data
<1>1. /\ l \in DOMAIN small
      /\ \A q \in DOMAIN small : ht2[q] = ht[q]
      /\ ht2[r] = ht[l]
      /\ iv2[l] = Lower(iv[l], key)
      /\ iv2[r] = Upper(iv[l], key)
      /\ iv \in [DOMAIN small -> SUBSET Int]
  <2>1. CutFacts(big, small, ht, iv, p, l, r, key)
    BY CutMaps
  <2> QED BY <2>1 DEF CutFacts
<1>2. IsLeaf(big[l]) /\ IsLeaf(big[r]) /\ IsLeaf(small[l]) /\ Joined(a, b, c)
  BY DEF HalvedLeaf
<1>3. big[l].leaf = TRUE /\ small[l].leaf = TRUE
  BY <1>2 DEF IsLeaf, Leaf
<1>4. LeafFits(small, ht, iv, l)
  BY <1>1, <1>3, Kind
<1>5. DataFits(c, iv[l]) /\ ht[l] = 0
  BY <1>4 DEF LeafFits
<1>6. Len(a) >= 1 /\ Len(b) >= 1 /\ key = b[1][1]
  BY <1>3 DEF Proper
<1>7. iv[l] \in SUBSET Int
  BY <1>1
<1>8. DataFits(a, Lower(iv[l], b[1][1])) /\ DataFits(b, Upper(iv[l], b[1][1]))
  BY <1>2, <1>5, <1>6, <1>7, CutData
<1>9. ht2[l] = 0 /\ ht2[r] = 0
  BY <1>1, <1>5
<1> HIDE DEF ht2, iv2
<1>10. DataFits(a, iv2[l]) /\ DataFits(b, iv2[r])
  BY <1>1, <1>6, <1>8
<1>11. LeafFits(big, ht2, iv2, l) /\ LeafFits(big, ht2, iv2, r)
  BY <1>2, <1>9, <1>10 DEF LeafFits
<1> QED BY <1>11 DEF ht2, iv2

LEMMA CutInternals ==
  ASSUME NEW small, NEW ht, NEW iv, Tree(small, ht, iv),
         NEW big, NEW p, NEW i, NEW l, NEW r, Halves(big, small, p, i, l, r),
         Proper(big, p, i, l, r),
         HalvedInternal(big[l], big[p].keys[i], big[r], small[l], DOMAIN big)
  PROVE  /\ InternalFits(big, CutHeight(ht, l, r), CutRange(iv, l, r, big[p].keys[i]), l)
         /\ InternalFits(big, CutHeight(ht, l, r), CutRange(iv, l, r, big[p].keys[i]), r)
<1> DEFINE key == big[p].keys[i]
           ht2 == CutHeight(ht, l, r)
           iv2 == CutRange(iv, l, r, key)
           a == big[l]
           b == big[r]
           c == small[l]
           I == iv[l]
<1>1. /\ l \in DOMAIN small
      /\ \A q \in DOMAIN small : ht2[q] = ht[q]
      /\ ht2[r] = ht[l]
      /\ \A q \in DOMAIN small : q # l => iv2[q] = iv[q]
      /\ iv2[l] = Lower(I, key)
      /\ iv2[r] = Upper(I, key)
      /\ ht \in [DOMAIN small -> Nat] /\ iv \in [DOMAIN small -> SUBSET Int]
  <2>1. CutFacts(big, small, ht, iv, p, l, r, key)
    BY CutMaps
  <2> QED BY <2>1 DEF CutFacts
<1>2. /\ IsInternal(a, DOMAIN big) /\ IsInternal(b, DOMAIN big) /\ IsInternal(c, DOMAIN big)
      /\ JoinedBy(a.keys, key, b.keys, c.keys)
      /\ Joined(a.kids, b.kids, c.kids)
  BY DEF HalvedInternal
<1>3. InternalFits(small, ht, iv, l)
  <2>1. c.leaf = FALSE
    BY <1>2 DEF IsInternal, Internal
  <2> QED BY <1>1, <2>1, Kind
<1>4. Parent(small, ht, iv, l) /\ Children(small, ht, iv, l)
  BY <1>1, <1>3, Family
<1>5. Ascending(c.keys) /\ I \in SUBSET Int /\ \A j \in 1 .. Len(c.keys) : c.keys[j] \in I
  BY <1>4 DEF Parent, Ascending
<1>6. KeysFit(a.keys, Lower(I, key)) /\ KeysFit(b.keys, Upper(I, key))
  BY <1>2, <1>5, CutKeys
<1>7. /\ Len(a.keys) \in Nat /\ Len(b.keys) \in Nat
      /\ Len(a.kids) = Len(a.keys) + 1 /\ Len(b.kids) = Len(b.keys) + 1
      /\ Len(c.keys) = Len(a.keys) + 1 + Len(b.keys)
      /\ Len(c.kids) = Len(a.kids) + Len(b.kids)
  BY <1>2 DEF IsInternal, JoinedBy, Joined
<1>n. PICK m \in Nat, n \in Nat :
        /\ Len(a.keys) = m /\ Len(a.kids) = m + 1
        /\ Len(b.keys) = n /\ Len(b.kids) = n + 1
        /\ Len(c.kids) = (m + 1) + (n + 1)
  BY <1>7
<1> HIDE DEF ht2, iv2, key
<1>8. ASSUME NEW j \in 1 .. Len(c.kids)
      PROVE  ht2[c.kids[j]] = ht[l] - 1 /\ iv2[c.kids[j]] = Slice(I, c.keys, j)
  <2>1. /\ c.kids[j] \in DOMAIN small /\ c.kids[j] # l
        /\ ht[c.kids[j]] = ht[l] - 1 /\ iv[c.kids[j]] = Slice(I, c.keys, j)
    BY <1>4 DEF Children
  <2> QED BY <1>1, <2>1
<1>9. ASSUME NEW j \in 1 .. Len(a.kids)
      PROVE  ht2[a.kids[j]] = ht[l] - 1 /\ iv2[a.kids[j]] = Slice(Lower(I, key), a.keys, j)
  <2>1. j \in 1 .. Len(c.kids) /\ j \in 1 .. Len(a.keys) + 1
    <3>1. j \in 1 .. m + 1
      BY <1>n
    <3>2. j \in 1 .. (m + 1) + (n + 1)
      BY <3>1
    <3> QED BY <1>n, <3>1, <3>2
  <2>2. c.kids[j] = a.kids[j]
    BY <1>2 DEF Joined
  <2>3. Slice(Lower(I, key), a.keys, j) = Slice(I, c.keys, j)
    BY <1>2, <1>5, <2>1, SlicesLower
  <2> QED BY <1>8, <2>1, <2>2, <2>3
<1>10. ASSUME NEW j \in 1 .. Len(b.kids)
       PROVE  ht2[b.kids[j]] = ht[l] - 1 /\ iv2[b.kids[j]] = Slice(Upper(I, key), b.keys, j)
  <2>1. /\ Len(a.kids) + j \in 1 .. Len(c.kids) /\ j \in 1 .. Len(b.keys) + 1
        /\ Len(a.kids) + j = Len(a.keys) + 1 + j
    <3>1. j \in 1 .. n + 1
      BY <1>n
    <3>2. (m + 1) + j \in 1 .. (m + 1) + (n + 1)
      BY <3>1
    <3> QED BY <1>n, <3>1, <3>2
  <2>2. c.kids[Len(a.kids) + j] = b.kids[j]
    BY <1>2 DEF Joined
  <2>3. j \in 1 .. Len(b.keys) + 1
    BY <2>1
  <2>4. Slice(Upper(I, key), b.keys, j) = Slice(I, c.keys, Len(a.keys) + 1 + j)
    BY <1>2, <1>5, <2>3, SlicesUpper, SMTT(40)
  <2> QED BY <1>8, <2>1, <2>2, <2>4
<1>11. ht2[l] = ht[l] /\ ht2[r] = ht[l] /\ ht[l] > 0
  BY <1>1, <1>4 DEF Parent
<1>12. InternalFits(big, ht2, iv2, l)
  BY <1>1, <1>2, <1>6, <1>9, <1>11 DEF InternalFits
<1>13. InternalFits(big, ht2, iv2, r)
  BY <1>1, <1>2, <1>6, <1>10, <1>11 DEF InternalFits
<1> QED BY <1>12, <1>13 DEF ht2, iv2, key

\* A tree with a node cut in two halves is a tree.
LEMMA CutKeepsTree ==
  ASSUME NEW small, NEW ht, NEW iv, Tree(small, ht, iv),
         NEW big, NEW p, NEW i, NEW l, NEW r, Halves(big, small, p, i, l, r),
         Proper(big, p, i, l, r)
  PROVE  Tree(big, CutHeight(ht, l, r), CutRange(iv, l, r, big[p].keys[i]))
<1> DEFINE ht2 == CutHeight(ht, l, r)
           iv2 == CutRange(iv, l, r, big[p].keys[i])
<1>1. DOMAIN big = DOMAIN small \cup {r} /\ IsHeap(big)
  BY DEF Halves, Halved
<1>2. Ranges(big, ht2, iv2) /\ Apart(ht2, iv2)
  BY CutRanges
<1>3. InternalFits(big, ht2, iv2, p)
  BY CutAbove
<1>4. /\ LeafFits(big, ht2, iv2, l) \/ InternalFits(big, ht2, iv2, l)
      /\ LeafFits(big, ht2, iv2, r) \/ InternalFits(big, ht2, iv2, r)
  <2>1. CASE HalvedLeaf(big[l], big[r], small[l])
    BY <2>1, CutLeaves
  <2>2. CASE HalvedInternal(big[l], big[p].keys[i], big[r], small[l], DOMAIN big)
    BY <2>2, CutInternals
  <2> QED BY <2>1, <2>2 DEF Halves
<1>5. \A q \in DOMAIN small : q # p /\ q # l =>
        LeafFits(big, ht2, iv2, q) \/ InternalFits(big, ht2, iv2, q)
  BY CutAside
<1> HIDE DEF ht2, iv2
<1>6. Tree(big, ht2, iv2)
  BY <1>1, <1>2, <1>3, <1>4, <1>5 DEF Tree
<1> QED BY <1>6 DEF ht2, iv2

-----------------------------------------------------------------------------
(* The links between leaves *)

LEMMA AdjacentParts ==
  ASSUME NEW I \in SUBSET Int, NEW J \in SUBSET Int, NEW K \in SUBSET Int,
         I # {}, J # {}, K # {}, Adjacent(I, J)
  PROVE  /\ Adjacent(J, K) => Adjacent(I \cup J, K)
         /\ Adjacent(K, I) => Adjacent(K, I \cup J)
         /\ Top(J) => Top(I \cup J)
         /\ Adjacent(K, J) => I \cap K # {}
         /\ Adjacent(I, K) => J \cap K # {}
         /\ ~Top(I) /\ ~Adjacent(J, I)
<1>1. PICK a \in I, b \in J, c \in K : a \in Int /\ b \in Int /\ c \in Int
  OBVIOUS
<1>2. ASSUME Adjacent(J, K) PROVE Adjacent(I \cup J, K)
  <2> SUFFICES ASSUME NEW x \in I \cup J, NEW z \in K, NEW y \in Int
               PROVE  x < z /\ (x < y /\ y < z => y \in I \cup J \/ y \in K)
    BY DEF Adjacent
  <2>1. CASE x \in J
    BY <1>2, <2>1 DEF Adjacent
  <2>2. CASE x \in I
    <3>1. x < b /\ b < z /\ x \in Int /\ z \in Int
      BY <1>1, <1>2, <2>2 DEF Adjacent
    <3>2. x < y /\ y < b => y \in I \/ y \in J
      BY <1>1, <2>2 DEF Adjacent
    <3>3. b < y /\ y < z => y \in J \/ y \in K
      BY <1>1, <1>2 DEF Adjacent
    <3>4. y < b \/ y = b \/ b < y
      BY <1>1
    <3> QED BY <1>1, <3>1, <3>2, <3>3, <3>4
  <2> QED BY <2>1, <2>2
<1>3. ASSUME Adjacent(K, I) PROVE Adjacent(K, I \cup J)
  <2> SUFFICES ASSUME NEW x \in K, NEW z \in I \cup J, NEW y \in Int
               PROVE  x < z /\ (x < y /\ y < z => y \in K \/ y \in I \cup J)
    BY DEF Adjacent
  <2>1. CASE z \in I
    BY <1>3, <2>1 DEF Adjacent
  <2>2. CASE z \in J
    <3>1. x < a /\ a < z /\ x \in Int /\ z \in Int
      BY <1>1, <1>3, <2>2 DEF Adjacent
    <3>2. x < y /\ y < a => y \in K \/ y \in I
      BY <1>1, <1>3 DEF Adjacent
    <3>3. a < y /\ y < z => y \in I \/ y \in J
      BY <1>1, <2>2 DEF Adjacent
    <3>4. y < a \/ y = a \/ a < y
      BY <1>1
    <3> QED BY <1>1, <3>1, <3>2, <3>3, <3>4
  <2> QED BY <2>1, <2>2
<1>4. ASSUME Top(J) PROVE Top(I \cup J)
  <2> SUFFICES ASSUME NEW x \in I \cup J, NEW y \in Int, x < y PROVE y \in I \cup J
    BY DEF Top
  <2>1. CASE x \in J
    BY <1>4, <2>1 DEF Top
  <2>2. CASE x \in I
    <3>1. y < b => y \in I \/ y \in J
      BY <1>1, <2>2 DEF Adjacent
    <3>2. b < y => y \in J
      BY <1>1, <1>4 DEF Top
    <3>3. y < b \/ y = b \/ b < y
      BY <1>1
    <3> QED BY <1>1, <3>1, <3>2, <3>3
  <2> QED BY <2>1, <2>2
<1>5. ASSUME Adjacent(K, J) PROVE I \cap K # {}
  <2>1. a < b /\ c < b
    BY <1>1, <1>5 DEF Adjacent
  <2>2. a < c => c \in I \/ c \in J
    BY <1>1, <2>1 DEF Adjacent
  <2>3. c < a => a \in K \/ a \in J
    BY <1>1, <1>5, <2>1 DEF Adjacent
  <2>4. ~(a \in J) /\ ~(c \in J)
    BY <1>1, <1>5 DEF Adjacent
  <2>5. a < c \/ a = c \/ c < a
    BY <1>1
  <2> QED BY <1>1, <2>2, <2>3, <2>4, <2>5
<1>6. ASSUME Adjacent(I, K) PROVE J \cap K # {}
  <2>1. a < b /\ a < c
    BY <1>1, <1>6 DEF Adjacent
  <2>2. b < c => b \in I \/ b \in K
    BY <1>1, <1>6, <2>1 DEF Adjacent
  <2>3. c < b => c \in I \/ c \in J
    BY <1>1, <2>1 DEF Adjacent
  <2>4. ~(b \in I) /\ ~(c \in I)
    BY <1>1, <1>6 DEF Adjacent
  <2>5. b < c \/ b = c \/ c < b
    BY <1>1
  <2> QED BY <1>1, <2>2, <2>3, <2>4, <2>5
<1>7. ~Adjacent(J, I)
  BY <1>1 DEF Adjacent
<1>8. ~Top(I)
  <2>1. a < b /\ ~(b < b)
    BY <1>1 DEF Adjacent
  <2> QED BY <1>1, <2>1 DEF Top, Adjacent
<1> QED BY <1>2, <1>3, <1>4, <1>5, <1>6, <1>7, <1>8

\* The parts on the sides of a key.
LEMMA AdjacentHalves ==
  ASSUME NEW I \in SUBSET Int, Convex(I), NEW key \in Int, NEW K \in SUBSET Int
  PROVE  /\ Adjacent(Lower(I, key), Upper(I, key))
         /\ Adjacent(I, K) => Adjacent(Upper(I, key), K)
         /\ Adjacent(K, I) => Adjacent(K, Lower(I, key))
         /\ Top(I) => Top(Upper(I, key))
<1>1. Adjacent(Lower(I, key), Upper(I, key))
  <2> SUFFICES ASSUME NEW x \in Lower(I, key), NEW z \in Upper(I, key), NEW y \in Int
               PROVE  /\ x < z
                      /\ x < y /\ y < z => y \in Lower(I, key) \/ y \in Upper(I, key)
    BY DEF Adjacent
  <2>1. x \in I /\ z \in I /\ x \in Int /\ z \in Int /\ x < key /\ key <= z
    BY DEF Lower, Upper
  <2>2. x < y /\ y < z => y \in I
    BY <2>1 DEF Convex
  <2>3. y < key \/ key <= y
    OBVIOUS
  <2> QED BY <2>1, <2>2, <2>3 DEF Lower, Upper
<1>2. ASSUME Adjacent(I, K) PROVE Adjacent(Upper(I, key), K)
  <2> SUFFICES ASSUME NEW x \in Upper(I, key), NEW z \in K, NEW y \in Int
               PROVE  x < z /\ (x < y /\ y < z => y \in Upper(I, key) \/ y \in K)
    BY DEF Adjacent
  <2>1. x \in I /\ x \in Int /\ key <= x
    BY DEF Upper
  <2>2. x < z /\ (x < y /\ y < z => y \in I \/ y \in K)
    BY <1>2, <2>1 DEF Adjacent
  <2>3. x < y => key <= y
    BY <2>1
  <2> QED BY <2>2, <2>3 DEF Upper
<1>3. ASSUME Adjacent(K, I) PROVE Adjacent(K, Lower(I, key))
  <2> SUFFICES ASSUME NEW x \in K, NEW z \in Lower(I, key), NEW y \in Int
               PROVE  x < z /\ (x < y /\ y < z => y \in K \/ y \in Lower(I, key))
    BY DEF Adjacent
  <2>1. z \in I /\ z \in Int /\ z < key
    BY DEF Lower
  <2>2. x < z /\ (x < y /\ y < z => y \in K \/ y \in I)
    BY <1>3, <2>1 DEF Adjacent
  <2>3. y < z => y < key
    BY <2>1
  <2> QED BY <2>2, <2>3 DEF Lower
<1>4. ASSUME Top(I) PROVE Top(Upper(I, key))
  <2> SUFFICES ASSUME NEW x \in Upper(I, key), NEW y \in Int, x < y PROVE y \in Upper(I, key)
    BY DEF Top
  <2>1. x \in I /\ x \in Int /\ key <= x
    BY DEF Upper
  <2>2. y \in I /\ key <= y
    BY <1>4, <2>1 DEF Top
  <2> QED BY <2>2 DEF Upper
<1> QED BY <1>1, <1>2, <1>3, <1>4

\* Two links to leaves of a tree: what is next to a leaf is no other leaf's next.
LEMMA OnlyNext ==
  ASSUME NEW h, NEW ht, NEW iv, Tree(h, ht, iv),
         NEW p \in DOMAIN h, NEW q \in DOMAIN h, NEW n \in DOMAIN h,
         ht[p] = ht[q], Adjacent(iv[p], iv[n]), Adjacent(iv[q], iv[n])
  PROVE  p = q
<1>1. /\ iv[p] \in SUBSET Int /\ iv[q] \in SUBSET Int /\ iv[n] \in SUBSET Int
      /\ iv[p] # {} /\ iv[q] # {} /\ iv[n] # {}
  BY Kind
<1>2. iv[p] \cap iv[q] # {}
  BY <1>1, AdjacentParts
<1>3. DOMAIN ht = DOMAIN h
  BY DEF Tree, Ranges
<1> QED BY <1>2, <1>3 DEF Tree, Apart

LEMMA NotBeforeItself ==
  ASSUME NEW I \in SUBSET Int, I # {}
  PROVE  ~Adjacent(I, I)
<1>1. PICK a \in I : a \in Int
  OBVIOUS
<1>2. ~(a < a)
  BY <1>1
<1> QED BY <1>2 DEF Adjacent

LEMMA HalvesAdjacent ==
  ASSUME NEW big, NEW ht, NEW iv, Tree(big, ht, iv),
         NEW small, NEW p, NEW i, NEW l, NEW r, Halves(big, small, p, i, l, r)
  PROVE  Adjacent(iv[l], iv[r])
<1> DEFINE key == big[p].keys[i]
           J == Slice(iv[p], small[p].keys, i)
<1>1. iv[l] = Lower(J, key) /\ iv[r] = Upper(J, key) /\ iv[l] \cup iv[r] = J /\ key \in Int
  BY HalvesRanges
<1>2. i \in 1 .. Len(small[p].keys) + 1 /\ Ascending(small[p].keys)
  <2>1. Ascending(big[p].keys) /\ Without1(big[p].keys, small[p].keys, i)
    BY HalvesRanges DEF Halves, HalvedAbove
  <2>2. i \in 1 .. Len(small[p].keys) + 1
    BY <2>1 DEF Without1
  <2> QED BY <2>1, <2>2, Without1Ascending
<1>3. iv[p] \in SUBSET Int /\ Convex(iv[p])
  <2>1. p \in DOMAIN big
    BY DEF Halves, Halved
  <2> QED BY <2>1, Kind
<1>4. Convex(J)
  BY <1>2, <1>3, ConvexSlice DEF Ascending
<1>5. J \in SUBSET Int
  BY <1>3 DEF Slice
<1> HIDE DEF J, key
<1> QED BY <1>1, <1>4, <1>5, AdjacentHalves

\* The left half leads to the right one.
LEMMA NextIsRight ==
  ASSUME NEW big, NEW ht, NEW iv, Tree(big, ht, iv), Chained(big, iv),
         NEW small, NEW p, NEW i, NEW l, NEW r, Halves(big, small, p, i, l, r),
         big[l].leaf = TRUE
  PROVE  big[l].next = r /\ big[l].copies = <<>>
<1>1. l \in DOMAIN big /\ r \in DOMAIN big
  BY DEF Halves, Halved
<1>2. /\ iv[l] \in SUBSET Int /\ iv[r] \in SUBSET Int /\ iv[l] # {} /\ iv[r] # {}
      /\ ht[l] = 0 /\ ht[r] = ht[l]
  BY <1>1, Kind, HalvesRanges
<1>3. Adjacent(iv[l], iv[r])
  BY HalvesAdjacent
<1>4. Follows(big, iv, l)
  BY <1>1 DEF Chained
<1>5. ~Top(iv[l])
  BY <1>2, <1>3, AdjacentParts
<1> DEFINE n == big[l].next
<1>6. n \in DOMAIN big /\ big[n].leaf = TRUE /\ Adjacent(iv[l], iv[n])
  BY <1>4, <1>5 DEF Follows
<1> HIDE DEF n
<1>7. iv[n] \in SUBSET Int /\ iv[n] # {} /\ ht[n] = 0
  BY <1>6, Kind
<1>8. iv[r] \cap iv[n] # {}
  BY <1>2, <1>3, <1>6, <1>7, AdjacentParts
<1>9. n = r
  <2>1. DOMAIN ht = DOMAIN big
    BY DEF Tree, Ranges
  <2> QED BY <1>1, <1>2, <1>6, <1>7, <1>8, <2>1 DEF Tree, Apart
<1> QED BY <1>4, <1>9 DEF Follows, n

\* The two halves, and nodes that are none.
LEMMA JoinChained ==
  ASSUME NEW big, NEW ht, NEW iv, Tree(big, ht, iv), Chained(big, iv),
         NEW small, NEW p, NEW i, NEW l, NEW r, Halves(big, small, p, i, l, r)
  PROVE  Chained(small, JoinedRange(iv, l, r))
<1> DEFINE iv2 == JoinedRange(iv, l, r)
           key == big[p].keys[i]
<1>1. /\ p \in DOMAIN big /\ l \in DOMAIN big /\ r \in DOMAIN big /\ l # r /\ p # l /\ p # r
      /\ DOMAIN small = DOMAIN big \ {r}
      /\ \A q \in DOMAIN big : q # p /\ q # l /\ q # r => small[q] = big[q]
  BY DEF Halves, Halved
<1>2. big[p].leaf = FALSE /\ small[p].leaf = FALSE
  BY DEF Halves, HalvedAbove, IsInternal, Internal
<1>3. iv \in [DOMAIN big -> SUBSET Int]
  BY DEF Tree, Ranges
<1>4. /\ \A q \in DOMAIN big : q # r /\ q # l => iv2[q] = iv[q]
      /\ iv2[l] = iv[l] \cup iv[r]
  BY <1>1, <1>3 DEF JoinedRange
<1>5. \A q \in DOMAIN big : iv[q] \in SUBSET Int /\ iv[q] # {} /\ Convex(iv[q])
  BY Kind
<1>6. Adjacent(iv[l], iv[r])
  BY HalvesAdjacent
<1>7. ht[l] = ht[r]
  BY HalvesRanges
<1> HIDE DEF iv2
<1>8. ASSUME NEW n \in DOMAIN big, n # r, n # l, big[n].leaf = TRUE
      PROVE  n \in DOMAIN small /\ small[n].leaf = TRUE /\ iv2[n] = iv[n]
  BY <1>1, <1>2, <1>4, <1>8
<1>9. ASSUME HalvedLeaf(big[l], big[r], small[l]) PROVE Chained(small, iv2)
  <2>1. /\ big[l].leaf = TRUE /\ big[r].leaf = TRUE /\ small[l].leaf = TRUE
        /\ small[l].next = big[r].next /\ small[l].copies = big[r].copies
    BY <1>9 DEF HalvedLeaf, IsLeaf, Leaf
  <2>2. Follows(small, iv2, l)
    <3>1. Follows(big, iv, r)
      BY <1>1, <2>1 DEF Chained
    <3>2. CASE big[r].next = Null /\ Top(iv[r])
      <4>1. Top(iv[l] \cup iv[r])
        BY <1>1, <1>5, <1>6, <3>2, AdjacentParts
      <4> QED BY <1>4, <2>1, <3>1, <3>2, <4>1 DEF Follows
    <3>3. CASE /\ big[r].next \in DOMAIN big /\ big[big[r].next].leaf = TRUE
               /\ Adjacent(iv[r], iv[big[r].next])
      <4> DEFINE n == big[r].next
      <4>1. n # r /\ n # l
        <5>1. ~Adjacent(iv[r], iv[l]) /\ ~Adjacent(iv[r], iv[r])
          BY <1>1, <1>5, <1>6, NotBeforeItself, AdjacentParts
        <5> QED BY <3>3, <5>1
      <4>2. Adjacent(iv[l] \cup iv[r], iv[n])
        <5>1. Adjacent(iv[r], iv[n]) /\ n \in DOMAIN big
          BY <3>3
        <5> HIDE DEF n
        <5>2. /\ iv[l] \in SUBSET Int /\ iv[r] \in SUBSET Int /\ iv[n] \in SUBSET Int
              /\ iv[l] # {} /\ iv[r] # {} /\ iv[n] # {}
          BY <1>1, <1>5, <5>1
        <5> QED BY <1>6, <5>1, <5>2, AdjacentParts
      <4>3. n \in DOMAIN small /\ small[n].leaf = TRUE /\ iv2[n] = iv[n]
        BY <1>8, <3>3, <4>1
      <4> QED BY <1>4, <2>1, <3>1, <4>2, <4>3 DEF Follows
    <3> QED BY <3>1, <3>2, <3>3 DEF Follows
  <2>3. ASSUME NEW q \in DOMAIN small, q # l, small[q].leaf = TRUE PROVE Follows(small, iv2, q)
    <3>1. q \in DOMAIN big /\ q # p /\ q # r /\ small[q] = big[q] /\ iv2[q] = iv[q]
      BY <1>1, <1>2, <1>4, <2>3
    <3>2. Follows(big, iv, q)
      BY <2>3, <3>1 DEF Chained
    <3>3. CASE big[q].next = Null /\ Top(iv[q])
      BY <3>1, <3>2, <3>3 DEF Follows
    <3>4. CASE /\ big[q].next \in DOMAIN big /\ big[big[q].next].leaf = TRUE
               /\ Adjacent(iv[q], iv[big[q].next])
      <4> DEFINE n == big[q].next
      <4>1. n # r
        <5>1. ht[q] = 0 /\ ht[l] = 0
          BY <1>1, <2>1, <2>3, <3>1, Kind
        <5> QED BY <1>1, <1>6, <2>3, <3>1, <3>4, <5>1, OnlyNext
      <4>2. CASE n = l
        <5>1. Adjacent(iv[q], iv[l] \cup iv[r])
          BY <1>1, <1>5, <1>6, <3>1, <3>4, <4>2, AdjacentParts
        <5> QED BY <1>1, <1>4, <2>1, <3>1, <3>2, <4>2, <5>1 DEF Follows
      <4>3. CASE n # l
        <5>1. n \in DOMAIN small /\ small[n].leaf = TRUE /\ iv2[n] = iv[n]
          BY <1>8, <3>4, <4>1, <4>3
        <5> QED BY <3>1, <3>2, <3>4, <5>1 DEF Follows
      <4> QED BY <4>2, <4>3
    <3> QED BY <3>2, <3>3, <3>4 DEF Follows
  <2> QED BY <2>2, <2>3 DEF Chained
<1>10. ASSUME HalvedInternal(big[l], key, big[r], small[l], DOMAIN big) PROVE Chained(small, iv2)
  <2>1. big[l].leaf = FALSE /\ big[r].leaf = FALSE /\ small[l].leaf = FALSE
    BY <1>10 DEF HalvedInternal, IsInternal, Internal
  <2>2. ASSUME NEW q \in DOMAIN small, small[q].leaf = TRUE PROVE Follows(small, iv2, q)
    <3>1. /\ q \in DOMAIN big /\ q # p /\ q # r /\ q # l
          /\ small[q] = big[q] /\ iv2[q] = iv[q]
      BY <1>1, <1>2, <1>4, <2>1, <2>2
    <3>2. Follows(big, iv, q)
      BY <2>2, <3>1 DEF Chained
    <3>3. CASE big[q].next = Null /\ Top(iv[q])
      BY <3>1, <3>2, <3>3 DEF Follows
    <3>4. CASE /\ big[q].next \in DOMAIN big /\ big[big[q].next].leaf = TRUE
               /\ Adjacent(iv[q], iv[big[q].next])
      <4> DEFINE n == big[q].next
      <4>1. n \in DOMAIN small /\ small[n].leaf = TRUE /\ iv2[n] = iv[n]
        BY <1>8, <2>1, <3>4
      <4> QED BY <3>1, <3>2, <3>4, <4>1 DEF Follows
    <3> QED BY <3>2, <3>3, <3>4 DEF Follows
  <2> QED BY <2>2 DEF Chained
<1>11. Chained(small, iv2)
  BY <1>9, <1>10 DEF Halves
<1> QED BY <1>11 DEF iv2

\* The left half of a leaf leads to the right one.
LEMMA CutChained ==
  ASSUME NEW small, NEW ht, NEW iv, Tree(small, ht, iv), Chained(small, iv),
         NEW big, NEW p, NEW i, NEW l, NEW r, Halves(big, small, p, i, l, r),
         Proper(big, p, i, l, r),
         big[l].leaf = TRUE => big[l].next = r /\ big[l].copies = <<>>
  PROVE  Chained(big, CutRange(iv, l, r, big[p].keys[i]))
<1> DEFINE key == big[p].keys[i]
           iv2 == CutRange(iv, l, r, key)
<1>1. /\ p \in DOMAIN small /\ l \in DOMAIN small /\ r \notin DOMAIN small
      /\ p # l /\ p # r /\ l # r
      /\ DOMAIN big = DOMAIN small \cup {r}
      /\ \A q \in DOMAIN small : q # p /\ q # l => big[q] = small[q]
      /\ \A q \in DOMAIN small : q # l => iv2[q] = iv[q]
      /\ iv2[l] = Lower(iv[l], key)
      /\ iv2[r] = Upper(iv[l], key)
  <2>1. CutFacts(big, small, ht, iv, p, l, r, key)
    BY CutMaps
  <2> QED BY <2>1 DEF CutFacts
<1>2. big[p].leaf = FALSE /\ small[p].leaf = FALSE
  BY DEF Halves, HalvedAbove, IsInternal, Internal
<1>3. \A q \in DOMAIN small : iv[q] \in SUBSET Int /\ iv[q] # {} /\ Convex(iv[q])
  BY Kind
<1>4. key \in Int
  BY CutPlace
<1>5. ASSUME NEW n \in DOMAIN small, n # l, small[n].leaf = TRUE
      PROVE  n \in DOMAIN big /\ big[n].leaf = TRUE /\ iv2[n] = iv[n]
  BY <1>1, <1>2, <1>5
<1> HIDE DEF iv2, key
<1>6. ASSUME HalvedLeaf(big[l], big[r], small[l]) PROVE Chained(big, iv2)
  <2>1. /\ big[l].leaf = TRUE /\ big[r].leaf = TRUE /\ small[l].leaf = TRUE
        /\ small[l].next = big[r].next /\ small[l].copies = big[r].copies
    BY <1>6 DEF HalvedLeaf, IsLeaf, Leaf
  <2>2. Follows(big, iv2, l)
    <3>1. Adjacent(Lower(iv[l], key), Upper(iv[l], key))
      BY <1>1, <1>3, <1>4, AdjacentHalves
    <3> QED BY <1>1, <2>1, <3>1 DEF Follows
  <2>3. Follows(big, iv2, r)
    <3>1. Follows(small, iv, l)
      BY <1>1, <2>1 DEF Chained
    <3>2. CASE small[l].next = Null /\ Top(iv[l])
      <4>1. Top(Upper(iv[l], key))
        <5>1. iv[l] \in SUBSET Int /\ Convex(iv[l])
          BY <1>1, <1>3
        <5> QED BY <1>4, <3>2, <5>1, AdjacentHalves
      <4> QED BY <1>1, <2>1, <3>1, <3>2, <4>1 DEF Follows
    <3>3. CASE /\ small[l].next \in DOMAIN small /\ small[small[l].next].leaf = TRUE
               /\ Adjacent(iv[l], iv[small[l].next])
      <4> DEFINE n == small[l].next
      <4>1. n # l
        BY <1>1, <1>3, <3>3, NotBeforeItself
      <4>2. Adjacent(Upper(iv[l], key), iv[n])
        BY <1>1, <1>3, <1>4, <3>3, AdjacentHalves
      <4>3. n \in DOMAIN big /\ big[n].leaf = TRUE /\ iv2[n] = iv[n]
        BY <1>5, <3>3, <4>1
      <4> QED BY <1>1, <2>1, <3>1, <4>2, <4>3 DEF Follows
    <3> QED BY <3>1, <3>2, <3>3 DEF Follows
  <2>4. ASSUME NEW q \in DOMAIN big, q # l, q # r, big[q].leaf = TRUE PROVE Follows(big, iv2, q)
    <3>1. q \in DOMAIN small /\ q # p /\ big[q] = small[q] /\ iv2[q] = iv[q]
      BY <1>1, <1>2, <2>4
    <3>2. Follows(small, iv, q)
      BY <2>4, <3>1 DEF Chained
    <3>3. CASE small[q].next = Null /\ Top(iv[q])
      BY <3>1, <3>2, <3>3 DEF Follows
    <3>4. CASE /\ small[q].next \in DOMAIN small /\ small[small[q].next].leaf = TRUE
               /\ Adjacent(iv[q], iv[small[q].next])
      <4> DEFINE n == small[q].next
      <4>1. CASE n = l
        <5>1. Adjacent(iv[q], Lower(iv[l], key))
          BY <1>1, <1>3, <1>4, <3>1, <3>4, <4>1, AdjacentHalves
        <5> QED BY <1>1, <2>1, <3>1, <3>2, <4>1, <5>1 DEF Follows
      <4>2. CASE n # l
        <5>1. n \in DOMAIN big /\ big[n].leaf = TRUE /\ iv2[n] = iv[n]
          BY <1>5, <3>4, <4>2
        <5> QED BY <3>1, <3>2, <3>4, <5>1 DEF Follows
      <4> QED BY <4>1, <4>2
    <3> QED BY <3>2, <3>3, <3>4 DEF Follows
  <2> QED BY <2>2, <2>3, <2>4 DEF Chained
<1>7. ASSUME HalvedInternal(big[l], big[p].keys[i], big[r], small[l], DOMAIN big)
      PROVE  Chained(big, iv2)
  <2>1. big[l].leaf = FALSE /\ big[r].leaf = FALSE /\ small[l].leaf = FALSE
    BY <1>7 DEF HalvedInternal, IsInternal, Internal
  <2>2. ASSUME NEW q \in DOMAIN big, big[q].leaf = TRUE PROVE Follows(big, iv2, q)
    <3>1. /\ q \in DOMAIN small /\ q # p /\ q # l
          /\ big[q] = small[q] /\ iv2[q] = iv[q]
      BY <1>1, <1>2, <2>1, <2>2
    <3>2. Follows(small, iv, q)
      BY <2>2, <3>1 DEF Chained
    <3>3. CASE small[q].next = Null /\ Top(iv[q])
      BY <3>1, <3>2, <3>3 DEF Follows
    <3>4. CASE /\ small[q].next \in DOMAIN small /\ small[small[q].next].leaf = TRUE
               /\ Adjacent(iv[q], iv[small[q].next])
      <4> DEFINE n == small[q].next
      <4>1. n \in DOMAIN big /\ big[n].leaf = TRUE /\ iv2[n] = iv[n]
        BY <1>5, <2>1, <3>4
      <4> QED BY <3>1, <3>2, <3>4, <4>1 DEF Follows
    <3> QED BY <3>2, <3>3, <3>4 DEF Follows
  <2> QED BY <2>2 DEF Chained
<1>8. Chained(big, iv2)
  BY <1>6, <1>7 DEF Halves
<1> QED BY <1>8 DEF iv2, key

=============================================================================
