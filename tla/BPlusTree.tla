------------------------------ MODULE BPlusTree -----------------------------
(***************************************************************************)
(* The B+* tree of Index.h (class BSP_tree), which the page file keeps its *)
(* index in.  Nodes live in a heap and know each other by address; a leaf  *)
(* also links to the next one.  A node that gets too full gives an entry   *)
(* to a neighbour or is split, one that gets too small takes from its      *)
(* neighbours, or three nodes become two.                                  *)
(*                                                                         *)
(* Positions count from 1 where the code counts from 0.  An access outside *)
(* a node is no value of the model: TLC stops with an error.               *)
(***************************************************************************)
EXTENDS Integers, FiniteSets, SequencesExt, TLC

CONSTANTS Order, Keys, Values

ASSUME TreeAssumption == Order \in Nat \ {0} /\ Keys \subseteq Int

MinKeys     == 2 * Order - 1
MaxKeys     == 3 * Order - 1
MaxRootKeys == 4 * Order - 1

Null == 0

VARIABLES
  tree,      \* the nodes by address, _root and _size
  call,      \* history: the last call
  reloaded   \* history: whether the tree was read back from its pages

vars == <<tree, call, reloaded>>

-----------------------------------------------------------------------------
(* Nodes *)

\* An entry is <<key, value>>.  "copies" are leaves behind this one that belong
\* to it alone (see Reload).
Leaf(next, copies, data) ==
  [leaf |-> TRUE, next |-> next, copies |-> copies, data |-> data]
Internal(keys, kids) == [leaf |-> FALSE, keys |-> keys, kids |-> kids]

\* The leaf with other data.
WithData(leaf, data) == Leaf(leaf.next, leaf.copies, data)

Size(node)     == IF node.leaf THEN Len(node.data) ELSE Len(node.keys)
KeyAt(node, i) == IF node.leaf THEN node.data[i][1] ELSE node.keys[i]

Count(h, p)   == Size(h[p])
Fresh(h)      == CHOOSE p \in 1 .. (Cardinality(DOMAIN h) + 1) : p \notin DOMAIN h
Put(h, p, node) == [q \in DOMAIN h \cup {p} |-> IF q = p THEN node ELSE h[q]]
Without(h, p) == [q \in DOMAIN h \ {p} |-> h[q]]

\* find_key_index and upper_bound_key_index, binary searches in sorted keys: the
\* first position whose key is not below k, and the first whose key is above k.
KeyIndex(node, k) ==
  1 + Cardinality({i \in 1 .. Size(node) : KeyAt(node, i) < k})
UpperIndex(node, k) ==
  1 + Cardinality({i \in 1 .. Size(node) : KeyAt(node, i) <= k})

\* For each node, the leaf the descent from it ends in.
Down(h, k) ==
  LET down[p \in DOMAIN h] ==
        IF h[p].leaf THEN p ELSE down[h[p].kids[UpperIndex(h[p], k)]]
  IN  down

LeafFor(t, k) == Down(t.heap, k)[t.root]

\* find: the value of k there, at most one.
Find(t, k) ==
  IF t.root = Null THEN {}
  ELSE {e[2] : e \in {d \in ToSet(t.heap[LeafFor(t, k)].data) : d[1] = k}}

Found(t, k) == Find(t, k) # {}

-----------------------------------------------------------------------------
(* Lending and splitting *)

\* An internal node with another separator, and with one child more.
Renewed(node, i, key)     == Internal([node.keys EXCEPT ![i] = key], node.kids)
Extended(node, i, key, q) == Internal(InsertAt(node.keys, i, key),
                                      InsertAt(node.kids, i + 1, q))

\* Mutant: the separator is not renewed.
BorrowFromLeft_OldSeparator(h, p, i) ==
  LET child == h[p].kids[i]  left == h[p].kids[i - 1] IN
  IF h[child].leaf
  THEN [h EXCEPT ![child] = WithData(@, <<Last(h[left].data)>> \o @.data),
                 ![left]  = WithData(@, Front(@.data))]
  ELSE [h EXCEPT ![child] = Internal(<<h[p].keys[i - 1]>> \o @.keys,
                                     <<Last(h[left].kids)>> \o @.kids),
                 ![p]     = Renewed(@, i - 1, Last(h[left].keys)),
                 ![left]  = Internal(Front(@.keys), Front(@.kids))]

\* The child at position i takes the last entry of the one on its left.
BorrowFromLeft(h, p, i) ==
  LET child == h[p].kids[i]  left == h[p].kids[i - 1] IN
  IF h[child].leaf
  THEN [h EXCEPT ![child] = WithData(@, <<Last(h[left].data)>> \o @.data),
                 ![p]     = Renewed(@, i - 1, Last(h[left].data)[1]),
                 ![left]  = WithData(@, Front(@.data))]
  ELSE [h EXCEPT ![child] = Internal(<<h[p].keys[i - 1]>> \o @.keys,
                                     <<Last(h[left].kids)>> \o @.kids),
                 ![p]     = Renewed(@, i - 1, Last(h[left].keys)),
                 ![left]  = Internal(Front(@.keys), Front(@.kids))]

BorrowFromRight(h, p, i) ==
  LET child == h[p].kids[i]  right == h[p].kids[i + 1] IN
  IF h[child].leaf
  THEN [h EXCEPT ![child] = WithData(@, Append(@.data, h[right].data[1])),
                 ![p]     = Renewed(@, i, h[right].data[2][1]),
                 ![right] = WithData(@, Tail(@.data))]
  ELSE [h EXCEPT ![child] = Internal(Append(@.keys, h[p].keys[i]),
                                     Append(@.kids, h[right].kids[1])),
                 ![p]     = Renewed(@, i, h[right].keys[1]),
                 ![right] = Internal(Tail(@.keys), Tail(@.kids))]

\* Mutant: the new leaf is not linked into the chain.
SplitAt_Unlinked(h, p, i, at) ==
  LET old == h[p].kids[i]  new == Fresh(h)  node == h[old] IN
  IF node.leaf
  THEN Put([h EXCEPT ![old] = WithData(@, SubSeq(@.data, 1, at)),
                     ![p]   = Extended(@, i, node.data[at + 1][1], new)],
           new, WithData(node, SubSeq(node.data, at + 1, Len(node.data))))
  ELSE Put([h EXCEPT ![old] = Internal(SubSeq(@.keys, 1, at), SubSeq(@.kids, 1, at + 1)),
                     ![p]   = Extended(@, i, node.keys[at + 1], new)],
           new, Internal(SubSeq(node.keys, at + 2, Len(node.keys)),
                         SubSeq(node.kids, at + 2, Len(node.kids))))

\* The child keeps its first "at" keys.  A leaf hands all others over to a new
\* leaf behind it, an internal node the next one to its parent.
SplitAt(h, p, i, at) ==
  LET old == h[p].kids[i]  new == Fresh(h)  node == h[old] IN
  IF node.leaf
  THEN Put([h EXCEPT ![old] = Leaf(new, <<>>, SubSeq(@.data, 1, at)),
                     ![p]   = Extended(@, i, node.data[at + 1][1], new)],
           new, WithData(node, SubSeq(node.data, at + 1, Len(node.data))))
  ELSE Put([h EXCEPT ![old] = Internal(SubSeq(@.keys, 1, at), SubSeq(@.kids, 1, at + 1)),
                     ![p]   = Extended(@, i, node.keys[at + 1], new)],
           new, Internal(SubSeq(node.keys, at + 2, Len(node.keys)),
                         SubSeq(node.kids, at + 2, Len(node.kids))))

SplitChild(h, p, i) == SplitAt(h, p, i, Count(h, h[p].kids[i]) \div 2)

SplitRoot(t) ==
  LET top == Fresh(t.heap) IN
  [heap |-> SplitAt(Put(t.heap, top, Internal(<<>>, <<t.root>>)), top, 1, MinKeys + 1),
   root |-> top,
   size |-> t.size]

\* Mutant: a neighbour with MaxKeys keys counts as one with room.
Relieve_AtLimit(h, p, i) ==
  LET kids == h[p].kids
      HasRoom(j) == j \in DOMAIN kids /\ Count(h, kids[j]) <= MaxKeys
  IN  IF Count(h, kids[i]) <= MaxKeys THEN h
      ELSE IF HasRoom(i - 1) THEN BorrowFromRight(h, p, i - 1)
      ELSE IF HasRoom(i + 1) THEN BorrowFromLeft(h, p, i + 1)
      ELSE SplitChild(h, p, i)

\* A child that is too full lends to a neighbour with room, the left one first,
\* or is split.
Relieve(h, p, i) ==
  LET kids == h[p].kids
      HasRoom(j) == j \in DOMAIN kids /\ Count(h, kids[j]) < MaxKeys
  IN  IF Count(h, kids[i]) <= MaxKeys THEN h
      ELSE IF HasRoom(i - 1) THEN BorrowFromRight(h, p, i - 1)
      ELSE IF HasRoom(i + 1) THEN BorrowFromLeft(h, p, i + 1)
      ELSE SplitChild(h, p, i)

\* insert_bottom_up: for each node, what becomes of the heap when the key is put
\* in below it.
InsertInto(h, k, v) ==
  LET into[p \in DOMAIN h] ==
        IF h[p].leaf
        THEN [h EXCEPT ![p] = WithData(@, InsertAt(@.data, KeyIndex(@, k), <<k, v>>))]
        ELSE LET i == UpperIndex(h[p], k) IN Relieve(into[h[p].kids[i]], p, i)
  IN  into

\* The tree with a key that was not there.
Inserted(t, k, v) ==
  LET first == Fresh(t.heap)
      grown ==
        IF t.root = Null
        THEN [heap |-> Put(t.heap, first, Leaf(Null, <<>>, <<<<k, v>>>>)),
              root |-> first, size |-> t.size + 1]
        ELSE [heap |-> InsertInto(t.heap, k, v)[t.root],
              root |-> t.root, size |-> t.size + 1]
  IN  IF Count(grown.heap, grown.root) > MaxRootKeys THEN SplitRoot(grown) ELSE grown

-----------------------------------------------------------------------------
(* Taking back and merging *)

\* An internal node without the separator at i and the child on its right.
Shortened(node, i) == Internal(RemoveAt(node.keys, i), RemoveAt(node.kids, i + 1))

\* Three leaves become two of equal size; the third goes.
Merge3Leaves(h, p, m) ==
  LET left == h[p].kids[m - 1]  mid == h[p].kids[m]  right == h[p].kids[m + 1]
      med == (Count(h, left) + Count(h, mid) + Count(h, right)) \div 2 - Count(h, left)
  IN  Without([h EXCEPT
        ![left] = WithData(@, @.data \o SubSeq(h[mid].data, 1, med)),
        ![mid]  = Leaf(h[right].next, h[right].copies,
                       SubSeq(@.data, med + 1, Len(@.data)) \o h[right].data),
        ![p]    = Shortened(Renewed(@, m - 1, h[mid].data[med + 1][1]), m)], right)

\* The separators between the three move down, a key of the middle one moves up.
Merge3Internal(h, p, m) ==
  LET left == h[p].kids[m - 1]  mid == h[p].kids[m]  right == h[p].kids[m + 1]
      med == (Count(h, left) + Count(h, mid) + Count(h, right) + 2) \div 2
             - Count(h, left) - 1
  IN  Without([h EXCEPT
        ![left] = Internal(Append(@.keys, h[p].keys[m - 1]) \o SubSeq(h[mid].keys, 1, med),
                           @.kids \o SubSeq(h[mid].kids, 1, med + 1)),
        ![mid]  = Internal(Append(SubSeq(@.keys, med + 2, Len(@.keys)), h[p].keys[m])
                             \o h[right].keys,
                           SubSeq(@.kids, med + 2, Len(@.kids)) \o h[right].kids),
        ![p]    = Shortened(Renewed(@, m - 1, h[mid].keys[med + 1]), m)], right)

Merge3(h, p, m) ==
  IF h[h[p].kids[m]].leaf THEN Merge3Leaves(h, p, m) ELSE Merge3Internal(h, p, m)

\* Mutant: the left node takes the right one instead of its children.
Merge2_TakesNode(h, p) ==
  LET left == h[p].kids[1]  right == h[p].kids[2] IN
  IF h[left].leaf
  THEN Without([h EXCEPT
         ![left] = Leaf(h[right].next, h[right].copies, @.data \o h[right].data),
         ![p]    = Shortened(@, 1)], right)
  ELSE [h EXCEPT
         ![left] = Internal(Append(@.keys, h[p].keys[1]), Append(@.kids, right)),
         ![p]    = Shortened(@, 1)]

\* Two children are left: the second goes into the first.
Merge2(h, p) ==
  LET left == h[p].kids[1]  right == h[p].kids[2] IN
  IF h[left].leaf
  THEN Without([h EXCEPT
         ![left] = Leaf(h[right].next, h[right].copies, @.data \o h[right].data),
         ![p]    = Shortened(@, 1)], right)
  ELSE Without([h EXCEPT
         ![left] = Internal(Append(@.keys, h[p].keys[1]) \o h[right].keys,
                            @.kids \o h[right].kids),
         ![p]    = Shortened(@, 1)], right)

\* ensure_child_has_enough_keys
Refill(h, p, i) ==
  LET kids == h[p].kids
      n    == Len(kids)
      Spare(j) == j \in DOMAIN kids /\ Count(h, kids[j]) > MinKeys
  IN  IF Count(h, kids[i]) >= MinKeys THEN h
      ELSE IF Spare(i - 1) THEN BorrowFromLeft(h, p, i)
      ELSE IF Spare(i + 1) THEN BorrowFromRight(h, p, i)
      ELSE IF i = 1 /\ Spare(3)
           THEN BorrowFromRight(BorrowFromRight(h, p, 2), p, 1)
      ELSE IF i = n /\ Spare(n - 2)
           THEN BorrowFromLeft(BorrowFromLeft(h, p, n - 1), p, n)
      ELSE IF n >= 3
           THEN Merge3(h, p, IF i = 1 THEN 2 ELSE IF i = n THEN n - 1 ELSE i)
      ELSE Merge2(h, p)

\* try_erase_from_node: for each node, what becomes of the heap when the key is
\* taken out below it.
EraseFrom(h, k) ==
  LET from[p \in DOMAIN h] ==
        IF h[p].leaf THEN [h EXCEPT ![p] = WithData(@, RemoveAt(@.data, KeyIndex(@, k)))]
        ELSE LET i == UpperIndex(h[p], k) IN Refill(from[h[p].kids[i]], p, i)
  IN  from

\* The tree without a key that was there: an empty root goes, one without keys
\* leaves its only child in its place.
Erased(t, k) ==
  LET h == EraseFrom(t.heap, k)[t.root]
      top == h[t.root]
  IN  IF top.leaf /\ top.data = <<>>
      THEN [heap |-> Without(h, t.root), root |-> Null, size |-> t.size - 1]
      ELSE IF ~top.leaf /\ top.keys = <<>>
      THEN [heap |-> Without(h, t.root), root |-> top.kids[1], size |-> t.size - 1]
      ELSE [heap |-> h, root |-> t.root, size |-> t.size - 1]

-----------------------------------------------------------------------------
(* Iteration *)

\* The data of the leaves an iterator walks through from leaf p on.
ChainFrom(t, p) ==
  LET leaves == {q \in DOMAIN t.heap : t.heap[q].leaf}
      walk[q \in leaves] ==
        IF t.heap[q].next = Null THEN <<t.heap[q].data>> \o t.heap[q].copies
        ELSE <<t.heap[q].data>> \o walk[t.heap[q].next]
  IN  walk[p]

\* get_leftmost_leaf
FirstLeaf(t) ==
  LET down[p \in DOMAIN t.heap] ==
        IF t.heap[p].leaf THEN p ELSE down[t.heap[p].kids[1]]
  IN  down[t.root]

\* From begin() to end().
Iterated(t) == IF t.root = Null THEN <<>> ELSE FlattenSeq(ChainFrom(t, FirstLeaf(t)))

\* Mutant: behind the last key of a leaf there is nothing.
PointedAt_LeafOnly(t, p, i) ==
  LET leaf == t.heap[p] IN
  IF i <= Size(leaf) THEN {KeyAt(leaf, i)} ELSE {}

\* The key at a position of a leaf; behind the last one, the first of the next leaf.
PointedAt(t, p, i) ==
  LET leaf == t.heap[p] IN
  IF i <= Size(leaf) THEN {KeyAt(leaf, i)}
  ELSE IF leaf.next # Null THEN {KeyAt(t.heap[leaf.next], 1)}
  ELSE IF leaf.copies # <<>> THEN {leaf.copies[1][1][1]}
  ELSE {}

\* The key lower_bound points to, none when it returns end(); erase returns the same.
LowerBound(t, k) ==
  IF t.root = Null THEN {}
  ELSE LET p == LeafFor(t, k) IN PointedAt(t, p, KeyIndex(t.heap[p], k))

UpperBound(t, k) ==
  IF t.root = Null THEN {}
  ELSE LET p == LeafFor(t, k) IN PointedAt(t, p, UpperIndex(t.heap[p], k))

-----------------------------------------------------------------------------
(* Operations *)

EmptyTree == [heap |-> [p \in {} |-> p], root |-> Null, size |-> 0]

Init == tree = EmptyTree /\ call = <<"none">> /\ reloaded = FALSE

\* insert and emplace; a key that is there keeps its value.
Emplace(k, v) ==
  /\ call' = <<"insert", k, v>>
  /\ tree' = IF Found(tree, k) THEN tree ELSE Inserted(tree, k, v)
  /\ UNCHANGED reloaded

Assigned(t, k, v) ==
  LET p == LeafFor(t, k)  data == t.heap[p].data  i == KeyIndex(t.heap[p], k) IN
  [heap |-> [t.heap EXCEPT ![p] = WithData(@, [data EXCEPT ![i] = <<data[i][1], v>>])],
   root |-> t.root,
   size |-> t.size]

InsertOrAssign(k, v) ==
  /\ call' = <<"assign", k, v>>
  /\ tree' = IF Found(tree, k) THEN Assigned(tree, k, v) ELSE Inserted(tree, k, v)
  /\ UNCHANGED reloaded

EraseKey(k) ==
  /\ call' = <<"erase", k>>
  /\ tree' = IF Found(tree, k) THEN Erased(tree, k) ELSE tree
  /\ UNCHANGED reloaded

\* PageBasedIndex::insert: a key that is there is erased and inserted again.
Store(k, v) ==
  /\ call' = <<"assign", k, v>>
  /\ tree' = Inserted(IF Found(tree, k) THEN Erased(tree, k) ELSE tree, k, v)
  /\ UNCHANGED reloaded

\* For each node, it and what can be reached from it through children.
Reached(h) ==
  LET reached[p \in DOMAIN h] ==
        IF h[p].leaf THEN {p}
        ELSE {p} \cup UNION {reached[q] : q \in ToSet(h[p].kids)}
  IN  reached

\* The leaves read back by load_node: each has a chain of its own behind it, made
\* of copies, because save_node follows both the children and the links.
Reloaded(t) ==
  LET nodes == IF t.root = Null THEN {} ELSE Reached(t.heap)[t.root]
  IN  [heap |-> [p \in nodes |->
                   IF t.heap[p].leaf
                   THEN Leaf(Null, Tail(ChainFrom(t, p)), t.heap[p].data)
                   ELSE t.heap[p]],
       root |-> t.root,
       size |-> 0]

\* save_metadata and load_metadata of PageBasedIndex; _size is not read back.
Reload ==
  /\ call' = <<"reload">>
  /\ tree' = Reloaded(tree)
  /\ reloaded' = TRUE

Clear ==
  /\ call' = <<"clear">>
  /\ tree' = EmptyTree
  /\ UNCHANGED reloaded

Next ==
  \/ \E k \in Keys, v \in Values :
       Emplace(k, v) \/ InsertOrAssign(k, v) \/ Store(k, v)
  \/ \E k \in Keys : EraseKey(k)
  \/ Reload
  \/ Clear

Spec == Init /\ [][Next]_vars

-----------------------------------------------------------------------------
(* Properties *)

Content ==
  [k \in {k \in Keys : Found(tree, k)} |-> CHOOSE x \in Values : x \in Find(tree, k)]

Abstract == INSTANCE SortedMap WITH map <- Content

\* The tree is a map: what a descent finds is what was put in and not taken out
\* since, whichever nodes were split, lent to, merged or read back in between.
ImplementsMap == Abstract!Spec

\* The least that a split leaves in a node, less than MinKeys from Order 2 on.
LeastKeys == (3 * Order - 1) \div 2

\* For each node, how far below it leaves are.
Below(h) ==
  LET below[p \in DOMAIN h] ==
        IF h[p].leaf THEN {0}
        ELSE {d + 1 : d \in UNION {below[q] : q \in ToSet(h[p].kids)}}
  IN  below

Depths == IF tree.root = Null THEN {0} ELSE Below(tree.heap)[tree.root]

\* All leaves are equally deep.
Balanced == Cardinality(Depths) = 1

\* No node overflows the array it lives in, none but the root has less than half
\* of what a node can take, and an internal node has a child more than keys.
WithinLimits ==
  \A p \in DOMAIN tree.heap :
    LET node == tree.heap[p]  n == Count(tree.heap, p) IN
    /\ IF p = tree.root THEN n \in 1 .. MaxRootKeys ELSE n \in LeastKeys .. MaxKeys
    /\ node.leaf \/ Len(node.kids) = n + 1

\* Until the tree is read back from its pages: an iterator meets every entry once,
\* in the order of keys, and size() counts them.
IterationComplete ==
  ~reloaded =>
    LET seen == Iterated(tree)  map == Content IN
    /\ \A i \in 1 .. Len(seen) - 1 : seen[i][1] < seen[i + 1][1]
    /\ ToSet(seen) = {<<k, map[k]>> : k \in DOMAIN map}
    /\ tree.size = Len(seen)

\* Until then lower_bound finds the least key not below the one it is given, and
\* upper_bound the least above it, also where that key is in the next leaf.
BoundsExact ==
  ~reloaded =>
    LET present == DOMAIN Content
        Least(at, from) ==
          IF at = {} THEN \A j \in present : j < from
          ELSE \A x \in at : x >= from /\ x \in present /\ (from .. x - 1) \cap present = {}
    IN  \A k \in Keys : Least(LowerBound(tree, k), k) /\ Least(UpperBound(tree, k), k + 1)

=============================================================================
