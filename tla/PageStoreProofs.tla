-------------------------- MODULE PageStoreProofs --------------------------
(***************************************************************************)
(* Theorems about PageStore, for any keys and values and any number of     *)
(* page ids and kills.  What the files hold is proved for kills that leave *)
(* the buffer of the stream time to reach the file (~KillBeforeCount); the *)
(* run pages_kill shows what becomes of it without.                        *)
(***************************************************************************)
EXTENDS PageStore, TLAPS

-----------------------------------------------------------------------------
(* Partial functions *)

LEMMA PartialIs ==
  ASSUME NEW S, NEW T, NEW f
  PROVE  /\ f \in Partial(S, T) <=> IsPartial(f, S, T)
         /\ IsPartial(f, S, T) <=>
              /\ DOMAIN f \subseteq S
              /\ f = [x \in DOMAIN f |-> f[x]] /\ \A x \in DOMAIN f : f[x] \in T
BY DEF Partial, IsPartial

LEMMA PutIs ==
  ASSUME NEW f, NEW x, NEW v
  PROVE  /\ DOMAIN Put(f, x, v) = DOMAIN f \cup {x} /\ Put(f, x, v)[x] = v
         /\ \A y \in DOMAIN f : y # x => Put(f, x, v)[y] = f[y]
BY DEF Put

LEMMA PutPartial ==
  ASSUME NEW S, NEW T, NEW f, IsPartial(f, S, T), NEW x \in S, NEW v \in T
  PROVE  IsPartial(Put(f, x, v), S, T)
<1>1. /\ DOMAIN Put(f, x, v) \subseteq S
      /\ Put(f, x, v) = [y \in DOMAIN Put(f, x, v) |-> Put(f, x, v)[y]]
      /\ \A y \in DOMAIN Put(f, x, v) : Put(f, x, v)[y] \in T
  BY PartialIs DEF Put
<1> QED
  BY <1>1, PartialIs

LEMMA WithoutIs ==
  ASSUME NEW f, NEW x
  PROVE  /\ DOMAIN Without(f, x) = DOMAIN f \ {x}
         /\ \A y \in DOMAIN f : y # x => Without(f, x)[y] = f[y]
BY DEF Without, Restrict

LEMMA WithoutPartial ==
  ASSUME NEW S, NEW T, NEW f, IsPartial(f, S, T), NEW x
  PROVE  IsPartial(Without(f, x), S, T)
<1>1. /\ DOMAIN Without(f, x) \subseteq S
      /\ Without(f, x) = [y \in DOMAIN Without(f, x) |-> Without(f, x)[y]]
      /\ \A y \in DOMAIN Without(f, x) : Without(f, x)[y] \in T
  BY PartialIs DEF Without, Restrict
<1> QED
  BY <1>1, PartialIs

LEMMA EmptyPartial ==
  ASSUME NEW S, NEW T
  PROVE  IsPartial(Empty, S, T) /\ DOMAIN Empty = {}
<1>1. DOMAIN Empty = {} /\ Empty = [x \in DOMAIN Empty |-> Empty[x]]
  BY DEF Empty
<1> QED
  BY <1>1, PartialIs

LEMMA NoKeys ==
  ASSUME NEW S, NEW T, NEW f, IsPartial(f, S, T), DOMAIN f = {}
  PROVE  f = Empty
<1>1. f = [x \in {} |-> f[x]]
  BY PartialIs
<1> QED
  BY <1>1 DEF Empty

-----------------------------------------------------------------------------
(* Types *)

LEMMA ContentIs ==
  /\ \A v \in Values : Data(v) \in Content
  /\ \A t \in Tree : Node(t) \in Content
  /\ Blank \in Content
  /\ \A t, u : Node(t) = Node(u) => t = u
  /\ \A t, v : Node(t) # Data(v) /\ Node(t) # Blank
BY DEF Content, Data, Node, Blank

LEMMA FilePageType ==
  ASSUME TypeOK, NEW p
  PROVE  FilePage(p) \in Content
BY PartialIs, ContentIs DEF TypeOK, FilePage

\* The pages a start reads.
LEMMA ReadPages ==
  ASSUME TypeOK, NEW pages \in SUBSET PageIds
  PROVE  IsPartial([p \in pages |-> FilePage(p)], PageIds, Content)
<1> DEFINE f == [p \in pages |-> FilePage(p)]
<1>1. \A p \in pages : FilePage(p) \in Content
  BY FilePageType
<1>2. DOMAIN f \subseteq PageIds /\ f = [x \in DOMAIN f |-> f[x]]
      /\ \A x \in DOMAIN f : f[x] \in Content
  BY <1>1
<1> HIDE DEF f
<1>3. IsPartial(f, PageIds, Content)
  BY <1>2, PartialIs
<1> QED
  BY <1>3 DEF f

LEMMA SaveTreeType ==
  ASSUME NEW t \in Tree, NEW pages, IsPartial(pages, PageIds, Content), NEW last \in 0 .. MaxPage,
         SaveTree(t, pages, last)
  PROVE  IsPartial(cache', PageIds, Content) /\ nextId' \in 0 .. MaxPage /\ root' \in 0 .. MaxPage
<1>1. CASE t = Empty
  BY <1>1, PageAssumption DEF SaveTree
<1>2. CASE t # Empty
  <2>1. last + 1 \in PageIds /\ last + 1 \in 0 .. MaxPage
    BY <1>2, PageAssumption DEF SaveTree, PageIds
  <2> QED
    BY <1>2, <2>1, PutPartial, ContentIs DEF SaveTree
<1> QED
  BY <1>1, <1>2

LEMMA SeekType ==
  ASSUME TypeOK, Seek
  PROVE  counter' \in 0 .. MaxPage /\ buffered' \in (0 .. MaxPage) \cup {None}
BY DEF TypeOK, Seek

LEMMA TreeEmpty == Empty \in Tree /\ IsPartial(Empty, PageIds, Content) /\ IsPartial(Empty, Keys, Values)
BY EmptyPartial, PartialIs DEF Tree

LEMMA InitType == Init => TypeOK
<1> SUFFICES ASSUME Init PROVE TypeOK
  OBVIOUS
<1>1. 0 \in 0 .. MaxPage /\ 0 \in 0 .. MaxKills
  BY PageAssumption
<1> QED
  BY <1>1, TreeEmpty DEF Init, TypeOK, Phases

LEMMA NextType == TypeOK /\ [Next]_vars => TypeOK'
<1> SUFFICES ASSUME TypeOK, [Next]_vars PROVE TypeOK'
  OBVIOUS
<1> USE PageAssumption
<1>t. /\ index \in Tree /\ IsPartial(cache, PageIds, Content) /\ nextId \in 0 .. MaxPage
      /\ failed \in BOOLEAN /\ buffered \in (0 .. MaxPage) \cup {None}
      /\ IsPartial(file, PageIds, Content) /\ counter \in 0 .. MaxPage
      /\ meta \in (0 .. MaxPage) \cup {Torn, Absent} /\ phase \in Phases
      /\ root \in 0 .. MaxPage /\ kills \in 0 .. MaxKills
      /\ IsPartial(content, Keys, Values) /\ IsPartial(saved, Keys, Values)
      /\ oversized \in BOOLEAN
  BY DEF TypeOK
<1>g. \A k : IsPartial(GivenUp(k), PageIds, Content)
  BY <1>t, WithoutPartial DEF GivenUp
<1>1. ASSUME NEW k \in Keys, NEW v \in Values, Insert(k, v) PROVE TypeOK'
  <2>1. nextId + 1 \in PageIds /\ nextId' \in 0 .. MaxPage
    BY <1>t, <1>1 DEF Insert, PageIds
  <2>2. IsPartial(cache', PageIds, Content)
    BY <1>g, <1>1, <2>1, PutPartial, ContentIs DEF Insert
  <2>3. IsPartial(index', Keys, PageIds)
    BY <1>t, <1>1, <2>1, PutPartial, PartialIs DEF Insert, Tree
  <2>4. index' \in Tree
    BY <2>3, PartialIs DEF Tree
  <2>5. IsPartial(content', Keys, Values)
    BY <1>t, <1>1, PutPartial DEF Insert
  <2> QED
    BY <1>t, <1>1, <2>1, <2>2, <2>4, <2>5 DEF Insert, TypeOK, files
<1>2. ASSUME NEW k \in Keys, InsertTooLarge(k) PROVE TypeOK'
  <2>1. nextId + 1 \in PageIds /\ nextId' \in 0 .. MaxPage
    BY <1>t, <1>2 DEF InsertTooLarge, PageIds
  <2>2. IsPartial(cache', PageIds, Content)
    BY <1>g, <1>2, <2>1, PutPartial, ContentIs DEF InsertTooLarge
  <2> QED
    BY <1>t, <1>2, <2>1, <2>2 DEF InsertTooLarge, TypeOK, files
<1>3. ASSUME NEW k \in Keys, Remove(k) PROVE TypeOK'
  <2>1. IsPartial(cache', PageIds, Content) /\ IsPartial(content', Keys, Values)
    BY <1>t, <1>3, WithoutPartial DEF Remove
  <2>2. IsPartial(index', Keys, PageIds)
    BY <1>t, <1>3, WithoutPartial, PartialIs DEF Remove, Tree
  <2>3. index' \in Tree
    BY <2>2, PartialIs DEF Tree
  <2> QED
    BY <1>t, <1>3, <2>1, <2>3 DEF Remove, TypeOK, files
<1>4. ASSUME NEW k \in Keys, Find(k) PROVE TypeOK'
  <2>1. index[k] \in PageIds
    BY <1>t, <1>4, PartialIs DEF Find, Tree
  <2>2. IsPartial(cache', PageIds, Content) /\ failed' \in BOOLEAN
    BY <1>t, <1>4, <2>1, PutPartial, FilePageType DEF Find
  <2>3. counter' \in 0 .. MaxPage /\ buffered' \in (0 .. MaxPage) \cup {None}
    BY <1>4, SeekType DEF Find
  <2> QED
    BY <1>t, <1>4, <2>2, <2>3 DEF Find, TypeOK
<1>5. CASE BeginSave
  <2>1. IsPartial(cache', PageIds, Content) /\ nextId' \in 0 .. MaxPage /\ root' \in 0 .. MaxPage
    BY <1>t, <1>5, SaveTreeType DEF BeginSave
  <2> QED
    BY <1>t, <1>5, <2>1 DEF BeginSave, TypeOK, files, Phases
<1>6. ASSUME NEW p \in PageIds, WritePage(p) PROVE TypeOK'
  <2>1. cache[p] \in Content
    BY <1>t, <1>6, PartialIs DEF WritePage
  <2>2. IsPartial(file', PageIds, Content)
    BY <1>t, <1>6, <2>1, PutPartial DEF WritePage
  <2>3. counter' \in 0 .. MaxPage /\ buffered' \in (0 .. MaxPage) \cup {None}
    BY <1>6, SeekType DEF WritePage
  <2> QED
    BY <1>t, <1>6, <2>2, <2>3 DEF WritePage, TypeOK
<1>7. CASE EndFlush
  <2>1. counter' \in 0 .. MaxPage /\ buffered' \in (0 .. MaxPage) \cup {None}
    BY <1>t, <1>7 DEF EndFlush
  <2> QED
    BY <1>t, <1>7, <2>1, TreeEmpty DEF EndFlush, TypeOK, Phases
<1>8. CASE EmptyMeta
  BY <1>t, <1>8 DEF EmptyMeta, TypeOK, memory, Phases
<1>9. CASE WriteMeta
  BY <1>t, <1>9 DEF WriteMeta, TypeOK, memory, Phases
<1>10. CASE CreateTable
  <2>1. IsPartial(cache', PageIds, Content) /\ nextId' \in 0 .. MaxPage /\ root' \in 0 .. MaxPage
    BY <1>t, <1>10, SaveTreeType, TreeEmpty DEF CreateTable
  <2> QED
    BY <1>t, <1>10, <2>1 DEF CreateTable, TypeOK, files, Phases
<1>11. CASE DropTable
  BY <1>t, <1>11, TreeEmpty DEF DropTable, TypeOK, files, Phases
<1>12. CASE CloseFile
  <2>1. counter' \in 0 .. MaxPage /\ 0 \in 0 .. MaxPage
    BY <1>t, <1>12 DEF CloseFile
  <2> QED
    BY <1>t, <1>12, <2>1, TreeEmpty DEF CloseFile, TypeOK, Phases
<1>13. CASE RemoveFile
  <2>1. 0 \in 0 .. MaxPage
    OBVIOUS
  <2> QED
    BY <1>t, <1>13, <2>1, TreeEmpty DEF RemoveFile, TypeOK, memory, Phases
<1>14. CASE RemoveMeta
  BY <1>t, <1>14, TreeEmpty DEF RemoveMeta, TypeOK, memory, Phases
<1>15. CASE Kill
  <2>1. 0 \in 0 .. MaxPage
    OBVIOUS
  <2>2. kills < MaxKills /\ kills' = kills + 1
    BY <1>15 DEF Kill
  <2>3. kills' \in 0 .. MaxKills
    BY <1>t, <2>2
  <2> QED
    BY <1>t, <1>15, <2>1, <2>3, TreeEmpty DEF Kill, TypeOK, files, Phases
<1>16. CASE StartWithoutMeta \/ StartWithoutTable \/ StartFails
  BY <1>t, <1>16 DEF StartWithoutMeta, StartWithoutTable, StartFails, TypeOK, memory, files, Phases
<1>17. CASE Start
  <2>1. PICK t \in Tree :
          /\ index' = t
          /\ meta = 0 \/ Loads(t)
          /\ SaveTree(t, [p \in {t[k] : k \in DOMAIN t} \cup ({meta} \ {0}) |-> FilePage(p)], counter)
    BY <1>17 DEF Start
  <2> DEFINE pages == {t[k] : k \in DOMAIN t} \cup ({meta} \ {0})
  <2>2. pages \in SUBSET PageIds
    <3>1. \A k \in DOMAIN t : t[k] \in PageIds
      BY PartialIs DEF Tree
    <3>2. meta = 0 \/ meta \in PageIds
      BY <1>t, <2>1 DEF Loads, PageIds
    <3> QED
      BY <3>1, <3>2
  <2>3. IsPartial([p \in pages |-> FilePage(p)], PageIds, Content)
    BY <2>2, ReadPages
  <2> HIDE DEF pages
  <2>4. SaveTree(t, [p \in pages |-> FilePage(p)], counter)
    BY <2>1 DEF pages
  <2>5. IsPartial(cache', PageIds, Content) /\ nextId' \in 0 .. MaxPage /\ root' \in 0 .. MaxPage
    BY <1>t, <2>3, <2>4, SaveTreeType
  <2> QED
    BY <1>t, <1>17, <2>1, <2>5 DEF Start, TypeOK, files, Phases
<1>18. CASE UNCHANGED vars
  BY <1>t, <1>18 DEF vars, TypeOK, files
<1> QED
  BY <1>1, <1>2, <1>3, <1>4, <1>5, <1>6, <1>7, <1>8, <1>9, <1>10, <1>11, <1>12, <1>13, <1>14,
     <1>15, <1>16, <1>17, <1>18 DEF Next

\* Every reachable state is type correct: pages, trees and counts are what they
\* should be through every save, kill and start.
THEOREM TypeCorrect == Spec => []TypeOK
BY InitType, NextType, PTL DEF Spec

-----------------------------------------------------------------------------
(* The inductive invariant *)

Running == phase \in {"up", "flushing", "flushed", "naming", "closing"}

\* The count of page ids that the file holds as soon as its buffer is written.
Count == IF buffered = None THEN counter ELSE buffered

Injective(t) == \A j, k \in DOMAIN t : t[j] = t[k] => j = k

\* Page ids in use are below the last one given out; no two keys share a page.
IdsBelow ==
  /\ Injective(index)
  /\ Running =>
       /\ Count <= nextId
       /\ \A k \in DOMAIN index : index[k] <= nextId
       /\ \A p \in DOMAIN cache : p <= nextId

AtRest ==
  /\ ~Alive => index = Empty
  /\ ~Running => ~failed /\ buffered = None

\* A cached page that is counted was read from the file or written to it.
CacheClean ==
  Running => \A p \in DOMAIN cache : p <= Count => cache[p] = FilePage(p)

\* file_ fails at a page beyond the end of the file, which only an update too large
\* for a page can have left; from then on the file stands still.
FailedIsPast ==
  failed => oversized /\ buffered = None /\ \A p \in DOMAIN file : p < nextId

\* A save under way has the tree in the cache and then in the file, unless that failed.
SavePending ==
  /\ phase \in {"flushing", "flushed", "naming"} =>
       /\ root <= nextId
       /\ root = 0 => index = Empty
       /\ failed => root \notin DOMAIN file
  /\ phase = "flushing" /\ root # 0 => root \in DOMAIN cache /\ cache[root] = Node(index)
  /\ phase \in {"flushed", "naming"} =>
       /\ cache = Empty
       /\ ~failed => Count = nextId
                     /\ (root # 0 => root \in DOMAIN file /\ file[root] = Node(index))

\* Every page of the image that the .meta file names is counted.
LiveBelow ==
  \A t \in Tree : Loads(t) =>
    meta <= Count /\ Injective(t) /\ \A k \in DOMAIN t : t[k] <= Count

\* While the process is up, the .meta file names a tree.
MetaLoads ==
  Running /\ ~failed /\ meta \notin {0, Torn, Absent} => \E t \in Tree : Loads(t)

\* The .meta file through the phases.
MetaPhase ==
  /\ phase = "naming" => meta = Torn
  /\ phase \notin {"naming", "down", "lost"} => meta # Torn
  /\ phase \notin {"absent", "flushing", "flushed", "down"} => meta # Absent
  /\ phase = "absent" => meta = Absent
  /\ phase \in {"unlinked", "half dropped"} => file = Empty
  /\ phase \in {"down", "half dropped"} => content = saved
  /\ phase \in {"closing", "closed", "unlinked"} => content = Empty
  /\ meta = Absent => saved = Empty /\ content = Empty
  /\ meta = 0 /\ ~oversized => saved = Empty

PageInv ==
  /\ IdsBelow /\ AtRest /\ CacheClean /\ FailedIsPast /\ SavePending /\ LiveBelow
  /\ MetaLoads /\ MetaPhase /\ ReadsBack /\ Recoverable

-----------------------------------------------------------------------------
(* What the invariant is about *)

LEMMA Numbers ==
  ASSUME TypeOK
  PROVE  /\ nextId \in Nat /\ counter \in Nat /\ Count \in Nat /\ root \in Nat
         /\ buffered \in Nat \cup {None} /\ None \notin Nat
         /\ meta \in Nat \cup {Torn, Absent} /\ Torn \notin Nat /\ Absent \notin Nat \cup {Torn}
         /\ \A p \in DOMAIN cache : p \in Nat /\ p # 0
         /\ \A p \in DOMAIN file : p \in Nat /\ p # 0
         /\ \A k \in DOMAIN index : index[k] \in Nat /\ index[k] # 0
<1>1. \A p \in PageIds : p \in Nat /\ p # 0
  BY PageAssumption DEF PageIds
<1>2. /\ DOMAIN cache \subseteq PageIds /\ DOMAIN file \subseteq PageIds
      /\ \A k \in DOMAIN index : index[k] \in PageIds
  BY PartialIs DEF TypeOK, Tree
<1>3. /\ nextId \in Nat /\ counter \in Nat /\ root \in Nat /\ buffered \in Nat \cup {None}
      /\ meta \in Nat \cup {Torn, Absent}
  BY PageAssumption DEF TypeOK
<1>4. Count \in Nat
  BY <1>3 DEF Count
<1> QED
  BY <1>1, <1>2, <1>3, <1>4, PageAssumption

LEMMA TreeNumbers ==
  ASSUME NEW t \in Tree
  PROVE  \A k \in DOMAIN t : t[k] \in PageIds /\ t[k] \in Nat /\ t[k] # 0
<1>1. \A k \in DOMAIN t : t[k] \in PageIds
  BY PartialIs DEF Tree
<1> QED
  BY <1>1, PageAssumption DEF PageIds

LEMMA LoadsIs ==
  ASSUME TypeOK, NEW t \in Tree
  PROVE  Loads(t) <=> meta \notin {0, Torn, Absent} /\ meta \in DOMAIN file /\ file[meta] = Node(t)
<1>1. meta \notin {0, Torn, Absent} => meta \in Nat
  BY Numbers
<1>2. Node(t) # Blank
  BY ContentIs
<1> QED
  BY <1>1, <1>2, Numbers DEF Loads, FilePage, InFile

LEMMA OneTree ==
  ASSUME NEW t \in Tree, NEW u \in Tree, Loads(t), Loads(u)
  PROVE  t = u
BY ContentIs DEF Loads

LEMMA SeekKeepsCount ==
  ASSUME TypeOK, Seek
  PROVE  Count' = Count /\ (~failed => buffered' = None) /\ (failed => buffered' = buffered)
BY Numbers DEF Seek, Count

\* What a start reads, and the tree it saves at once.
LEMMA StartRead ==
  ASSUME TypeOK, PageInv, Start
  PROVE  \E t \in Tree :
           /\ index' = t /\ ((meta = 0 /\ t = Empty) \/ Loads(t)) /\ meta \notin {Torn, Absent}
           /\ \A k \in DOMAIN t : InFile(t[k]) /\ t[k] <= Count
           /\ meta <= Count \/ meta = 0
           /\ Injective(t) /\ Count = counter /\ ~failed /\ ~failed' /\ Count' = Count
           /\ \E pages :
                /\ SaveTree(t, pages, counter)
                /\ \A p \in DOMAIN pages : p <= Count /\ pages[p] = FilePage(p)
                /\ \A k \in DOMAIN t : t[k] \in DOMAIN pages
<1>1. PICK t \in Tree :
        /\ index' = t
        /\ (meta = 0 /\ t = Empty) \/ (Loads(t) /\ \A k \in DOMAIN t : InFile(t[k]))
        /\ SaveTree(t, [p \in {t[k] : k \in DOMAIN t} \cup ({meta} \ {0}) |-> FilePage(p)], counter)
  BY DEF Start
<1> DEFINE ids == {t[k] : k \in DOMAIN t} \cup ({meta} \ {0})
           pages == [p \in ids |-> FilePage(p)]
<1>2. ~failed /\ buffered = None /\ failed' = failed /\ buffered' = buffered /\ counter' = counter
      /\ meta \notin {Torn, Absent}
  BY DEF Start, Down, PageInv, AtRest, Running, files
<1>3. Count = counter /\ Count' = Count
  BY <1>2 DEF Count
<1>4. DOMAIN Empty = {}
  BY EmptyPartial
<1>5. Injective(t) /\ (\A k \in DOMAIN t : InFile(t[k]) /\ t[k] <= Count) /\ (meta <= Count \/ meta = 0)
  <2>1. CASE meta = 0 /\ t = Empty
    BY <1>4, <2>1 DEF Injective
  <2>2. CASE Loads(t) /\ \A k \in DOMAIN t : InFile(t[k])
    BY <2>2 DEF PageInv, LiveBelow
  <2> QED
    BY <1>1, <2>1, <2>2
<1>6. \A p \in ids : p <= Count
  BY <1>5
<1>7. SaveTree(t, pages, counter) /\ DOMAIN pages = ids /\ \A p \in ids : pages[p] = FilePage(p)
  BY <1>1
<1>8. \A k \in DOMAIN t : t[k] \in ids
  OBVIOUS
<1> HIDE DEF pages, ids
<1> QED
  BY <1>1, <1>2, <1>3, <1>5, <1>6, <1>7, <1>8

\* The writing of one page changes no other, and no counted one.
LEMMA WrittenPage ==
  ASSUME TypeOK, PageInv, NEW p \in PageIds, WritePage(p)
  PROVE  /\ p \in DOMAIN cache /\ ~failed /\ Running /\ Count' = Count
         /\ DOMAIN file' = DOMAIN file \cup {p}
         /\ \A q : FilePage(q)' = IF q = p THEN cache[p] ELSE FilePage(q)
         /\ \A q : InFile(q) => InFile(q)'
         /\ \A q \in PageIds : q <= Count => FilePage(q)' = FilePage(q)
         /\ \A t \in Tree : Loads(t)' <=> Loads(t)
<1>1. p \in DOMAIN cache /\ ~failed /\ Running /\ Count' = Count
  BY SeekKeepsCount DEF WritePage, Running
<1>2. DOMAIN file' = DOMAIN file \cup {p} /\ file'[p] = cache[p]
      /\ \A q \in DOMAIN file : q # p => file'[q] = file[q]
  BY DEF WritePage, Put
<1>3. \A q : FilePage(q)' = IF q = p THEN cache[p] ELSE FilePage(q)
  BY <1>2 DEF FilePage
<1>4. \A q : InFile(q) => InFile(q)'
  BY <1>2 DEF InFile
<1>5. \A q \in PageIds : q <= Count => FilePage(q)' = FilePage(q)
  BY <1>1, <1>3 DEF PageInv, CacheClean
<1>6. meta' = meta
  BY DEF WritePage
<1>7. ASSUME NEW t \in Tree PROVE Loads(t)' <=> Loads(t)
  <2>1. CASE meta \in {0, Torn, Absent}
    BY <1>6, <2>1 DEF Loads
  <2>2. CASE meta \notin {0, Torn, Absent}
    <3>1. PICK u \in Tree : Loads(u)
      BY <1>1, <2>2 DEF PageInv, MetaLoads
    <3>2. meta <= Count /\ meta \in PageIds
      BY <2>2, <3>1, PageAssumption DEF PageInv, LiveBelow, TypeOK, PageIds
    <3>3. FilePage(meta)' = FilePage(meta)
      BY <1>5, <1>6, <3>2 DEF FilePage
    <3>4. InFile(meta)' /\ InFile(meta)
      BY <1>4, <1>6, <3>1 DEF Loads, InFile
    <3> QED
      BY <1>6, <2>2, <3>3, <3>4 DEF Loads
  <2> QED
    BY <2>1, <2>2
<1> QED
  BY <1>1, <1>2, <1>3, <1>4, <1>5, <1>7

\* The tree of a save gets a page id above all others.
LEMMA SavedTree ==
  ASSUME NEW t \in Tree, NEW pages, NEW last \in Nat, SaveTree(t, pages, last)
  PROVE  \/ t = Empty /\ root' = 0 /\ nextId' = last /\ cache' = pages
         \/ /\ t # Empty /\ root' = last + 1 /\ nextId' = last + 1
            /\ DOMAIN cache' = DOMAIN pages \cup {root'} /\ cache'[root'] = Node(t)
            /\ \A p \in DOMAIN pages : p # root' => cache'[p] = pages[p]
BY DEF SaveTree, Put

\* The operations on keys: they change no file, and fresh pages have fresh ids.
Fresh ==
  /\ UNCHANGED <<failed, buffered, files, phase, root, kills, saved>> /\ phase = "up"
  /\ nextId <= nextId'
  /\ \A p \in DOMAIN cache' :
       (p \in DOMAIN cache /\ cache'[p] = cache[p]) \/ (p = nextId + 1 /\ nextId' = p)

LEMMA KeyStep ==
  ASSUME TypeOK, NEW k \in Keys,
         (\E v \in Values : Insert(k, v)) \/ InsertTooLarge(k) \/ Remove(k)
  PROVE  Fresh /\ (oversized => oversized')
<1>0. nextId \in Nat
  BY Numbers
<1>1. /\ DOMAIN GivenUp(k) \subseteq DOMAIN cache
      /\ \A p \in DOMAIN GivenUp(k) : GivenUp(k)[p] = cache[p]
  BY DEF GivenUp, Without, Restrict
<1>2. ASSUME NEW v \in Values, Insert(k, v) PROVE Fresh
  BY <1>0, <1>1, <1>2 DEF Insert, Fresh, Put
<1>3. ASSUME InsertTooLarge(k) PROVE Fresh
  BY <1>0, <1>1, <1>3 DEF InsertTooLarge, Fresh, Put
<1>4. ASSUME Remove(k) PROVE Fresh
  BY <1>0, <1>4 DEF Remove, Fresh, Without, Restrict
<1>5. oversized => oversized'
  <2>1. CASE (\E v \in Values : Insert(k, v)) \/ Remove(k)
    BY <2>1 DEF Insert, Remove
  <2>2. CASE InsertTooLarge(k)
    BY <2>2, Zenon DEF InsertTooLarge
  <2> QED
    BY <2>1, <2>2
<1> QED
  BY <1>2, <1>3, <1>4, <1>5

-----------------------------------------------------------------------------
(* Every part of the invariant is kept *)

LEMMA InitInv == Init => PageInv
<1> SUFFICES ASSUME Init PROVE PageInv
  OBVIOUS
<1>1. DOMAIN Empty = {}
  BY EmptyPartial
<1>2. IdsBelow /\ AtRest /\ CacheClean /\ FailedIsPast /\ SavePending /\ MetaLoads /\ ReadsBack
  BY <1>1 DEF Init, IdsBelow, AtRest, CacheClean, FailedIsPast, SavePending, MetaLoads, ReadsBack,
              Running, Alive, Injective
<1>3. LiveBelow /\ MetaPhase /\ Recoverable
  BY PageAssumption DEF Init, LiveBelow, Loads, MetaPhase, Recoverable, Holds
<1> QED
  BY <1>2, <1>3 DEF PageInv

LEMMA NextIds == TypeOK /\ PageInv /\ [Next]_vars => IdsBelow'
<1> SUFFICES ASSUME TypeOK, PageInv, [Next]_vars PROVE IdsBelow'
  OBVIOUS
<1> USE DEF Injective
<1>0. IdsBelow /\ nextId \in Nat /\ Count \in Nat /\ counter \in Nat
      /\ \A k \in DOMAIN index : index[k] \in Nat
  BY Numbers DEF PageInv
<1>e. DOMAIN Empty = {}
  BY EmptyPartial
<1>1. ASSUME NEW k \in Keys, NEW v \in Values, Insert(k, v) PROVE IdsBelow'
  <2>1. Fresh /\ nextId' = nextId + 1 /\ index' = Put(index, k, nextId + 1)
    BY <1>1, KeyStep DEF Insert
  <2>2. DOMAIN index' = DOMAIN index \cup {k} /\ index'[k] = nextId + 1
        /\ \A j \in DOMAIN index : j # k => index'[j] = index[j]
    BY <2>1 DEF Put
  <2>3. Running /\ \A j \in DOMAIN index : index[j] <= nextId
    BY <1>0, <2>1 DEF Fresh, Running, IdsBelow
  <2>4. \A j \in DOMAIN index' : index'[j] <= nextId'
    BY <1>0, <2>1, <2>2, <2>3
  <2>5. Injective(index')
    BY <1>0, <2>2, <2>3 DEF IdsBelow
  <2>6. Count' <= nextId'
    <3>1. Count' = Count /\ Count <= nextId
      BY <1>0, <2>1, <2>3 DEF Fresh, IdsBelow, Count, files
    <3> QED
      BY <1>0, <2>1, <3>1
  <2>7. \A p \in DOMAIN cache' : p <= nextId'
    BY <1>0, <2>1, <2>3, Numbers DEF Fresh, IdsBelow
  <2> QED
    BY <2>4, <2>5, <2>6, <2>7 DEF IdsBelow
<1>2. ASSUME NEW k \in Keys, InsertTooLarge(k) \/ Remove(k) PROVE IdsBelow'
  <2>1. Fresh
    BY <1>2, KeyStep
  <2>2. DOMAIN index' \subseteq DOMAIN index /\ \A j \in DOMAIN index' : index'[j] = index[j]
    BY <1>2 DEF InsertTooLarge, Remove, Without, Restrict
  <2>3. nextId' \in Nat
    BY <1>0, <1>2 DEF InsertTooLarge, Remove
  <2>4. Running /\ Count' = Count /\ nextId <= nextId'
    BY <2>1 DEF Fresh, Running, Count, files
  <2>5. \A p \in DOMAIN cache' : p <= nextId'
    BY <1>0, <2>1, <2>3, <2>4, Numbers DEF Fresh, IdsBelow
  <2> QED
    BY <1>0, <2>2, <2>3, <2>4, <2>5 DEF IdsBelow
<1>3. ASSUME NEW k \in Keys, Find(k) PROVE IdsBelow'
  <2>1. Running /\ Count' = Count /\ index' = index /\ nextId' = nextId
    BY <1>3, SeekKeepsCount DEF Find, Running
  <2>2. DOMAIN cache' \subseteq DOMAIN cache \cup {index[k]} /\ k \in DOMAIN index
    BY <1>3 DEF Find, Put
  <2> QED
    BY <1>0, <2>1, <2>2 DEF IdsBelow
<1>4. CASE BeginSave
  <2>1. index \in Tree /\ SaveTree(index, cache, nextId) /\ index' = index /\ Running /\ Count' = Count
    BY <1>4 DEF BeginSave, TypeOK, Running, Count, files
  <2>2. nextId <= nextId' /\ nextId' \in Nat /\ DOMAIN cache' \subseteq DOMAIN cache \cup {nextId'}
    <3>1. \/ nextId' = nextId /\ cache' = cache
          \/ /\ nextId' = nextId + 1 /\ root' = nextId + 1
             /\ DOMAIN cache' = DOMAIN cache \cup {root'}
      BY <1>0, <2>1, SavedTree
    <3> QED
      BY <1>0, <3>1
  <2> QED
    BY <1>0, <2>1, <2>2, Numbers DEF IdsBelow
<1>5. ASSUME NEW p \in PageIds, WritePage(p) PROVE IdsBelow'
  BY <1>0, <1>5, WrittenPage DEF WritePage, IdsBelow
<1>6. CASE EndFlush
  <2>1. Running /\ cache' = Empty /\ index' = index /\ nextId' = nextId
        /\ (Count' = nextId \/ Count' = Count)
    BY <1>0, <1>6, Numbers DEF EndFlush, Running, Count, PageInv, FailedIsPast
  <2> QED
    BY <1>0, <1>e, <2>1 DEF IdsBelow
<1>7. CASE CreateTable
  <2>1. index' = Empty /\ cache' = Empty /\ nextId' = counter /\ Count' = counter
    BY <1>7 DEF CreateTable, SaveTree, PageInv, AtRest, Alive, Running, Count, files
  <2> QED
    BY <1>0, <1>e, <2>1 DEF IdsBelow
<1>8. CASE DropTable
  <2>1. Running /\ index' = Empty /\ cache' = cache /\ nextId' = nextId /\ Count' = Count
    BY <1>8 DEF DropTable, Running, Count, files
  <2> QED
    BY <1>0, <1>e, <2>1 DEF IdsBelow
<1>9. CASE Start
  <2>1. PICK t \in Tree :
          /\ index' = t /\ Injective(t) /\ Count' = counter /\ Count = counter
          /\ \A k \in DOMAIN t : t[k] <= Count
          /\ \E pages : /\ SaveTree(t, pages, counter)
                        /\ \A p \in DOMAIN pages : p <= Count
    BY <1>9, StartRead
  <2>2. PICK pages : SaveTree(t, pages, counter) /\ \A p \in DOMAIN pages : p <= Count
    BY <2>1
  <2>3. counter <= nextId' /\ nextId' \in {counter, counter + 1}
        /\ DOMAIN cache' \subseteq DOMAIN pages \cup {nextId'}
    <3>1. \/ nextId' = counter /\ cache' = pages
          \/ /\ nextId' = counter + 1 /\ root' = counter + 1
             /\ DOMAIN cache' = DOMAIN pages \cup {root'}
      BY <1>0, <2>2, SavedTree
    <3> QED
      BY <1>0, <3>1
  <2>4. \A k \in DOMAIN t : t[k] \in Nat
    BY TreeNumbers
  <2>5. \A p \in DOMAIN cache' : p \in Nat /\ p <= nextId'
    <3>1. TypeOK'
      BY NextType
    <3>2. \A p \in DOMAIN cache' : p \in PageIds
      BY <3>1, PartialIs DEF TypeOK
    <3> QED
      BY <1>0, <2>1, <2>2, <2>3, <3>2, PageAssumption DEF PageIds
  <2> QED
    BY <1>0, <2>1, <2>3, <2>4, <2>5 DEF IdsBelow
<1>10. CASE UNCHANGED <<index, cache, nextId, buffered, counter>> /\ (Running' => Running)
  BY <1>0, <1>10 DEF IdsBelow, Count
<1>11. CASE CloseFile \/ Kill \/ RemoveFile
  <2>1. Injective(index') /\ ~Running'
    BY <1>0, <1>e, <1>11 DEF CloseFile, Kill, RemoveFile, Running, IdsBelow, memory
  <2> QED
    BY <2>1 DEF IdsBelow
<1>12. CASE EmptyMeta \/ WriteMeta \/ RemoveMeta \/ StartWithoutMeta \/ StartWithoutTable \/ StartFails
            \/ UNCHANGED vars
  <2>1. UNCHANGED <<index, cache, nextId, buffered, counter>> /\ (Running' => Running)
    BY <1>12 DEF EmptyMeta, WriteMeta, RemoveMeta, StartWithoutMeta, StartWithoutTable, StartFails,
                 vars, memory, files, Running
  <2> QED
    BY <1>10, <2>1
<1> QED
  BY <1>1, <1>2, <1>3, <1>4, <1>5, <1>6, <1>7, <1>8, <1>9, <1>11, <1>12 DEF Next

LEMMA NextAtRest == TypeOK /\ PageInv /\ [Next]_vars => AtRest'
<1> SUFFICES ASSUME TypeOK, PageInv, [Next]_vars PROVE AtRest'
  OBVIOUS
<1> USE DEF Alive, Running, AtRest
<1>0. AtRest
  BY DEF PageInv
<1>1. CASE \E k \in Keys : (\E v \in Values : Insert(k, v)) \/ InsertTooLarge(k) \/ Remove(k)
  <2>1. Fresh
    BY <1>1, KeyStep
  <2> QED
    BY <2>1 DEF Fresh
<1>2. CASE (\E k \in Keys : Find(k)) \/ \E p \in PageIds : WritePage(p)
  BY <1>0, <1>2 DEF Find, WritePage
<1>3. CASE BeginSave \/ EndFlush \/ EmptyMeta \/ WriteMeta \/ CreateTable \/ Start
  BY <1>3 DEF BeginSave, EndFlush, EmptyMeta, WriteMeta, CreateTable, Start
<1>4. CASE DropTable \/ CloseFile \/ Kill
  BY <1>0, <1>4 DEF DropTable, CloseFile, Kill
<1>5. CASE RemoveFile \/ RemoveMeta \/ StartWithoutMeta \/ StartWithoutTable \/ StartFails
  <2>1. UNCHANGED <<index, failed, buffered>> /\ ~Running /\ phase' \notin {"up", "flushing", "flushed", "naming", "closing"}
    BY <1>5 DEF RemoveFile, RemoveMeta, StartWithoutMeta, StartWithoutTable, StartFails, Down, memory
  <2> QED
    BY <1>0, <2>1
<1>6. CASE UNCHANGED vars
  BY <1>0, <1>6 DEF vars
<1> QED
  BY <1>1, <1>2, <1>3, <1>4, <1>5, <1>6 DEF Next

LEMMA NextCacheClean == TypeOK /\ PageInv /\ [Next]_vars => CacheClean'
<1> SUFFICES ASSUME TypeOK, PageInv, [Next]_vars PROVE CacheClean'
  OBVIOUS
<1>0. CacheClean /\ IdsBelow /\ nextId \in Nat /\ Count \in Nat /\ counter \in Nat
  BY Numbers DEF PageInv
<1>e. DOMAIN Empty = {}
  BY EmptyPartial
<1>1. CASE \E k \in Keys : (\E v \in Values : Insert(k, v)) \/ InsertTooLarge(k) \/ Remove(k)
  <2>1. Fresh
    BY <1>1, KeyStep
  <2>2. Running /\ Count' = Count /\ \A p : FilePage(p)' = FilePage(p)
    BY <2>1 DEF Fresh, files, Count, FilePage, Running
  <2>3. ~(nextId + 1 <= Count)
    BY <1>0, <2>2 DEF IdsBelow
  <2> QED
    BY <1>0, <2>1, <2>2, <2>3 DEF CacheClean, Fresh
<1>2. ASSUME NEW k \in Keys, Find(k) PROVE CacheClean'
  <2>1. Running /\ Count' = Count /\ \A p : FilePage(p)' = FilePage(p)
    BY <1>2, SeekKeepsCount DEF Find, FilePage, Running
  <2>2. \A p \in DOMAIN cache' : (p \in DOMAIN cache /\ cache'[p] = cache[p]) \/ cache'[p] = FilePage(p)
    BY <1>2 DEF Find, Put
  <2> QED
    BY <1>0, <2>1, <2>2 DEF CacheClean
<1>3. CASE BeginSave
  <2>1. /\ index \in Tree /\ SaveTree(index, cache, nextId) /\ Running /\ Count' = Count
        /\ \A p : FilePage(p)' = FilePage(p)
    BY <1>3 DEF BeginSave, TypeOK, Running, Count, files, FilePage
  <2>2. \A p \in DOMAIN cache' : (p \in DOMAIN cache /\ cache'[p] = cache[p]) \/ p = nextId + 1
    <3>1. \/ cache' = cache
          \/ /\ DOMAIN cache' = DOMAIN cache \cup {root'} /\ root' = nextId + 1
             /\ \A p \in DOMAIN cache : p # root' => cache'[p] = cache[p]
      BY <1>0, <2>1, SavedTree
    <3> QED
      BY <3>1
  <2>3. ~(nextId + 1 <= Count)
    BY <1>0, <2>1 DEF IdsBelow
  <2> QED
    BY <1>0, <2>1, <2>2, <2>3 DEF CacheClean
<1>4. ASSUME NEW p \in PageIds, WritePage(p) PROVE CacheClean'
  <2>1. /\ Running /\ Count' = Count
        /\ \A q : FilePage(q)' = IF q = p THEN cache[p] ELSE FilePage(q)
    BY <1>4, WrittenPage
  <2>2. cache' = cache
    BY <1>4 DEF WritePage
  <2> QED
    BY <1>0, <2>1, <2>2 DEF CacheClean
<1>5. CASE EndFlush \/ CreateTable
  <2>1. cache' = Empty
    BY <1>5 DEF EndFlush, CreateTable, SaveTree
  <2> QED
    BY <1>e, <2>1 DEF CacheClean
<1>6. CASE Start
  <2>1. PICK t \in Tree :
          /\ Count' = Count /\ Count = counter
          /\ \E pages : /\ SaveTree(t, pages, counter)
                        /\ \A p \in DOMAIN pages : pages[p] = FilePage(p)
    BY <1>6, StartRead
  <2>2. PICK pages : SaveTree(t, pages, counter) /\ \A p \in DOMAIN pages : pages[p] = FilePage(p)
    BY <2>1
  <2>3. \A p \in DOMAIN cache' : (p \in DOMAIN pages /\ cache'[p] = pages[p]) \/ p = counter + 1
    <3>1. \/ cache' = pages
          \/ /\ DOMAIN cache' = DOMAIN pages \cup {root'} /\ root' = counter + 1
             /\ \A p \in DOMAIN pages : p # root' => cache'[p] = pages[p]
      BY <1>0, <2>2, SavedTree
    <3> QED
      BY <3>1
  <2>4. \A p : FilePage(p)' = FilePage(p)
    BY <1>6 DEF Start, files, FilePage
  <2>5. ~(counter + 1 <= Count)
    BY <1>0, <2>1
  <2> QED
    BY <2>1, <2>2, <2>3, <2>4, <2>5 DEF CacheClean
<1>7. CASE EmptyMeta \/ WriteMeta \/ DropTable \/ UNCHANGED vars
  <2>1. Count' = Count /\ cache' = cache /\ (\A p : FilePage(p)' = FilePage(p)) /\ (Running' => Running)
    BY <1>7 DEF EmptyMeta, WriteMeta, DropTable, vars, memory, files, Count, FilePage, Running
  <2> QED
    BY <1>0, <2>1 DEF CacheClean
<1>8. CASE CloseFile \/ Kill \/ RemoveFile \/ RemoveMeta \/ StartWithoutMeta \/ StartWithoutTable
           \/ StartFails
  <2>1. ~Running'
    BY <1>8 DEF CloseFile, Kill, RemoveFile, RemoveMeta, StartWithoutMeta, StartWithoutTable,
                StartFails, Running
  <2> QED
    BY <2>1 DEF CacheClean
<1> QED
  BY <1>1, <1>2, <1>3, <1>4, <1>5, <1>6, <1>7, <1>8 DEF Next

LEMMA NextFailed == TypeOK /\ PageInv /\ [Next]_vars => FailedIsPast'
<1> SUFFICES ASSUME TypeOK, PageInv, [Next]_vars PROVE FailedIsPast'
  OBVIOUS
<1>0. FailedIsPast /\ AtRest /\ nextId \in Nat /\ \A p \in DOMAIN file : p \in Nat
  BY Numbers DEF PageInv
<1>1. CASE \E k \in Keys : (\E v \in Values : Insert(k, v)) \/ InsertTooLarge(k) \/ Remove(k)
  <2>1. Fresh /\ (oversized => oversized')
    BY <1>1, KeyStep
  <2>2. nextId' \in Nat
    BY <1>0, <1>1 DEF Insert, InsertTooLarge, Remove
  <2> QED
    BY <1>0, <2>1, <2>2 DEF FailedIsPast, Fresh, files
<1>2. ASSUME NEW k \in Keys, Find(k) PROVE FailedIsPast'
  <2>1. UNCHANGED <<file, nextId, oversized>> /\ Alive /\ k \in DOMAIN index
        /\ index[k] \notin DOMAIN cache /\ (~failed => buffered' = None)
        /\ (failed => buffered' = buffered)
    BY <1>2, SeekKeepsCount DEF Find, Alive
  <2>2. CASE failed
    BY <1>0, <2>1, <2>2 DEF FailedIsPast
  <2>3. CASE ~failed /\ failed'
    <3>1. ~InFile(index[k]) /\ ~Readable(index[k])
      BY <1>2, <2>1, <2>3 DEF Find, Readable
    <3>2. oversized
      BY <2>1, <3>1 DEF PageInv, ReadsBack
    <3>3. index[k] \in Nat /\ index[k] <= nextId
      BY <2>1, Numbers DEF PageInv, IdsBelow, Alive, Running
    <3>4. \A p \in DOMAIN file : p < nextId
      BY <1>0, <3>1, <3>3 DEF InFile
    <3> QED
      BY <2>1, <2>3, <3>2, <3>4 DEF FailedIsPast
  <2>4. CASE ~failed'
    BY <2>4 DEF FailedIsPast
  <2> QED
    BY <2>2, <2>3, <2>4
<1>3. CASE BeginSave
  <2>1. SaveTree(index, cache, nextId) /\ index \in Tree /\ UNCHANGED <<failed, buffered, file, oversized>>
    BY <1>3 DEF BeginSave, TypeOK, files
  <2>2. nextId' = nextId \/ nextId' = nextId + 1
    BY <1>0, <2>1, SavedTree
  <2> QED
    BY <1>0, <2>1, <2>2 DEF FailedIsPast
<1>4. ASSUME NEW p \in PageIds, WritePage(p) PROVE FailedIsPast'
  BY <1>4 DEF WritePage, FailedIsPast
<1>5. CASE EndFlush \/ EmptyMeta \/ WriteMeta \/ DropTable \/ UNCHANGED vars
  <2>1. /\ UNCHANGED <<failed, file, nextId, oversized>>
        /\ failed => buffered' = buffered
    BY <1>5 DEF EndFlush, EmptyMeta, WriteMeta, DropTable, vars, memory, files
  <2> QED
    BY <1>0, <2>1 DEF FailedIsPast
<1>6. CASE CloseFile \/ Kill
  BY <1>6 DEF CloseFile, Kill, FailedIsPast
<1>7. CASE CreateTable \/ RemoveFile \/ RemoveMeta \/ StartWithoutMeta \/ StartWithoutTable
           \/ StartFails \/ Start
  <2>1. failed' = failed /\ ~Running
    BY <1>7 DEF CreateTable, RemoveFile, RemoveMeta, StartWithoutMeta, StartWithoutTable, StartFails,
                Start, Down, memory, Running
  <2> QED
    BY <1>0, <2>1 DEF FailedIsPast, AtRest
<1> QED
  BY <1>1, <1>2, <1>3, <1>4, <1>5, <1>6, <1>7 DEF Next

LEMMA NextSavePending == TypeOK /\ PageInv /\ [Next]_vars => SavePending'
<1> SUFFICES ASSUME TypeOK, PageInv, [Next]_vars PROVE SavePending'
  OBVIOUS
<1>0. SavePending /\ IdsBelow /\ FailedIsPast /\ nextId \in Nat /\ counter \in Nat
      /\ \A p \in DOMAIN file : p \in Nat /\ p # 0
  BY Numbers DEF PageInv
<1>1. CASE phase' \notin {"flushing", "flushed", "naming"}
  BY <1>1 DEF SavePending
<1>2. CASE BeginSave
  <2>1. /\ SaveTree(index, cache, nextId) /\ index \in Tree /\ phase' = "flushing"
        /\ UNCHANGED <<index, failed, file>>
    BY <1>2 DEF BeginSave, TypeOK, files
  <2>2. failed => nextId + 1 \notin DOMAIN file
    BY <1>0 DEF FailedIsPast
  <2>3. \/ index = Empty /\ root' = 0 /\ nextId' = nextId
        \/ /\ root' = nextId + 1 /\ nextId' = nextId + 1
           /\ root' \in DOMAIN cache' /\ cache'[root'] = Node(index)
    BY <1>0, <2>1, SavedTree
  <2> QED
    BY <1>0, <2>1, <2>2, <2>3 DEF SavePending
<1>3. CASE CreateTable
  <2>1. index = Empty
    BY <1>3 DEF PageInv, AtRest, CreateTable, Alive
  <2>2. root' = 0 /\ nextId' = counter /\ index' = Empty /\ phase' = "flushing" /\ file' = file
    BY <1>3, <2>1 DEF CreateTable, SaveTree, files
  <2> QED
    BY <1>0, <2>2 DEF SavePending
<1>4. CASE Start
  <2>1. PICK t \in Tree : index' = t /\ ~failed' /\ \E pages : SaveTree(t, pages, counter)
    BY <1>4, StartRead
  <2>2. PICK pages : SaveTree(t, pages, counter)
    BY <2>1
  <2>3. phase' = "flushing"
    BY <1>4 DEF Start
  <2>4. \/ t = Empty /\ root' = 0 /\ nextId' = counter
        \/ /\ root' = counter + 1 /\ nextId' = counter + 1
           /\ root' \in DOMAIN cache' /\ cache'[root'] = Node(t)
    BY <1>0, <2>2, SavedTree
  <2> QED
    BY <1>0, <2>1, <2>3, <2>4 DEF SavePending
<1>5. ASSUME NEW p \in PageIds, WritePage(p), phase = "flushing" PROVE SavePending'
  <2>1. UNCHANGED <<phase, root, nextId, index, cache, failed>> /\ ~failed
    BY <1>5 DEF WritePage
  <2> QED
    BY <1>0, <1>5, <2>1 DEF SavePending
<1>6. CASE EndFlush
  <2>1. /\ UNCHANGED <<root, nextId, index, failed, file>> /\ phase = "flushing" /\ phase' = "flushed"
        /\ cache' = Empty
        /\ ~failed => Count' = nextId /\ \A p \in DOMAIN cache : p \in DOMAIN file /\ file[p] = cache[p]
    BY <1>6, Numbers DEF EndFlush, Count
  <2>2. root \in Nat
    BY Numbers
  <2> QED
    BY <1>0, <2>1, <2>2 DEF SavePending
<1>7. CASE EmptyMeta \/ UNCHANGED vars
  <2>1. UNCHANGED <<index, cache, nextId, failed, file, root, buffered, counter>>
        /\ (phase' = phase \/ (phase = "flushed" /\ phase' = "naming"))
    <3>1. CASE EmptyMeta
      BY <3>1 DEF EmptyMeta, memory
    <3>2. CASE UNCHANGED vars
      BY <3>2 DEF vars
    <3> QED
      BY <1>7, <3>1, <3>2
  <2>2. Count' = Count
    BY <2>1 DEF Count
  <2> QED
    BY <1>0, <2>1, <2>2 DEF SavePending
<1>8. ASSUME phase' \in {"flushing", "flushed", "naming"}
      PROVE  BeginSave \/ CreateTable \/ Start \/ EndFlush \/ EmptyMeta \/ UNCHANGED vars
             \/ \E p \in PageIds : WritePage(p) /\ phase = "flushing"
  BY <1>8 DEF Next, Insert, InsertTooLarge, Remove, Find, WritePage, WriteMeta, DropTable, CloseFile,
     RemoveFile, RemoveMeta, Kill, StartWithoutMeta, StartWithoutTable, StartFails
<1> QED
  BY <1>1, <1>2, <1>3, <1>4, <1>5, <1>6, <1>7, <1>8

\* The steps that leave the files alone.
LEMMA SameFiles ==
  ASSUME UNCHANGED <<file, meta>>
  PROVE  /\ \A p : (FilePage(p)' = FilePage(p)) /\ (InFile(p)' <=> InFile(p))
         /\ \A t \in Tree : Loads(t)' <=> Loads(t)
<1>1. \A p : (FilePage(p)' = FilePage(p)) /\ (InFile(p)' <=> InFile(p))
  BY DEF FilePage, InFile
<1>2. \A t \in Tree : Loads(t)' <=> Loads(t)
  BY DEF Loads, FilePage, InFile
<1> QED
  BY <1>1, <1>2

\* The .meta file names the tree of the save that ends, if it has keys.
LEMMA NamedTree ==
  ASSUME TypeOK, PageInv, WriteMeta
  PROVE  /\ meta' = root /\ root \in Nat /\ Count' = Count /\ index \in Tree /\ cache = Empty
         /\ root = 0 => index = Empty
         /\ failed => \A t \in Tree : ~Loads(t)'
         /\ ~failed => /\ Count = nextId /\ root <= nextId
                       /\ \A t \in Tree : Loads(t)' <=> (root # 0 /\ t = index)
<1>1. meta' = root /\ phase = "naming" /\ file' = file /\ Count' = Count
  BY DEF WriteMeta, memory, Count
<1>2. SavePending /\ index \in Tree /\ root \in Nat
  BY Numbers DEF PageInv, TypeOK
<1>3. TypeOK'
  BY NextType DEF Next
<1>4. Torn \notin Nat /\ Absent \notin Nat
  BY Numbers
<1>5. ASSUME NEW t \in Tree
      PROVE  Loads(t)' <=> root # 0 /\ root \in DOMAIN file /\ file[root] = Node(t)
  <2>1. 0 \notin DOMAIN file /\ \A p \in DOMAIN file : p \in Nat
    BY Numbers
  <2>2. root \in DOMAIN file <=> root \in DOMAIN file'
    BY <1>1
  <2>3. Node(t) # Blank
    BY ContentIs
  <2>4. Loads(t)' <=> /\ root \notin {0, Torn, Absent} /\ (\E q \in DOMAIN file : q >= root)
                      /\ (IF root \in DOMAIN file THEN file[root] ELSE Blank) = Node(t)
    BY <1>1 DEF Loads, InFile, FilePage
  <2> QED
    BY <1>2, <1>4, <2>1, <2>3, <2>4
<1>6. \A t \in Tree : Node(t) = Node(index) => t = index
  BY ContentIs
<1>7. failed => root \notin DOMAIN file
  BY <1>1, <1>2 DEF SavePending
<1>8. ~failed => Count = nextId /\ (root # 0 => root \in DOMAIN file /\ file[root] = Node(index))
  BY <1>1, <1>2 DEF SavePending
<1>9. root <= nextId /\ (root = 0 => index = Empty) /\ cache = Empty
  BY <1>1, <1>2 DEF SavePending
<1>10. failed => \A t \in Tree : ~Loads(t)'
  BY <1>5, <1>7
<1>11. ~failed => \A t \in Tree : Loads(t)' <=> (root # 0 /\ t = index)
  BY <1>5, <1>6, <1>8
<1> QED
  BY <1>1, <1>2, <1>8, <1>9, <1>10, <1>11

LEMMA NextLiveBelow == TypeOK /\ PageInv /\ [Next]_vars /\ ~KillBeforeCount => LiveBelow'
<1> SUFFICES ASSUME TypeOK, PageInv, [Next]_vars, ~KillBeforeCount PROVE LiveBelow'
  OBVIOUS
<1>0. LiveBelow /\ IdsBelow /\ FailedIsPast /\ nextId \in Nat /\ Count \in Nat /\ counter \in Nat
      /\ meta \in Nat \cup {Torn, Absent}
  BY Numbers DEF PageInv
<1>n. \A t \in Tree : \A k \in DOMAIN t : t[k] \in Nat
  BY TreeNumbers
<1>1. ASSUME UNCHANGED <<file, meta>>, Count' = Count PROVE LiveBelow'
  BY <1>0, <1>1, SameFiles DEF LiveBelow
<1>2. ASSUME UNCHANGED <<file, meta>>, Count' = nextId, Running PROVE LiveBelow'
  <2>1. ASSUME NEW t \in Tree, Loads(t)'
        PROVE  meta' <= Count' /\ Injective(t) /\ \A k \in DOMAIN t : t[k] <= Count'
    <3>1. Loads(t) /\ meta \in Nat
      BY <1>0, <1>2, <2>1, SameFiles DEF Loads
    <3>2. meta <= Count /\ Injective(t) /\ (\A k \in DOMAIN t : t[k] <= Count) /\ Count <= nextId
      BY <1>0, <1>2, <3>1 DEF LiveBelow, IdsBelow
    <3> QED
      BY <1>0, <1>2, <1>n, <3>1, <3>2
  <2> QED
    BY <2>1 DEF LiveBelow
<1>3. ASSUME \A t \in Tree : ~Loads(t)' PROVE LiveBelow'
  BY <1>3 DEF LiveBelow
<1>4. CASE \E k \in Keys : (\E v \in Values : Insert(k, v)) \/ InsertTooLarge(k) \/ Remove(k)
  <2>1. Fresh
    BY <1>4, KeyStep
  <2> QED
    BY <1>1, <2>1 DEF Fresh, files, Count
<1>5. CASE \E k \in Keys : Find(k)
  BY <1>1, <1>5, SeekKeepsCount DEF Find
<1>6. ASSUME NEW p \in PageIds, WritePage(p) PROVE LiveBelow'
  <2>1. Count' = Count /\ meta' = meta /\ \A t \in Tree : Loads(t)' <=> Loads(t)
    BY <1>6, WrittenPage DEF WritePage
  <2> QED
    BY <1>0, <2>1 DEF LiveBelow
<1>7. CASE BeginSave \/ CreateTable \/ DropTable \/ StartWithoutMeta \/ StartWithoutTable
           \/ StartFails \/ Start \/ UNCHANGED vars
  <2>1. UNCHANGED <<file, meta, buffered, counter>>
    BY <1>7 DEF BeginSave, CreateTable, DropTable, StartWithoutMeta, StartWithoutTable, StartFails,
                Start, vars, files, memory
  <2> QED
    BY <1>1, <2>1 DEF Count
<1>8. CASE EndFlush \/ CloseFile
  <2>1. UNCHANGED <<file, meta>> /\ Running
    BY <1>8 DEF EndFlush, CloseFile, Running
  <2>2. CASE failed
    <3>1. buffered = None
      BY <1>0, <2>2 DEF FailedIsPast
    <3>2. counter' = counter /\ buffered' = None
      BY <1>8, <2>2, <3>1 DEF EndFlush, CloseFile
    <3> QED
      BY <1>1, <2>1, <3>1, <3>2 DEF Count
  <2>3. CASE ~failed
    <3>1. Count' = nextId
      BY <1>0, <1>8, <2>3, Numbers DEF EndFlush, CloseFile, Count
    <3> QED
      BY <1>2, <2>1, <3>1
  <2> QED
    BY <2>2, <2>3
<1>9. CASE EmptyMeta \/ RemoveMeta
  <2>1. meta' \in {Torn, Absent}
    BY <1>9 DEF EmptyMeta, RemoveMeta
  <2> QED
    BY <1>3, <2>1 DEF Loads
<1>10. CASE RemoveFile
  <2>1. file' = Empty
    BY <1>10 DEF RemoveFile
  <2> QED
    BY <1>3, <2>1, EmptyPartial DEF Loads, InFile
<1>11. CASE WriteMeta
  <2>1. CASE failed
    BY <1>3, <1>11, <2>1, NamedTree
  <2>2. CASE ~failed
    <3>1. /\ meta' = root /\ Count' = nextId /\ root <= nextId
          /\ \A t \in Tree : Loads(t)' => t = index
      BY <1>11, <2>2, NamedTree
    <3>2. Injective(index) /\ \A k \in DOMAIN index : index[k] <= nextId
      BY <1>0, <1>11 DEF IdsBelow, WriteMeta, Running
    <3> QED
      BY <3>1, <3>2 DEF LiveBelow
  <2> QED
    BY <2>1, <2>2
<1>12. CASE Kill
  <2>1. UNCHANGED <<file, counter, meta>> /\ buffered' = None
    BY <1>12 DEF Kill, files
  <2>2. CASE meta = Torn
    BY <1>3, <2>1, <2>2 DEF Loads
  <2>3. CASE meta # Torn
    <3>1. buffered = None
      BY <1>12, <2>3 DEF Kill
    <3> QED
      BY <1>1, <2>1, <3>1 DEF Count
  <2> QED
    BY <2>2, <2>3
<1> QED
  BY <1>4, <1>5, <1>6, <1>7, <1>8, <1>9, <1>10, <1>11, <1>12 DEF Next

LEMMA NextMetaLoads == TypeOK /\ PageInv /\ [Next]_vars => MetaLoads'
<1> SUFFICES ASSUME TypeOK, PageInv, [Next]_vars PROVE MetaLoads'
  OBVIOUS
<1>0. MetaLoads
  BY DEF PageInv
<1>1. ASSUME UNCHANGED <<file, meta>>, failed => failed', Running' => Running PROVE MetaLoads'
  <2>1. \A t \in Tree : Loads(t)' <=> Loads(t)
    BY <1>1, SameFiles
  <2> QED
    BY <1>0, <1>1, <2>1 DEF MetaLoads
<1>2. CASE \E k \in Keys : (\E v \in Values : Insert(k, v)) \/ InsertTooLarge(k) \/ Remove(k)
  <2>1. Fresh
    BY <1>2, KeyStep
  <2> QED
    BY <1>1, <2>1 DEF Fresh, files, Running
<1>3. CASE \E k \in Keys : Find(k)
  BY <1>1, <1>3 DEF Find, Running
<1>4. ASSUME NEW p \in PageIds, WritePage(p) PROVE MetaLoads'
  <2>1. Running /\ ~failed /\ meta' = meta /\ \A t \in Tree : Loads(t)' <=> Loads(t)
    BY <1>4, WrittenPage DEF WritePage
  <2> QED
    BY <1>0, <2>1 DEF MetaLoads
<1>5. CASE BeginSave \/ EndFlush \/ DropTable \/ UNCHANGED vars
  <2>1. UNCHANGED <<file, meta, failed>> /\ (Running' => Running)
    BY <1>5 DEF BeginSave, EndFlush, DropTable, vars, files, Running
  <2> QED
    BY <1>1, <2>1
<1>6. CASE EmptyMeta
  BY <1>6 DEF EmptyMeta, MetaLoads
<1>7. CASE CreateTable
  <2>1. meta = Absent /\ meta' = meta
    BY <1>7 DEF CreateTable, files, PageInv, MetaPhase
  <2> QED
    BY <2>1 DEF MetaLoads
<1>8. CASE Start
  <2>1. PICK t \in Tree : meta = 0 \/ Loads(t)
    BY <1>8, StartRead
  <2>2. UNCHANGED <<file, meta>>
    BY <1>8 DEF Start, files
  <2>3. meta' = 0 \/ Loads(t)'
    BY <2>1, <2>2, SameFiles
  <2> QED
    BY <2>3 DEF MetaLoads
<1>9. CASE WriteMeta
  <2>1. failed' = failed
    BY <1>9 DEF WriteMeta, memory
  <2>2. meta' = root /\ (~failed /\ root # 0 => \E t \in Tree : Loads(t)')
    BY <1>9, NamedTree
  <2> QED
    BY <2>1, <2>2 DEF MetaLoads
<1>10. CASE CloseFile \/ Kill \/ RemoveFile \/ RemoveMeta \/ StartWithoutMeta \/ StartWithoutTable
            \/ StartFails
  <2>1. ~Running'
    BY <1>10 DEF CloseFile, Kill, RemoveFile, RemoveMeta, StartWithoutMeta, StartWithoutTable,
                 StartFails, Running
  <2> QED
    BY <2>1 DEF MetaLoads
<1> QED
  BY <1>2, <1>3, <1>4, <1>5, <1>6, <1>7, <1>8, <1>9, <1>10 DEF Next

LEMMA NextMetaPhase == TypeOK /\ PageInv /\ [Next]_vars => MetaPhase'
<1> SUFFICES ASSUME TypeOK, PageInv, [Next]_vars PROVE MetaPhase'
  OBVIOUS
<1>0. MetaPhase
  BY DEF PageInv
<1>1. CASE \E k \in Keys : (\E v \in Values : Insert(k, v)) \/ InsertTooLarge(k) \/ Remove(k)
  <2>1. Fresh /\ (oversized => oversized')
    BY <1>1, KeyStep
  <2>2. phase = "up" /\ UNCHANGED <<phase, meta, saved>>
    BY <2>1 DEF Fresh, files
  <2> QED
    BY <1>0, <2>1, <2>2 DEF MetaPhase
<1>2. CASE (\E k \in Keys : Find(k)) \/ \E p \in PageIds : WritePage(p)
  <2>1. UNCHANGED <<meta, phase, content, saved, oversized>> /\ phase \in {"up", "flushing", "closing"}
    BY <1>2 DEF Find, WritePage
  <2> QED
    BY <1>0, <2>1 DEF MetaPhase
<1>3. CASE BeginSave \/ EndFlush \/ CreateTable
  BY <1>0, <1>3 DEF BeginSave, EndFlush, CreateTable, files, MetaPhase
<1>4. CASE EmptyMeta
  BY <1>0, <1>4, Numbers DEF EmptyMeta, MetaPhase
<1>5. CASE DropTable \/ CloseFile \/ RemoveFile
  BY <1>0, <1>5 DEF DropTable, CloseFile, RemoveFile, files, MetaPhase
<1>6. CASE RemoveMeta
  BY <1>0, <1>6, Numbers DEF RemoveMeta, MetaPhase
<1>7. CASE Kill
  BY <1>0, <1>7 DEF Kill, files, Alive, MetaPhase
<1>8. CASE StartWithoutMeta \/ StartWithoutTable \/ StartFails
  BY <1>0, <1>8, Numbers DEF StartWithoutMeta, StartWithoutTable, StartFails, Down, files, MetaPhase
<1>9. CASE Start
  BY <1>0, <1>9 DEF Start, Down, files, MetaPhase
<1>10. CASE WriteMeta
  <2>1. meta' = root /\ root \in Nat /\ (root = 0 => index = Empty) /\ Torn \notin Nat /\ Absent \notin Nat
    BY <1>10, NamedTree, Numbers
  <2>2. saved' = content /\ phase' = "up" /\ phase = "naming" /\ oversized' = oversized
    BY <1>10 DEF WriteMeta
  <2>3. index = Empty /\ ~oversized => content = Empty
    <3>1. IsPartial(content, Keys, Values) /\ DOMAIN Empty = {}
      BY EmptyPartial DEF TypeOK
    <3>2. ~oversized => DOMAIN index = DOMAIN content
      BY <2>2 DEF PageInv, ReadsBack, Alive
    <3> QED
      BY <3>1, <3>2, NoKeys
  <2> QED
    BY <2>1, <2>2, <2>3 DEF MetaPhase
<1>11. CASE UNCHANGED vars
  BY <1>0, <1>11 DEF vars, MetaPhase
<1> QED
  BY <1>1, <1>2, <1>3, <1>4, <1>5, <1>6, <1>7, <1>8, <1>9, <1>10, <1>11 DEF Next

\* An operation on a key touches the page of the key and a fresh one.
LEMMA OtherPages ==
  ASSUME TypeOK, NEW k \in Keys,
         (\E v \in Values : Insert(k, v)) \/ InsertTooLarge(k) \/ Remove(k)
  PROVE  \A p : p # nextId + 1 /\ (k \in DOMAIN index => p # index[k]) =>
                  (Readable(p)' <=> Readable(p)) /\ PageOf(p)' = PageOf(p)
<1>1. Fresh
  BY KeyStep
<1>2. UNCHANGED <<file, failed>>
  BY <1>1 DEF Fresh, files
<1>3. \A p : p # nextId + 1 /\ (k \in DOMAIN index => p # index[k]) =>
               /\ p \in DOMAIN cache' <=> p \in DOMAIN cache
               /\ p \in DOMAIN cache => cache'[p] = cache[p]
  <2>1. \A p : (k \in DOMAIN index => p # index[k]) =>
               /\ p \in DOMAIN GivenUp(k) <=> p \in DOMAIN cache
               /\ p \in DOMAIN cache => GivenUp(k)[p] = cache[p]
    BY DEF GivenUp, Without, Restrict
  <2>2. ASSUME NEW v \in Values, Insert(k, v)
        PROVE  \E d : cache' = Put(GivenUp(k), nextId + 1, d)
    BY <2>2 DEF Insert
  <2>3. ASSUME InsertTooLarge(k)
        PROVE  \E d : cache' = Put(GivenUp(k), nextId + 1, d)
    BY <2>3 DEF InsertTooLarge
  <2>4. CASE \E d : cache' = Put(GivenUp(k), nextId + 1, d)
    BY <2>1, <2>4 DEF Put
  <2>5. CASE Remove(k)
    BY <2>5 DEF Remove, Without, Restrict
  <2> QED
    BY <2>2, <2>3, <2>4, <2>5
<1> QED
  BY <1>2, <1>3 DEF Readable, PageOf, InFile, FilePage

LEMMA NextReadsBack == TypeOK /\ PageInv /\ [Next]_vars => ReadsBack'
<1> SUFFICES ASSUME TypeOK, PageInv, [Next]_vars, Alive', ~oversized'
             PROVE  /\ DOMAIN index' = DOMAIN content'
                    /\ \A p, v : \A k \in DOMAIN content' : p = index'[k] /\ v = content'[k] =>
                         Readable(p)' /\ PageOf(p)' = Data(v)
  BY DEF ReadsBack, Readable, PageOf, InFile, FilePage
<1>0. IdsBelow /\ MetaPhase /\ nextId \in Nat /\ Count \in Nat /\ counter \in Nat
      /\ \A k \in DOMAIN index : index[k] \in Nat
  BY Numbers DEF PageInv
<1>b. Alive /\ ~oversized =>
        /\ DOMAIN index = DOMAIN content
        /\ \A k \in DOMAIN content : Readable(index[k]) /\ PageOf(index[k]) = Data(content[k])
  BY DEF PageInv, ReadsBack
<1>e. DOMAIN Empty = {}
  BY EmptyPartial
<1>f. ~failed'
  BY NextFailed DEF FailedIsPast
<1>i. Alive => Running /\ \A k \in DOMAIN index : index[k] <= nextId
  BY <1>0 DEF IdsBelow, Alive, Running
\* It is enough that the page of every key stays what it was.
<1>k. ASSUME Alive, ~oversized, UNCHANGED <<index, content>>,
             \A p : Readable(p) /\ (\E k \in DOMAIN index : p = index[k]) =>
               Readable(p)' /\ PageOf(p)' = PageOf(p)
      PROVE  /\ DOMAIN index' = DOMAIN content'
             /\ \A p, v : \A k \in DOMAIN content' : p = index'[k] /\ v = content'[k] =>
                  Readable(p)' /\ PageOf(p)' = Data(v)
  BY <1>b, <1>k
<1>1. CASE \E k \in Keys, v \in Values : Insert(k, v)
  <2>1. PICK k \in Keys, v \in Values : Insert(k, v)
    BY <1>1
  <2>2. /\ Alive /\ ~oversized /\ index' = Put(index, k, nextId + 1) /\ content' = Put(content, k, v)
        /\ cache' = Put(GivenUp(k), nextId + 1, Data(v))
    BY <2>1 DEF Insert, Alive
  <2>3. /\ DOMAIN index' = DOMAIN index \cup {k} /\ DOMAIN content' = DOMAIN content \cup {k}
        /\ index'[k] = nextId + 1 /\ content'[k] = v
        /\ \A j \in DOMAIN index : j # k => index'[j] = index[j]
        /\ \A j \in DOMAIN content : j # k => content'[j] = content[j]
        /\ nextId + 1 \in DOMAIN cache' /\ cache'[nextId + 1] = Data(v)
    BY <2>2 DEF Put
  <2>4. \A j \in DOMAIN index : /\ index[j] # nextId + 1
                                /\ j # k /\ k \in DOMAIN index => index[j] # index[k]
    BY <1>0, <1>i, <2>2 DEF IdsBelow, Injective
  <2>5. \A p : p # nextId + 1 /\ (k \in DOMAIN index => p # index[k]) =>
                 (Readable(p)' <=> Readable(p)) /\ PageOf(p)' = PageOf(p)
    BY <2>1, OtherPages
  <2>6. \A p : p = nextId + 1 => Readable(p)' /\ PageOf(p)' = Data(v)
    BY <2>3 DEF Readable, PageOf
  <2>7. DOMAIN index' = DOMAIN content'
    BY <1>b, <2>2, <2>3
  <2>8. ASSUME NEW j \in DOMAIN content', NEW p, NEW w, p = index'[j], w = content'[j]
        PROVE  Readable(p)' /\ PageOf(p)' = Data(w)
    <3>1. CASE j = k
      BY <2>3, <2>6, <2>8, <3>1
    <3>2. CASE j # k
      <4>1. j \in DOMAIN index /\ j \in DOMAIN content /\ p = index[j] /\ w = content[j]
        BY <1>b, <2>2, <2>3, <2>8, <3>2
      <4>2. Readable(p) /\ PageOf(p) = Data(w)
        BY <1>b, <2>2, <4>1
      <4>3. p # nextId + 1 /\ (k \in DOMAIN index => p # index[k])
        BY <2>4, <3>2, <4>1
      <4> QED
        BY <2>5, <4>2, <4>3
    <3> QED
      BY <3>1, <3>2
  <2> QED
    BY <2>7, <2>8
<1>2. CASE \E k \in Keys : InsertTooLarge(k)
  <2>1. PICK k \in Keys : InsertTooLarge(k)
    BY <1>2
  <2>2. Alive /\ UNCHANGED <<index, content>> /\ ~oversized /\ k \notin DOMAIN index
    BY <2>1 DEF InsertTooLarge, Alive
  <2>3. \A p : p # nextId + 1 => (Readable(p)' <=> Readable(p)) /\ PageOf(p)' = PageOf(p)
    BY <2>1, <2>2, OtherPages
  <2>4. \A j \in DOMAIN index : index[j] # nextId + 1
    BY <1>0, <1>i, <2>2
  <2> QED
    BY <1>k, <2>2, <2>3, <2>4
<1>3. CASE \E k \in Keys : Remove(k)
  <2>1. PICK k \in Keys : Remove(k)
    BY <1>3
  <2>2. Alive /\ ~oversized /\ k \in DOMAIN index
        /\ index' = Without(index, k) /\ content' = Without(content, k)
    BY <2>1 DEF Remove, Alive
  <2>3. /\ DOMAIN index' = DOMAIN index \ {k} /\ DOMAIN content' = DOMAIN content \ {k}
        /\ \A j \in DOMAIN index : j # k => index'[j] = index[j]
        /\ \A j \in DOMAIN content : j # k => content'[j] = content[j]
    BY <2>2 DEF Without, Restrict
  <2>4. \A j \in DOMAIN index : index[j] # nextId + 1 /\ (j # k => index[j] # index[k])
    BY <1>0, <1>i, <2>2 DEF IdsBelow, Injective
  <2>5. \A p : p # nextId + 1 /\ p # index[k] =>
                 (Readable(p)' <=> Readable(p)) /\ PageOf(p)' = PageOf(p)
    BY <2>1, OtherPages
  <2>6. DOMAIN index' = DOMAIN content'
    BY <1>b, <2>2, <2>3
  <2>7. ASSUME NEW j \in DOMAIN content', NEW p, NEW w, p = index'[j], w = content'[j]
        PROVE  Readable(p)' /\ PageOf(p)' = Data(w)
    <3>1. j \in DOMAIN index /\ j # k /\ j \in DOMAIN content /\ p = index[j] /\ w = content[j]
      BY <1>b, <2>2, <2>3, <2>7
    <3>2. Readable(p) /\ PageOf(p) = Data(w)
      BY <1>b, <2>2, <3>1
    <3> QED
      BY <2>4, <2>5, <3>1, <3>2
  <2> QED
    BY <2>6, <2>7
<1>4. ASSUME NEW k \in Keys, Find(k)
      PROVE  /\ DOMAIN index' = DOMAIN content'
             /\ \A p, v : \A j \in DOMAIN content' : p = index'[j] /\ v = content'[j] =>
                  Readable(p)' /\ PageOf(p)' = Data(v)
  <2>1. Alive /\ ~oversized /\ UNCHANGED <<index, content, file>> /\ index[k] \notin DOMAIN cache
    BY <1>4 DEF Find, Alive
  <2>2. cache' = Put(cache, index[k], FilePage(index[k]))
    BY <1>4, <1>f DEF Find
  <2>3. \A p : /\ p # index[k] => (p \in DOMAIN cache' <=> p \in DOMAIN cache)
               /\ p \in DOMAIN cache => p \in DOMAIN cache' /\ cache'[p] = cache[p]
               /\ p = index[k] => p \in DOMAIN cache' /\ cache'[p] = FilePage(p)
    BY <2>1, <2>2 DEF Put
  <2>4. \A p : Readable(p) => Readable(p)' /\ PageOf(p)' = PageOf(p)
    BY <1>f, <2>1, <2>3 DEF Readable, PageOf, FilePage, InFile
  <2> QED
    BY <1>k, <2>1, <2>4
<1>5. CASE BeginSave
  <2>1. SaveTree(index, cache, nextId) /\ index \in Tree /\ Alive /\ ~oversized
        /\ UNCHANGED <<index, content, file, failed>>
    BY <1>5 DEF BeginSave, TypeOK, Alive, files
  <2>2. \/ cache' = cache
        \/ /\ DOMAIN cache' = DOMAIN cache \cup {root'} /\ root' = nextId + 1
           /\ \A p \in DOMAIN cache : p # root' => cache'[p] = cache[p]
    BY <1>0, <2>1, SavedTree
  <2>3. \A p : p # nextId + 1 => (Readable(p)' <=> Readable(p)) /\ PageOf(p)' = PageOf(p)
    BY <2>1, <2>2 DEF Readable, PageOf, FilePage, InFile
  <2>4. \A j \in DOMAIN index : index[j] # nextId + 1
    BY <1>0, <1>i, <2>1
  <2> QED
    BY <1>k, <2>1, <2>3, <2>4
<1>6. ASSUME NEW q \in PageIds, WritePage(q)
      PROVE  /\ DOMAIN index' = DOMAIN content'
             /\ \A p, v : \A j \in DOMAIN content' : p = index'[j] /\ v = content'[j] =>
                  Readable(p)' /\ PageOf(p)' = Data(v)
  <2>1. Alive /\ ~oversized /\ UNCHANGED <<index, content, cache>>
    BY <1>6 DEF WritePage, Alive
  <2>2. /\ q \in DOMAIN cache /\ \A p : InFile(p) => InFile(p)'
        /\ \A p : FilePage(p)' = IF p = q THEN cache[q] ELSE FilePage(p)
    BY <1>6, WrittenPage
  <2>3. \A p : Readable(p) => Readable(p)' /\ PageOf(p)' = PageOf(p)
    BY <1>f, <2>1, <2>2 DEF Readable, PageOf
  <2> QED
    BY <1>k, <2>1, <2>3
<1>7. CASE EndFlush
  <2>1. /\ Alive /\ ~oversized /\ UNCHANGED <<index, content, file>> /\ ~failed /\ cache' = Empty
        /\ \A p \in DOMAIN cache : p \in DOMAIN file /\ file[p] = cache[p]
    BY <1>7, <1>f DEF EndFlush, Alive
  <2>2. \A p \in DOMAIN file : p \in Nat
    BY Numbers
  <2>3. \A p \in DOMAIN cache : InFile(p) /\ FilePage(p) = cache[p]
    BY <2>1, <2>2 DEF InFile, FilePage
  <2>4. \A p : (InFile(p)' <=> InFile(p)) /\ FilePage(p)' = FilePage(p)
    BY <2>1 DEF InFile, FilePage
  <2>5. \A p : Readable(p) => Readable(p)' /\ PageOf(p)' = PageOf(p)
    BY <1>e, <1>f, <2>1, <2>3, <2>4 DEF Readable, PageOf
  <2> QED
    BY <1>k, <2>1, <2>5
<1>8. CASE EmptyMeta \/ WriteMeta \/ UNCHANGED vars
  <2>1. UNCHANGED <<index, content, cache, failed, file, oversized>> /\ Alive
    BY <1>8 DEF EmptyMeta, WriteMeta, vars, memory, Alive
  <2>2. \A p : (Readable(p)' <=> Readable(p)) /\ PageOf(p)' = PageOf(p)
    BY <2>1 DEF Readable, PageOf, FilePage, InFile
  <2> QED
    BY <1>k, <2>1, <2>2
<1>9. CASE CreateTable
  <2>1. meta = Absent /\ content' = content /\ index' = index
    BY <1>0, <1>9 DEF CreateTable, MetaPhase
  <2>2. content = Empty /\ index = Empty
    BY <1>0, <1>9, <2>1 DEF MetaPhase, CreateTable, Alive, PageInv, AtRest
  <2> QED
    BY <1>e, <2>1, <2>2
<1>10. CASE Start
  <2>1. PICK t \in Tree :
          /\ index' = t /\ ((meta = 0 /\ t = Empty) \/ Loads(t)) /\ Count = counter
          /\ \A k \in DOMAIN t : InFile(t[k]) /\ t[k] <= Count
          /\ \E pages :
                /\ SaveTree(t, pages, counter)
                /\ \A p \in DOMAIN pages : p <= Count /\ pages[p] = FilePage(p)
                /\ \A k \in DOMAIN t : t[k] \in DOMAIN pages
    BY <1>10, StartRead
  <2>2. content' = content /\ content = saved /\ ~oversized /\ Down /\ UNCHANGED <<file, meta>>
    BY <1>0, <1>10 DEF Start, Down, MetaPhase, files
  <2>3. DOMAIN t = DOMAIN saved /\ \A k \in DOMAIN t : FilePage(t[k]) = Data(saved[k])
    <3>1. CASE meta = 0 /\ t = Empty
      <4>1. saved = Empty
        BY <1>0, <2>2, <3>1 DEF MetaPhase
      <4> QED
        BY <1>e, <3>1, <4>1
    <3>2. CASE Loads(t)
      <4>1. phase = "down" /\ meta # Torn /\ meta # 0 /\ meta # Absent
        BY <1>0, <1>e, <2>2, <3>2 DEF Down, Loads, MetaPhase, InFile
      <4>2. Holds(saved)
        BY <2>2, <4>1 DEF PageInv, Recoverable
      <4>3. PICK u \in Tree : /\ Loads(u) /\ DOMAIN u = DOMAIN saved
                              /\ \A k \in DOMAIN u : FilePage(u[k]) = Data(saved[k])
        BY <4>1, <4>2 DEF Holds
      <4>4. u = t
        BY <3>2, <4>3, OneTree
      <4> QED
        BY <4>3, <4>4
    <3> QED
      BY <2>1, <3>1, <3>2
  <2>4. PICK pages :
          /\ SaveTree(t, pages, counter)
          /\ \A p \in DOMAIN pages : p <= Count /\ pages[p] = FilePage(p)
          /\ \A k \in DOMAIN t : t[k] \in DOMAIN pages
    BY <2>1
  <2>5. \/ cache' = pages
        \/ /\ DOMAIN cache' = DOMAIN pages \cup {root'} /\ root' = counter + 1
           /\ \A p \in DOMAIN pages : p # root' => cache'[p] = pages[p]
    BY <1>0, <2>4, SavedTree
  <2>6. \A p \in DOMAIN pages : p \in DOMAIN cache' /\ cache'[p] = FilePage(p)
    <3>1. counter + 1 \notin DOMAIN pages
      BY <1>0, <2>1, <2>4
    <3> QED
      BY <2>4, <2>5, <3>1
  <2>7. \A p \in DOMAIN pages : Readable(p)' /\ PageOf(p)' = FilePage(p)
    BY <2>6 DEF Readable, PageOf
  <2> QED
    BY <2>1, <2>2, <2>3, <2>4, <2>7
<1>11. CASE DropTable \/ CloseFile \/ Kill \/ RemoveFile \/ RemoveMeta \/ StartWithoutMeta
            \/ StartWithoutTable \/ StartFails
  <2>1. ~Alive'
    BY <1>11 DEF DropTable, CloseFile, Kill, RemoveFile, RemoveMeta, StartWithoutMeta,
                 StartWithoutTable, StartFails, Alive
  <2> QED
    BY <2>1
<1> QED
  BY <1>1, <1>2, <1>3, <1>4, <1>5, <1>6, <1>7, <1>8, <1>9, <1>10, <1>11 DEF Next

LEMMA NextRecoverable == TypeOK /\ PageInv /\ [Next]_vars => Recoverable'
<1> SUFFICES ASSUME TypeOK, PageInv, [Next]_vars, meta' # Torn, ~oversized',
                    phase' \notin {"unlinked", "half dropped", "refused"}
             PROVE  \A image : image = saved' => Holds(image)'
  BY DEF Recoverable, Holds, Loads, InFile, FilePage
<1>0. Recoverable /\ MetaPhase /\ IdsBelow /\ LiveBelow
  BY DEF PageInv
<1>h. \A image : Holds(image) <=>
        \/ meta \in {0, Absent} /\ image = Empty
        \/ \E t \in Tree : /\ Loads(t) /\ DOMAIN t = DOMAIN image
                           /\ \A k \in DOMAIN t : InFile(t[k]) /\ FilePage(t[k]) = Data(image[k])
  BY DEF Holds
<1>p. \A image : Holds(image)' <=>
        \/ meta' \in {0, Absent} /\ image = Empty
        \/ \E t \in Tree : /\ Loads(t)' /\ DOMAIN t = DOMAIN image
                           /\ \A k \in DOMAIN t : InFile(t[k])' /\ FilePage(t[k])' = Data(image[k])
  BY DEF Holds
<1>1. ASSUME UNCHANGED <<file, meta, saved>>, ~oversized,
             phase \notin {"unlinked", "half dropped", "refused"}
      PROVE  \A image : image = saved' => Holds(image)'
  <2>1. Holds(saved)
    BY <1>0, <1>1 DEF Recoverable
  <2>2. /\ \A p : FilePage(p)' = FilePage(p) /\ (InFile(p)' <=> InFile(p))
        /\ \A t \in Tree : Loads(t)' <=> Loads(t)
    BY <1>1, SameFiles
  <2> QED
    BY <1>1, <1>h, <1>p, <2>1, <2>2
<1>2. CASE \E k \in Keys : (\E v \in Values : Insert(k, v)) \/ InsertTooLarge(k) \/ Remove(k)
  <2>1. Fresh /\ (oversized => oversized')
    BY <1>2, KeyStep
  <2> QED
    BY <1>1, <2>1 DEF Fresh, files
<1>3. CASE \E k \in Keys : Find(k)
  BY <1>1, <1>3 DEF Find
<1>4. ASSUME NEW q \in PageIds, WritePage(q)
      PROVE  \A image : image = saved' => Holds(image)'
  <2>1. UNCHANGED <<meta, saved, oversized>> /\ phase \in {"flushing", "closing"}
    BY <1>4 DEF WritePage
  <2>2. Holds(saved)
    BY <1>0, <2>1 DEF Recoverable
  <2>3. /\ \A p : InFile(p) => InFile(p)'
        /\ \A p \in PageIds : p <= Count => FilePage(p)' = FilePage(p)
        /\ \A t \in Tree : Loads(t)' <=> Loads(t)
    BY <1>4, WrittenPage
  <2>4. \A t \in Tree : Loads(t) => \A k \in DOMAIN t : FilePage(t[k])' = FilePage(t[k])
    <3>1. \A t \in Tree : \A k \in DOMAIN t : t[k] \in PageIds
      BY TreeNumbers
    <3> QED
      BY <1>0, <2>3, <3>1 DEF LiveBelow
  <2>5. CASE meta \in {0, Absent} /\ saved = Empty
    BY <1>p, <2>1, <2>5
  <2>6. ASSUME NEW t \in Tree, Loads(t), DOMAIN t = DOMAIN saved,
               \A k \in DOMAIN t : InFile(t[k]) /\ FilePage(t[k]) = Data(saved[k])
        PROVE  \A image : image = saved' => Holds(image)'
    BY <1>p, <2>1, <2>3, <2>4, <2>6
  <2> QED
    BY <1>h, <2>2, <2>5, <2>6
<1>5. CASE BeginSave \/ EndFlush \/ CreateTable \/ DropTable \/ CloseFile \/ StartWithoutTable
           \/ UNCHANGED vars
  <2>1. /\ UNCHANGED <<file, meta, saved, oversized>>
        /\ phase \notin {"unlinked", "half dropped", "refused"}
    BY <1>5 DEF BeginSave, EndFlush, CreateTable, DropTable, CloseFile, StartWithoutTable, vars,
                files, memory
  <2> QED
    BY <1>1, <2>1
<1>6. CASE WriteMeta
  <2>1. /\ meta' = root /\ cache = Empty /\ (root = 0 => index = Empty) /\ index \in Tree
        /\ ~failed => \A t \in Tree : Loads(t)' <=> (root # 0 /\ t = index)
    BY <1>6, NamedTree
  <2>2. saved' = content /\ ~oversized /\ Alive /\ file' = file
    BY <1>6 DEF WriteMeta, Alive
  <2>3. ~failed
    BY <2>2 DEF PageInv, FailedIsPast
  <2>4. /\ DOMAIN index = DOMAIN content
        /\ \A k \in DOMAIN content : Readable(index[k]) /\ PageOf(index[k]) = Data(content[k])
    BY <2>2 DEF PageInv, ReadsBack
  <2>5. \A k \in DOMAIN index : InFile(index[k]) /\ FilePage(index[k]) = Data(content[k])
    BY <2>1, <2>3, <2>4, EmptyPartial DEF Readable, PageOf
  <2>6. \A p : FilePage(p)' = FilePage(p) /\ (InFile(p)' <=> InFile(p))
    BY <2>2 DEF FilePage, InFile
  <2>7. CASE root = 0
    <3>1. content = Empty
      BY <2>1, <2>4, <2>7, EmptyPartial, NoKeys DEF TypeOK
    <3> QED
      BY <1>p, <2>1, <2>2, <2>7, <3>1
  <2>8. CASE root # 0
    <3>1. \E t \in Tree : /\ Loads(t)' /\ DOMAIN t = DOMAIN content
                          /\ \A k \in DOMAIN t : InFile(t[k])' /\ FilePage(t[k])' = Data(content[k])
      <4>1. PICK t \in Tree : t = index /\ Loads(t)'
        BY <2>1, <2>3, <2>8
      <4>2. \A k \in DOMAIN t : InFile(t[k])' /\ FilePage(t[k])' = Data(content[k])
        BY <2>5, <2>6, <4>1
      <4> QED
        BY <2>4, <4>1, <4>2
    <3> QED
      BY <1>p, <2>2, <3>1
  <2> QED
    BY <2>7, <2>8
<1>7. CASE RemoveMeta
  BY <1>7, <1>p DEF RemoveMeta
<1>8. CASE Kill
  BY <1>1, <1>8 DEF Kill, files, Alive
<1>9. CASE Start
  <2>1. UNCHANGED <<file, meta, saved, oversized>> /\ Down /\ meta # Absent
    BY <1>9 DEF Start, files, Down
  <2>2. CASE phase = "down"
    BY <1>1, <2>1, <2>2
  <2>3. CASE phase = "half dropped"
    <3>1. file = Empty
      BY <1>0, <2>3 DEF MetaPhase
    <3>2. meta = 0
      <4>1. PICK t \in Tree : meta = 0 \/ Loads(t)
        BY <1>9 DEF Start
      <4>2. ~Loads(t)
        BY <3>1, EmptyPartial DEF Loads, InFile
      <4> QED
        BY <4>1, <4>2
    <3>3. saved = Empty
      BY <1>0, <2>1, <3>2 DEF MetaPhase
    <3> QED
      BY <1>p, <2>1, <3>2, <3>3
  <2> QED
    BY <2>1, <2>2, <2>3 DEF Down
<1>10. CASE EmptyMeta \/ RemoveFile \/ StartFails
  BY <1>10 DEF EmptyMeta, RemoveFile, StartFails
<1>11. CASE StartWithoutMeta
  BY <1>11 DEF StartWithoutMeta, files
<1> QED
  BY <1>2, <1>3, <1>4, <1>5, <1>6, <1>7, <1>8, <1>9, <1>10, <1>11 DEF Next

-----------------------------------------------------------------------------
(* The theorems *)

LEMMA InvHolds ==
  ASSUME ~KillBeforeCount
  PROVE  Spec => [](TypeOK /\ PageInv)
<1>1. Init => TypeOK /\ PageInv
  BY InitType, InitInv
<1>2. TypeOK /\ PageInv /\ [Next]_vars => TypeOK' /\ PageInv'
  <2> SUFFICES ASSUME TypeOK, PageInv, [Next]_vars PROVE TypeOK' /\ PageInv'
    OBVIOUS
  <2>1. TypeOK' /\ IdsBelow' /\ AtRest' /\ CacheClean' /\ FailedIsPast'
    BY NextType, NextIds, NextAtRest, NextCacheClean, NextFailed
  <2>2. SavePending' /\ LiveBelow' /\ MetaLoads' /\ MetaPhase'
    BY NextSavePending, NextLiveBelow, NextMetaLoads, NextMetaPhase
  <2>3. ReadsBack' /\ Recoverable'
    BY NextReadsBack, NextRecoverable
  <2> QED
    BY <2>1, <2>2, <2>3 DEF PageInv
<1> QED
  BY <1>1, <1>2, PTL DEF Spec

\* While the process is up, every key is there and its page, in the cache or in the
\* file, holds the record last given for it (PageBasedIndex::insert, find, flush_all
\* and the start that reads them back), when no kill comes before the count of page
\* ids has left the buffer of the stream.
THEOREM RecordsReadBack ==
  ASSUME ~KillBeforeCount
  PROVE  Spec => []ReadsBack
<1>1. PageInv => ReadsBack
  BY DEF PageInv
<1> QED
  BY <1>1, InvHolds, PTL

\* Under the same hypothesis a start finds what the last saveMetadata that ended has
\* saved, wherever the process was killed but for the instants that Recoverable names.
THEOREM FilesRecover ==
  ASSUME ~KillBeforeCount
  PROVE  Spec => []Recoverable
<1>1. PageInv => Recoverable
  BY DEF PageInv
<1> QED
  BY <1>1, InvHolds, PTL

\* Under the same hypothesis no step but DROP TABLE changes a page of the image that
\* the .meta file names (PageManager::allocate_page and the count in the file).
THEOREM LivePagesStand ==
  ASSUME ~KillBeforeCount
  PROVE  Spec => NoLivePageOverwritten
<1>1. TypeOK /\ PageInv /\ [Next]_vars =>
        [phase # "closed" => \A p \in LivePages : FilePage(p)' = FilePage(p)]_vars
  <2> SUFFICES ASSUME TypeOK, PageInv, [Next]_vars, phase # "closed", NEW p \in LivePages
               PROVE  FilePage(p)' = FilePage(p)
    OBVIOUS
  <2>1. p \in PageIds /\ p <= Count
    <3>1. PICK t \in Tree : Loads(t) /\ (p = meta \/ \E k \in DOMAIN t : p = t[k])
      BY DEF LivePages
    <3> QED
      BY <3>1 DEF LivePages, PageInv, LiveBelow
  <2>2. CASE \E q \in PageIds : WritePage(q)
    BY <2>1, <2>2, WrittenPage
  <2>3. CASE ~\E q \in PageIds : WritePage(q)
    <3>1. file' = file
      BY <2>3 DEF Next, Insert, InsertTooLarge, Remove, Find, BeginSave, EndFlush, EmptyMeta, WriteMeta,
         CreateTable, DropTable, CloseFile, RemoveFile, RemoveMeta, Kill, StartWithoutMeta,
         StartWithoutTable, StartFails, Start, vars, files
    <3> QED
      BY <3>1 DEF FilePage
  <2> QED
    BY <2>2, <2>3
<1> QED
  BY <1>1, InvHolds, PTL DEF Spec, NoLivePageOverwritten


-----------------------------------------------------------------------------
(* The page file implements DurableMap *)

Records(f) == [k \in DOMAIN f |-> Data(f[k])]

\* What a running process gives for its keys is what was stored.
LEMMA LiveIs ==
  TypeOK /\ ReadsBack /\ Alive /\ ~oversized => Live = Records(content)
<1> SUFFICES ASSUME TypeOK, ReadsBack, Alive, ~oversized PROVE Live = Records(content)
  OBVIOUS
<1>1. /\ DOMAIN index = DOMAIN content
      /\ \A k \in DOMAIN content : Readable(index[k]) /\ PageOf(index[k]) = Data(content[k])
  BY DEF ReadsBack
<1>2. \A k \in DOMAIN index :
        (IF Readable(index[k]) THEN PageOf(index[k]) ELSE None) = Data(content[k])
  BY <1>1
<1> QED
  BY <1>1, <1>2 DEF Live, Records

\* The files give a start what the last save that ended has saved.
LEMMA ImageIs ==
  TypeOK /\ Recoverable /\ ~oversized /\ meta \notin {Torn, Absent}
    /\ phase \notin {"unlinked", "half dropped", "refused"}
    => Image = Records(saved)
<1> SUFFICES ASSUME TypeOK, Recoverable, ~oversized, meta \notin {Torn, Absent},
                    phase \notin {"unlinked", "half dropped", "refused"}
             PROVE  Image = Records(saved)
  OBVIOUS
<1>1. Holds(saved)
  BY DEF Recoverable
<1>2. CASE meta = 0
  <2>1. saved = Empty
    BY <1>1, <1>2 DEF Holds, Loads
  <2>2. Image = [k \in DOMAIN Empty |-> FilePage(Empty[k])]
    BY <1>2 DEF Image, Complete, ImageTree
  <2> QED
    BY <2>1, <2>2, EmptyPartial DEF Records
<1>3. CASE meta # 0
  <2>1. PICK t \in Tree :
          /\ Loads(t) /\ DOMAIN t = DOMAIN saved
          /\ \A k \in DOMAIN t : InFile(t[k]) /\ FilePage(t[k]) = Data(saved[k])
    BY <1>1, <1>3 DEF Holds
  <2>2. ImageTree = t
    BY <1>3, <2>1, OneTree DEF ImageTree
  <2>3. Image = [k \in DOMAIN t |-> FilePage(t[k])]
    BY <2>1, <2>2 DEF Image, Complete
  <2> QED
    BY <2>1, <2>3 DEF Records
<1> QED
  BY <1>2, <1>3

\* Without a page file the .meta file of an empty table alone is an image.
LEMMA ImageOfNothing ==
  TypeOK /\ file = Empty /\ ~oversized /\ meta \notin {Torn, Absent}
    => Image = IF meta = 0 THEN Empty ELSE Torn
<1> SUFFICES ASSUME TypeOK, file = Empty, ~oversized, meta \notin {Torn, Absent}
             PROVE  Image = IF meta = 0 THEN Empty ELSE Torn
  OBVIOUS
<1>1. DOMAIN Empty = {}
  BY EmptyPartial
<1>2. CASE meta = 0
  <2>1. Image = [k \in DOMAIN Empty |-> FilePage(Empty[k])]
    BY <1>2 DEF Image, Complete, ImageTree
  <2> QED
    BY <1>1, <1>2, <2>1 DEF Empty
<1>3. CASE meta # 0
  <2>1. \A t \in Tree : ~Loads(t)
    BY <1>1 DEF Loads, InFile
  <2> QED
    BY <1>3, <2>1 DEF Image, Complete
<1> QED
  BY <1>2, <1>3

LEMMA SameImage ==
  UNCHANGED <<file, meta, oversized>> => Image' = Image
<1> SUFFICES ASSUME UNCHANGED <<file, meta, oversized>> PROVE Image' = Image
  OBVIOUS
<1>1. /\ \A p : (FilePage(p)' = FilePage(p)) /\ (InFile(p)' <=> InFile(p))
      /\ \A t \in Tree : Loads(t)' <=> Loads(t)
  BY SameFiles
<1> QED
  BY DEF Image, Complete, ImageTree, Loads, FilePage, InFile

\* The map of what is open and of what is on disk, in the terms of the history.
OpenMap == IF Alive /\ ~oversized THEN Records(content) ELSE None
DiskMap ==
  IF oversized \/ meta = Torn THEN Torn
  ELSE IF meta = Absent THEN Absent
  ELSE IF phase \in {"unlinked", "half dropped"} THEN (IF meta = 0 THEN Empty ELSE Torn)
  ELSE Records(saved)

MapsAgree == Live = OpenMap /\ (phase # "refused" => Image = DiskMap)

LEMMA MapsAre == TypeOK /\ PageInv => MapsAgree
<1> SUFFICES ASSUME TypeOK, PageInv PROVE MapsAgree
  OBVIOUS
<1>1. Live = OpenMap
  <2>1. CASE Alive /\ ~oversized
    BY <2>1, LiveIs DEF OpenMap, PageInv
  <2>2. CASE ~(Alive /\ ~oversized)
    BY <2>2 DEF OpenMap, Live
  <2> QED
    BY <2>1, <2>2
<1>2. ASSUME oversized \/ meta \in {Torn, Absent} PROVE Image = DiskMap
  <2>1. CASE oversized \/ meta = Torn
    BY <2>1 DEF Image, DiskMap
  <2>2. CASE ~oversized /\ meta = Absent
    BY <2>2, Numbers DEF Image, DiskMap
  <2> QED
    BY <1>2, <2>1, <2>2
<1>3. ASSUME ~oversized, meta \notin {Torn, Absent}, phase # "refused" PROVE Image = DiskMap
  <2>1. phase \in {"unlinked", "half dropped"} => file = Empty
    BY DEF PageInv, MetaPhase
  <2> QED
    BY <1>3, <2>1, ImageIs, ImageOfNothing DEF DiskMap, PageInv
<1> QED
  BY <1>1, <1>2, <1>3 DEF MapsAgree

LEMMA MapsAreNext == TypeOK' /\ PageInv' => MapsAgree'
BY MapsAre, PTL

\* The changes of an open map.
LEMMA RecordsPut ==
  ASSUME NEW f, NEW k, NEW v
  PROVE  Records(Put(f, k, v)) = Durable!Put(Records(f), k, Data(v))
<1>1. /\ DOMAIN Put(f, k, v) = DOMAIN f \cup {k} /\ Put(f, k, v)[k] = v
      /\ \A j \in DOMAIN f : j # k => Put(f, k, v)[j] = f[j]
  BY DEF Put
<1>2. \A j \in DOMAIN f \cup {k} :
        Data(Put(f, k, v)[j]) = IF j = k THEN Data(v) ELSE Records(f)[j]
  BY <1>1 DEF Records
<1>3. DOMAIN Records(f) = DOMAIN f
  BY DEF Records
<1>4. Records(Put(f, k, v)) = [j \in DOMAIN f \cup {k} |-> Data(Put(f, k, v)[j])]
  BY <1>1 DEF Records
<1> QED
  BY <1>2, <1>3, <1>4 DEF Durable!Put

LEMMA RecordsWithout ==
  ASSUME NEW f, NEW k
  PROVE  Records(Without(f, k)) = Durable!Without(Records(f), k)
<1>1. /\ DOMAIN Without(f, k) = DOMAIN f \ {k}
      /\ \A j \in DOMAIN f : j # k => Without(f, k)[j] = f[j]
  BY WithoutIs
<1>2. DOMAIN Records(f) = DOMAIN f
  BY DEF Records
<1>3. \A j \in DOMAIN f \ {k} : Data(Without(f, k)[j]) = Records(f)[j]
  BY <1>1 DEF Records
<1>4. Records(Without(f, k)) = [j \in DOMAIN f \ {k} |-> Data(Without(f, k)[j])]
  BY <1>1 DEF Records
<1> QED
  BY <1>2, <1>3, <1>4 DEF Durable!Without, Durable!Restrict

LEMMA RecordsEmpty == Records(Empty) = Durable!Empty /\ Records(Empty) = Empty
<1>1. DOMAIN Empty = {}
  BY EmptyPartial
<1>2. Records(Empty) = [k \in {} |-> Data(Empty[k])]
  BY <1>1 DEF Records
<1> QED
  BY <1>2 DEF Durable!Empty, Empty

LEMMA RecordsType ==
  ASSUME NEW f, IsPartial(f, Keys, Values)
  PROVE  Records(f) \in Durable!Maps
<1>1. DOMAIN f \subseteq Keys /\ \A k \in DOMAIN f : f[k] \in Values
  BY PartialIs
<1>2. Records(f) \in [DOMAIN f -> {Data(v) : v \in Values}]
  BY <1>1 DEF Records
<1> QED
  BY <1>1, <1>2 DEF Durable!Maps

\* Every step of the page file is a step of the map or leaves it as it is.
LEMMA NextImplements ==
  TypeOK /\ PageInv /\ TypeOK' /\ PageInv' /\ [Next]_vars => [Durable!Next]_(Durable!vars)
<1> SUFFICES ASSUME TypeOK, PageInv, TypeOK', PageInv', [Next]_vars
             PROVE  Durable!Next \/ UNCHANGED <<StateOf, Live, Image>>
  BY DEF Durable!vars
<1>m. /\ Live = OpenMap /\ Live' = OpenMap'
      /\ phase # "refused" => Image = DiskMap
      /\ phase' # "refused" => Image' = DiskMap'
  BY MapsAre, MapsAreNext DEF MapsAgree
<1>p. MetaPhase /\ MetaPhase' /\ Torn \notin Nat /\ Absent \notin Nat \cup {Torn}
      /\ meta \in Nat \cup {Torn, Absent}
  BY Numbers DEF PageInv
<1>e. Records(Empty) = Durable!Empty /\ Records(Empty) = Empty
  BY RecordsEmpty
\* Nothing is promised after a record too large for a page.
<1>1. CASE oversized /\ oversized'
  <2>1. StateOf = "spoiled" /\ StateOf' = "spoiled" /\ OpenMap = None /\ OpenMap' = None
    BY <1>1 DEF StateOf, OpenMap
  <2>2. Image = Torn /\ Image' = Torn
    BY <1>1 DEF Image
  <2> QED
    BY <1>m, <2>1, <2>2
<1>2. CASE oversized /\ ~oversized'
  <2>1. RemoveMeta
    BY <1>2, KeyStep DEF Next, Insert, Remove, Find, BeginSave, WritePage, EndFlush, EmptyMeta, WriteMeta,
       CreateTable, DropTable, CloseFile, RemoveFile, Kill, StartWithoutMeta, StartWithoutTable,
       StartFails, Start, vars
  <2>2. phase = "unlinked" /\ phase' = "absent" /\ meta' = Absent
    BY <2>1 DEF RemoveMeta
  <2>3. StateOf = "spoiled" /\ StateOf' = "absent" /\ OpenMap = None /\ OpenMap' = None
        /\ DiskMap' = Absent
    BY <1>2, <1>p, <2>2 DEF StateOf, OpenMap, DiskMap, Alive
  <2>4. Durable!EndDrop
    BY <1>m, <2>2, <2>3 DEF Durable!EndDrop
  <2> QED
    BY <2>4 DEF Durable!Next
<1>3. CASE ~oversized /\ oversized'
  <2>1. PICK k \in Keys : InsertTooLarge(k)
    BY <1>3 DEF Next, Insert, Remove, Find, BeginSave, WritePage, EndFlush, EmptyMeta, WriteMeta,
       CreateTable, DropTable, CloseFile, RemoveFile, RemoveMeta, Kill, StartWithoutMeta,
       StartWithoutTable, StartFails, Start, vars
  <2>2. phase = "up"
    BY <2>1 DEF InsertTooLarge
  <2>3. StateOf = "open" /\ StateOf' = "spoiled" /\ OpenMap' = None /\ Image' = Torn
    BY <1>3, <2>2 DEF StateOf, OpenMap, Image
  <2>4. Durable!Spoil
    BY <1>m, <2>3 DEF Durable!Spoil
  <2> QED
    BY <2>4 DEF Durable!Next
<1>4. ASSUME ~oversized, ~oversized' PROVE Durable!Next \/ UNCHANGED <<StateOf, Live, Image>>
  <2> USE <1>4
  <2>s. UNCHANGED <<file, meta>> => Image' = Image
    <3>1. oversized = FALSE /\ oversized' = FALSE
      BY Zenon DEF TypeOK
    <3> QED
      BY <3>1, SameImage
  <2>1. CASE \E k \in Keys, v \in Values : Insert(k, v)
    <3>1. PICK k \in Keys, v \in Values : Insert(k, v)
      BY <2>1
    <3>2. phase = "up" /\ phase' = "up" /\ content' = Put(content, k, v) /\ UNCHANGED <<file, meta>>
      BY <3>1 DEF Insert, files
    <3>3. StateOf = "open" /\ StateOf' = "open" /\ OpenMap = Records(content)
          /\ OpenMap' = Records(Put(content, k, v))
      BY <3>2 DEF StateOf, OpenMap, Alive, Records
    <3>4. Durable!Insert(k, Data(v))
      BY <1>m, <2>s, <3>2, <3>3, RecordsPut DEF Durable!Insert
    <3> QED
      BY <3>4 DEF Durable!Next
  <2>2. CASE \E k \in Keys : InsertTooLarge(k)
    <3>1. UNCHANGED <<phase, content, file, meta>>
      BY <2>2 DEF InsertTooLarge, files
    <3>2. StateOf' = StateOf /\ OpenMap' = OpenMap
      BY <3>1 DEF StateOf, OpenMap, Alive, Records
    <3> QED
      BY <1>m, <2>s, <3>1, <3>2
  <2>3. CASE \E k \in Keys : Remove(k)
    <3>1. PICK k \in Keys : Remove(k)
      BY <2>3
    <3>2. phase = "up" /\ phase' = "up" /\ content' = Without(content, k) /\ k \in DOMAIN index
          /\ UNCHANGED <<file, meta>>
      BY <3>1 DEF Remove, files
    <3>3. StateOf = "open" /\ StateOf' = "open" /\ OpenMap = Records(content)
          /\ OpenMap' = Records(Without(content, k))
      BY <3>2 DEF StateOf, OpenMap, Alive, Records
    <3>4. k \in DOMAIN Records(content)
      BY <3>2 DEF PageInv, ReadsBack, Alive, Records
    <3>5. Durable!Remove(k)
      BY <1>m, <2>s, <3>2, <3>3, <3>4, RecordsWithout DEF Durable!Remove
    <3> QED
      BY <3>5 DEF Durable!Next
  <2>4. CASE \E k \in Keys : Find(k)
    <3>1. UNCHANGED <<phase, content, file, meta>>
      BY <2>4 DEF Find
    <3>2. StateOf' = StateOf /\ OpenMap' = OpenMap
      BY <3>1 DEF StateOf, OpenMap, Alive, Records
    <3> QED
      BY <1>m, <2>s, <3>1, <3>2
  <2>5. CASE BeginSave \/ EndFlush
    <3>1. UNCHANGED <<content, file, meta>> /\ phase \in {"up", "flushing"}
          /\ phase' \in {"flushing", "flushed"}
      BY <2>5 DEF BeginSave, EndFlush, files
    <3>2. StateOf = "open" /\ StateOf' = "open" /\ OpenMap' = OpenMap
      BY <3>1 DEF StateOf, OpenMap, Alive, Records
    <3> QED
      BY <1>m, <2>s, <3>1, <3>2
  <2>6. CASE \E p \in PageIds : WritePage(p)
    <3>1. UNCHANGED <<phase, content, meta, saved>> /\ phase \in {"flushing", "closing"}
      BY <2>6 DEF WritePage
    <3>2. StateOf' = StateOf /\ OpenMap' = OpenMap /\ DiskMap' = DiskMap
      BY <3>1 DEF StateOf, OpenMap, DiskMap, Alive, Records
    <3> QED
      BY <1>m, <3>1, <3>2
  <2>7. CASE EmptyMeta
    <3>1. phase = "flushed" /\ phase' = "naming" /\ meta' = Torn /\ content' = content
      BY <2>7 DEF EmptyMeta
    <3>2. StateOf = "open" /\ StateOf' = "saving" /\ OpenMap' = OpenMap /\ DiskMap' = Torn
      BY <3>1 DEF StateOf, OpenMap, DiskMap, Alive, Records
    <3>3. Durable!BeginSave
      BY <1>m, <3>1, <3>2 DEF Durable!BeginSave
    <3> QED
      BY <3>3 DEF Durable!Next
  <2>8. CASE WriteMeta
    <3>1. phase = "naming" /\ phase' = "up" /\ content' = content /\ saved' = content /\ meta' = root
      BY <2>8 DEF WriteMeta
    <3>2. root \notin {Torn, Absent}
      BY <1>p, Numbers
    <3>3. StateOf = "saving" /\ StateOf' = "open" /\ OpenMap = Records(content)
          /\ OpenMap' = Records(content) /\ DiskMap' = Records(content)
      BY <3>1, <3>2 DEF StateOf, OpenMap, DiskMap, Alive, Records
    <3>4. Durable!EndSave
      BY <1>m, <3>1, <3>3 DEF Durable!EndSave
    <3> QED
      BY <3>4 DEF Durable!Next
  <2>9. CASE CreateTable
    <3>1. phase = "absent" /\ phase' = "flushing" /\ content' = content /\ UNCHANGED <<file, meta>>
      BY <2>9 DEF CreateTable, files
    <3>2. content = Empty
      BY <1>p, <3>1 DEF MetaPhase
    <3>3. StateOf = "absent" /\ StateOf' = "open" /\ OpenMap' = Records(Empty)
      BY <3>1, <3>2 DEF StateOf, OpenMap, Alive, Records
    <3>4. Durable!Create
      BY <1>m, <1>e, <2>s, <3>1, <3>3 DEF Durable!Create
    <3> QED
      BY <3>4 DEF Durable!Next
  <2>10. CASE DropTable
    <3>1. phase = "up" /\ phase' = "closing" /\ UNCHANGED <<file, meta>>
      BY <2>10 DEF DropTable, files
    <3>2. StateOf = "open" /\ StateOf' = "dropping" /\ OpenMap' = None
      BY <3>1 DEF StateOf, OpenMap, Alive
    <3>3. Durable!BeginDrop
      BY <1>m, <2>s, <3>1, <3>2 DEF Durable!BeginDrop
    <3> QED
      BY <3>3 DEF Durable!Next
  <2>11. CASE CloseFile
    <3>1. phase = "closing" /\ phase' = "closed" /\ UNCHANGED <<file, meta>>
      BY <2>11 DEF CloseFile
    <3>2. StateOf = "dropping" /\ StateOf' = "dropping" /\ OpenMap = None /\ OpenMap' = None
      BY <3>1 DEF StateOf, OpenMap, Alive
    <3> QED
      BY <1>m, <2>s, <3>1, <3>2
  <2>12. CASE RemoveFile
    <3>1. phase = "closed" /\ phase' = "unlinked" /\ meta' = meta
      BY <2>12 DEF RemoveFile
    <3>2. meta \notin {Torn, Absent} /\ (meta = 0 => saved = Empty)
      BY <1>p, <3>1 DEF MetaPhase
    <3>3. StateOf = "dropping" /\ StateOf' = "removing" /\ OpenMap = None /\ OpenMap' = None
      BY <3>1 DEF StateOf, OpenMap, Alive
    <3>4. DiskMap = Records(saved) /\ DiskMap' = IF meta = 0 THEN Empty ELSE Torn
      BY <3>1, <3>2 DEF DiskMap
    <3>5. Durable!RemoveImage
      BY <1>m, <1>e, <3>1, <3>2, <3>3, <3>4 DEF Durable!RemoveImage
    <3> QED
      BY <3>5 DEF Durable!Next
  <2>13. CASE RemoveMeta
    <3>1. phase = "unlinked" /\ phase' = "absent" /\ meta' = Absent
      BY <2>13 DEF RemoveMeta
    <3>2. StateOf = "removing" /\ StateOf' = "absent" /\ OpenMap = None /\ OpenMap' = None
          /\ DiskMap' = Absent
      BY <1>p, <3>1 DEF StateOf, OpenMap, DiskMap, Alive
    <3>3. Durable!EndDrop
      BY <1>m, <3>1, <3>2 DEF Durable!EndDrop
    <3> QED
      BY <3>3 DEF Durable!Next
  <2>14. CASE Kill
    <3>1. /\ phase \in {"up", "flushing", "flushed", "naming", "closing", "closed", "unlinked"}
          /\ phase' \in {"down", "half dropped"}
          /\ UNCHANGED <<file, meta>>
      BY <2>14 DEF Kill, Alive, files
    <3>2. StateOf \in {"open", "saving", "dropping", "removing"} /\ StateOf' = "closed"
          /\ OpenMap' = None
      BY <3>1 DEF StateOf, OpenMap, Alive
    <3>3. Durable!Kill
      BY <1>m, <2>s, <3>1, <3>2 DEF Durable!Kill
    <3> QED
      BY <3>3 DEF Durable!Next
  <2>15. CASE StartWithoutMeta \/ StartFails
    <3>1. phase \in {"down", "half dropped"} /\ phase' \in {"lost", "refused"} /\ UNCHANGED <<file, meta>>
      BY <2>15 DEF StartWithoutMeta, StartFails, Down, files
    <3>2. StateOf = "closed" /\ StateOf' = "closed" /\ OpenMap = None /\ OpenMap' = None
      BY <3>1 DEF StateOf, OpenMap, Alive
    <3> QED
      BY <1>m, <2>s, <3>1, <3>2
  <2>16. CASE StartWithoutTable
    <3>1. phase = "down" /\ phase' = "absent" /\ meta = Absent /\ UNCHANGED <<file, meta>>
      BY <2>16 DEF StartWithoutTable, files
    <3>2. StateOf = "closed" /\ StateOf' = "absent" /\ OpenMap = None /\ OpenMap' = None
          /\ DiskMap = Absent
      BY <1>p, <3>1 DEF StateOf, OpenMap, DiskMap, Alive
    <3>3. Durable!Forget
      BY <1>m, <2>s, <3>1, <3>2 DEF Durable!Forget
    <3> QED
      BY <3>3 DEF Durable!Next
  <2>17. CASE Start
    <3>1. phase \in {"down", "half dropped"} /\ phase' = "flushing" /\ meta \notin {Torn, Absent}
          /\ content' = content /\ UNCHANGED <<file, meta>>
      BY <2>17 DEF Start, Down, files
    <3>2. phase = "half dropped" => meta = 0
      <4>1. meta = 0 \/ \E t \in Tree : Loads(t)
        BY <2>17 DEF Start
      <4>2. phase = "half dropped" => file = Empty
        BY <1>p DEF MetaPhase
      <4> QED
        BY <4>1, <4>2, EmptyPartial DEF Loads, InFile
    <3>3. content = saved /\ (meta = 0 => saved = Empty)
      BY <1>p, <3>1 DEF MetaPhase
    <3>4. StateOf = "closed" /\ StateOf' = "open" /\ OpenMap' = Records(content)
      BY <3>1 DEF StateOf, OpenMap, Alive, Records
    <3>5. DiskMap = Records(content)
      BY <1>e, <3>1, <3>2, <3>3 DEF DiskMap
    <3>6. Records(content) \in Durable!Maps
      BY RecordsType DEF TypeOK
    <3>7. Durable!Open
      BY <1>m, <2>s, <3>1, <3>4, <3>5, <3>6 DEF Durable!Open
    <3> QED
      BY <3>7 DEF Durable!Next
  <2>18. CASE UNCHANGED vars
    <3>1. UNCHANGED <<phase, content, file, meta>>
      BY <2>18 DEF vars
    <3>2. StateOf' = StateOf /\ OpenMap' = OpenMap
      BY <3>1 DEF StateOf, OpenMap, Alive, Records
    <3> QED
      BY <1>m, <2>s, <3>1, <3>2
  <2> QED
    BY <2>1, <2>2, <2>3, <2>4, <2>5, <2>6, <2>7, <2>8, <2>9, <2>10, <2>11, <2>12, <2>13, <2>14, <2>15,
       <2>16, <2>17, <2>18 DEF Next
<1> QED
  BY <1>1, <1>2, <1>3, <1>4

LEMMA InitImplements == Init => Durable!Init
<1> SUFFICES ASSUME Init PROVE Durable!Init
  OBVIOUS
<1>1. StateOf = "absent" /\ Live = None
  BY DEF Init, StateOf, Live, Alive
<1>2. Image = Absent
  BY PageAssumption DEF Init, Image
<1> QED
  BY <1>1, <1>2 DEF Durable!Init

\* With the same hypothesis on kills the page file is a map with an image on disk:
\* a start opens what the last save that ended has saved, and the steps of a save, a
\* DROP TABLE, a kill or a start are those of DurableMap (Table::saveMetadata,
\* Database::dropTable, Table::loadMetadata).
THEOREM PageFileIsDurable ==
  ASSUME ~KillBeforeCount
  PROVE  Spec => ImplementsMap
<1>1. Spec => [](TypeOK /\ PageInv)
  BY InvHolds
<1>2. (TypeOK /\ PageInv) /\ (TypeOK /\ PageInv)' /\ [Next]_vars => [Durable!Next]_(Durable!vars)
  BY NextImplements
<1> QED
  BY <1>1, <1>2, InitImplements, PTL DEF Spec, ImplementsMap, Durable!Spec
=============================================================================
