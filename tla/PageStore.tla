----------------------------- MODULE PageStore -----------------------------
(***************************************************************************)
(* The file of one table: class PageManager and PageBasedIndex of          *)
(* StorageNode.h, as class Table drives them (saveMetadata, loadMetadata,  *)
(* the constructor).  A record and the tree that indexes the records live  *)
(* in pages; a page is changed in memory under a page id never used before *)
(* and reaches the .tbl file in flush_all; the .meta file then names the   *)
(* page of the new tree.  The count of page ids in use is written at the   *)
(* end of flush_all and, unlike the pages, is too short to pass the buffer *)
(* of the stream: it reaches the file with the next seek.                  *)
(* CREATE TABLE and DROP TABLE of class Database make and remove the files *)
(* one after the other.                                                    *)
(*                                                                         *)
(* The tree is small enough for one page (a root leaf holds 19 keys).      *)
(***************************************************************************)
EXTENDS Naturals, Functions

CONSTANTS
  Keys,             \* the row ids
  Values,           \* the serialized rows that fit a page
  None,             \* nothing
  Torn,             \* the .meta file is empty
  Absent,           \* there is no .meta file
  KillBeforeCount,  \* a kill may come before the count reaches the file
  MaxPage, MaxKills \* bounds on page ids and on kills

PageIds == 1 .. MaxPage

\* The functions from a part of S to T, and the test for one of them.
Partial(S, T) == UNION {[D -> T] : D \in SUBSET S}
IsPartial(f, S, T) == DOMAIN f \in SUBSET S /\ f \in [DOMAIN f -> T]

Tree == Partial(Keys, PageIds)
Data(v) == [kind |-> "data", value |-> v]
Node(t) == [kind |-> "node", tree |-> t]
Blank   == [kind |-> "blank"]      \* zeros
Content == {Data(v) : v \in Values} \cup {Node(t) : t \in Tree} \cup {Blank}

ASSUME PageAssumption ==
  /\ MaxPage \in Nat /\ MaxKills \in Nat
  /\ None \notin Values /\ None \notin Nat
  /\ Torn \notin Nat /\ Absent \notin Nat \cup {Torn}
  /\ KillBeforeCount \in BOOLEAN

VARIABLES
  index,    \* index_: the page id of each key
  cache,    \* cache_
  nextId,   \* next_page_id_: the last page id given out
  failed,   \* the failbit of file_
  buffered, \* the count of page ids, while it is in the buffer of file_
  file,     \* the pages written to the .tbl file
  counter,  \* the count of page ids in the .tbl file
  meta,     \* the page the .meta file names: 0 for an empty tree
  phase,    \* where the process is
  root,     \* saveMetadata: the page of the tree it is saving
  kills,    \* how often the process was killed
  \* history
  content,  \* what the index should hold
  saved,    \* what it held at the last saveMetadata that ended
  oversized \* whether a value too large for a page was given for a key that
            \* was already there

vars == <<index, cache, nextId, failed, buffered, file, counter, meta, phase,
          root, kills, content, saved, oversized>>
memory == <<index, cache, nextId, failed, buffered>>
files  == <<file, counter, meta>>

Empty == [k \in {} |-> None]
Phases == {"absent", "up", "flushing", "flushed", "naming", "closing", "closed",
           "unlinked", "down", "half dropped", "refused", "lost"}

TypeOK ==
  /\ index \in Tree
  /\ IsPartial(cache, PageIds, Content)
  /\ nextId \in 0 .. MaxPage
  /\ failed \in BOOLEAN
  /\ buffered \in (0 .. MaxPage) \cup {None}
  /\ IsPartial(file, PageIds, Content)
  /\ counter \in 0 .. MaxPage
  /\ meta \in (0 .. MaxPage) \cup {Torn, Absent}
  /\ phase \in Phases
  /\ root \in 0 .. MaxPage
  /\ kills \in 0 .. MaxKills
  /\ IsPartial(content, Keys, Values)
  /\ IsPartial(saved, Keys, Values)
  /\ oversized \in BOOLEAN

-----------------------------------------------------------------------------
Without(f, x) == Restrict(f, DOMAIN f \ {x})
Put(f, x, v)  == [y \in DOMAIN f \cup {x} |-> IF y = x THEN v ELSE f[y]]

\* The page file as load_page reads it: a page below the last one written that
\* was never written itself is zeros, a read beyond the last one fails.
InFile(p)   == \E q \in DOMAIN file : q >= p
FilePage(p) == IF p \in DOMAIN file THEN file[p] ELSE Blank

\* What load_page(p) hands out.
Readable(p) == p \in DOMAIN cache \/ (~failed /\ InFile(p))
PageOf(p)   == IF p \in DOMAIN cache THEN cache[p] ELSE FilePage(p)

\* Mutant: the count written is the next page id to give out.
Seek_OneAhead ==
  /\ counter' = IF failed \/ buffered = None THEN counter ELSE buffered + 1
  /\ buffered' = IF failed THEN buffered ELSE None

\* A seek on file_ first writes out what its buffer holds.
Seek ==
  /\ counter' = IF failed \/ buffered = None THEN counter ELSE buffered
  /\ buffered' = IF failed THEN buffered ELSE None

Init ==
  /\ index = Empty /\ cache = Empty /\ nextId = 0 /\ failed = FALSE
  /\ buffered = None
  /\ file = Empty /\ counter = 0 /\ meta = Absent
  /\ phase = "absent" /\ root = 0 /\ kills = 0
  /\ content = Empty /\ saved = Empty /\ oversized = FALSE

-----------------------------------------------------------------------------
(* PageBasedIndex: insert, remove, find *)

\* The cache when the page of the old record, if any, is given up.
GivenUp(k) == IF k \in DOMAIN index THEN Without(cache, index[k]) ELSE cache

\* The new record gets a fresh page.
Insert(k, v) ==
  /\ phase = "up" /\ nextId < MaxPage
  /\ nextId' = nextId + 1
  /\ cache' = Put(GivenUp(k), nextId + 1, Data(v))
  /\ index' = Put(index, k, nextId + 1)
  /\ content' = Put(content, k, v)
  /\ UNCHANGED <<failed, buffered, files, phase, root, kills, saved, oversized>>

\* write_data_to_page throws "Data too large for single page": the old page is
\* given up by then, a blank one allocated, and the key not erased yet.
InsertTooLarge(k) ==
  /\ phase = "up" /\ nextId < MaxPage
  /\ nextId' = nextId + 1
  /\ cache' = Put(GivenUp(k), nextId + 1, Blank)
  /\ oversized' = (oversized \/ k \in DOMAIN index)
  /\ UNCHANGED <<index, failed, buffered, files, phase, root, kills, content,
                 saved>>

Remove(k) ==
  /\ phase = "up" /\ k \in DOMAIN index
  /\ cache' = Without(cache, index[k])
  /\ index' = Without(index, k)
  /\ content' = Without(content, k)
  /\ UNCHANGED <<nextId, failed, buffered, files, phase, root, kills, saved,
                 oversized>>

\* find reads the page of the key, through the cache.  A read that fails throws
\* and leaves the failbit set; nothing ever clears it.
Find(k) ==
  /\ phase = "up" /\ k \in DOMAIN index /\ index[k] \notin DOMAIN cache
  /\ Seek
  /\ IF Readable(index[k])
     THEN /\ cache' = Put(cache, index[k], FilePage(index[k]))
          /\ UNCHANGED failed
     ELSE /\ failed' = TRUE
          /\ UNCHANGED cache
  /\ UNCHANGED <<index, nextId, file, meta, phase, root, kills, content, saved,
                 oversized>>

-----------------------------------------------------------------------------
(* Table::saveMetadata: save_metadata, flush_all, the .meta file *)

\* Mutant: the tree gets the page id last given out.
SaveTree_Stale(t, pages, last) ==
  IF t = Empty
  THEN /\ root' = 0 /\ nextId' = last /\ cache' = pages
  ELSE /\ last < MaxPage
       /\ root' = last /\ nextId' = last + 1
       /\ cache' = Put(pages, last, Node(t))

\* save_node: the tree gets a fresh page; an empty one has no root.
SaveTree(t, pages, last) ==
  IF t = Empty
  THEN /\ root' = 0 /\ nextId' = last /\ cache' = pages
  ELSE /\ last < MaxPage
       /\ root' = last + 1 /\ nextId' = last + 1
       /\ cache' = Put(pages, last + 1, Node(t))

\* Mutant: the .meta file is written before the pages.
BeginSave_NamesFirst ==
  /\ phase = "up"
  /\ SaveTree(index, cache, nextId)
  /\ meta' = root'
  /\ phase' = "flushing"
  /\ UNCHANGED <<index, failed, buffered, file, counter, kills, content, saved,
                 oversized>>

BeginSave ==
  /\ phase = "up"
  /\ SaveTree(index, cache, nextId)
  /\ phase' = "flushing"
  /\ UNCHANGED <<index, failed, buffered, files, kills, content, saved,
                 oversized>>

\* The next page of flush_all, in the order of a hash map.
WritePage(p) ==
  /\ phase \in {"flushing", "closing"} /\ ~failed
  /\ p \in DOMAIN cache
  /\ p \in DOMAIN file => file[p] # cache[p]
  /\ Seek
  /\ file' = Put(file, p, cache[p])
  /\ UNCHANGED <<index, cache, nextId, failed, meta, phase, root, kills, content,
                 saved, oversized>>

\* Every page is written (or none, without a word, once file_ has failed); the
\* cache is cleared and write_metadata leaves the count in the buffer.
EndFlush ==
  /\ phase = "flushing"
  /\ ~failed => \A p \in DOMAIN cache : p \in DOMAIN file /\ file[p] = cache[p]
  /\ cache' = Empty
  /\ counter' = IF failed \/ buffered = None THEN counter ELSE buffered
  /\ buffered' = IF failed THEN buffered ELSE nextId
  /\ phase' = "flushed"
  /\ UNCHANGED <<index, nextId, failed, file, meta, root, kills, content, saved,
                 oversized>>

\* Opening the .meta file for writing empties it.
EmptyMeta ==
  /\ phase = "flushed"
  /\ meta' = Torn
  /\ phase' = "naming"
  /\ UNCHANGED <<memory, file, counter, root, kills, content, saved, oversized>>

WriteMeta ==
  /\ phase = "naming"
  /\ meta' = root
  /\ saved' = content
  /\ phase' = "up"
  /\ UNCHANGED <<memory, file, counter, root, kills, content, oversized>>

-----------------------------------------------------------------------------
(* Database::createTable and dropTable *)

\* The constructor of a table without rows.  A page file that a killed CREATE left
\* is taken over with its count.
CreateTable ==
  /\ phase = "absent"
  /\ SaveTree(Empty, Empty, counter)
  /\ phase' = "flushing"
  /\ UNCHANGED <<index, failed, buffered, files, kills, content, saved, oversized>>

\* The table goes, and its destructor flushes once more.
DropTable ==
  /\ phase = "up"
  /\ index' = Empty /\ content' = Empty
  /\ phase' = "closing"
  /\ UNCHANGED <<cache, nextId, failed, buffered, files, root, kills, saved, oversized>>

CloseFile ==
  /\ phase = "closing"
  /\ ~failed => \A p \in DOMAIN cache : p \in DOMAIN file /\ file[p] = cache[p]
  /\ counter' = IF failed THEN counter ELSE nextId
  /\ cache' = Empty /\ nextId' = 0 /\ failed' = FALSE /\ buffered' = None
  /\ phase' = "closed"
  /\ UNCHANGED <<index, file, meta, root, kills, content, saved, oversized>>

RemoveFile ==
  /\ phase = "closed"
  /\ file' = Empty /\ counter' = 0
  /\ phase' = "unlinked"
  /\ UNCHANGED <<memory, meta, root, kills, content, saved, oversized>>

\* Mutant: the .meta file stays.
RemoveMeta_Stays ==
  /\ phase = "unlinked"
  /\ saved' = Empty /\ oversized' = FALSE
  /\ phase' = "absent"
  /\ UNCHANGED <<memory, files, root, kills, content>>

RemoveMeta ==
  /\ phase = "unlinked"
  /\ meta' = Absent
  /\ saved' = Empty /\ oversized' = FALSE
  /\ phase' = "absent"
  /\ UNCHANGED <<memory, file, counter, root, kills, content>>

-----------------------------------------------------------------------------
(* The end of the process and its next start *)

Alive == phase \in {"up", "flushing", "flushed", "naming"}

Kill ==
  /\ Alive \/ phase \in {"closing", "closed", "unlinked"}
  /\ kills < MaxKills
  /\ buffered # None /\ meta # Torn => KillBeforeCount
  /\ index' = Empty /\ cache' = Empty /\ nextId' = 0 /\ failed' = FALSE
  /\ buffered' = None
  /\ phase' = IF phase = "unlinked" THEN "half dropped" ELSE "down"
  /\ kills' = kills + 1
  /\ content' = saved
  /\ UNCHANGED <<files, root, saved, oversized>>

\* An empty .meta file is read as the one of a table without name and columns:
\* the table is gone.
StartWithoutMeta ==
  /\ phase = "down" /\ meta = Torn
  /\ phase' = "lost"
  /\ UNCHANGED <<memory, files, root, kills, content, saved, oversized>>

\* The constructor reads the tree and then, to rebuild the unique indexes, every
\* record; it throws when a page is beyond the end of the file.  A page that
\* does not hold what its reader expects is not recognised: here the start ends.
Loads(t) == meta \notin {0, Torn, Absent} /\ InFile(meta) /\ FilePage(meta) = Node(t)

Down == phase \in {"down", "half dropped"} /\ meta \notin {Torn, Absent}

\* Without a .meta file there is no table, whatever else is left.
StartWithoutTable ==
  /\ phase = "down" /\ meta = Absent
  /\ phase' = "absent"
  /\ UNCHANGED <<memory, files, root, kills, content, saved, oversized>>

StartFails ==
  /\ Down /\ meta # 0
  /\ ~\E t \in Tree : Loads(t) /\ \A k \in DOMAIN t : InFile(t[k])
  /\ phase' = "refused"
  /\ UNCHANGED <<memory, files, root, kills, content, saved, oversized>>

\* Mutant: the constructor does not read the count.
Start_FromZero ==
  /\ Down
  /\ \E t \in Tree :
       /\ \/ meta = 0 /\ t = Empty
          \/ Loads(t) /\ \A k \in DOMAIN t : InFile(t[k])
       /\ index' = t
       /\ LET pages == {t[k] : k \in DOMAIN t} \cup ({meta} \ {0})
          IN  SaveTree(t, [p \in pages |-> FilePage(p)], 0)
  /\ phase' = "flushing"
  /\ UNCHANGED <<failed, buffered, files, kills, content, saved, oversized>>

\* The start ends in a saveMetadata, its page ids follow the count in the file.
Start ==
  /\ Down
  /\ \E t \in Tree :
       /\ \/ meta = 0 /\ t = Empty
          \/ Loads(t) /\ \A k \in DOMAIN t : InFile(t[k])
       /\ index' = t
       /\ LET pages == {t[k] : k \in DOMAIN t} \cup ({meta} \ {0})
          IN  SaveTree(t, [p \in pages |-> FilePage(p)], counter)
  /\ phase' = "flushing"
  /\ UNCHANGED <<failed, buffered, files, kills, content, saved, oversized>>

Next ==
  \/ \E k \in Keys, v \in Values : Insert(k, v)
  \/ \E k \in Keys : InsertTooLarge(k)
  \/ \E k \in Keys : Remove(k)
  \/ \E k \in Keys : Find(k)
  \/ BeginSave
  \/ \E p \in PageIds : WritePage(p)
  \/ EndFlush
  \/ EmptyMeta
  \/ WriteMeta
  \/ CreateTable \/ DropTable \/ CloseFile \/ RemoveFile \/ RemoveMeta
  \/ Kill
  \/ StartWithoutMeta \/ StartWithoutTable
  \/ StartFails
  \/ Start

Spec == Init /\ [][Next]_vars

-----------------------------------------------------------------------------
(* Properties *)

\* While the process is up, every key is there and its page holds the record
\* last given for it: across updates, flushes, kills and starts, as long as no
\* update was too large for a page (PageBasedIndex::insert, find, flush_all).
ReadsBack ==
  Alive /\ ~oversized =>
    /\ DOMAIN index = DOMAIN content
    /\ \A k \in DOMAIN content :
         Readable(index[k]) /\ PageOf(index[k]) = Data(content[k])

\* The image the files hold, starting from the page the .meta file names.
Holds(image) ==
  \/ meta \in {0, Absent} /\ image = Empty
  \/ \E t \in Tree :
       /\ Loads(t) /\ DOMAIN t = DOMAIN image
       /\ \A k \in DOMAIN t : InFile(t[k]) /\ FilePage(t[k]) = Data(image[k])

\* At every instant, also in the middle of a flush or of CREATE TABLE, the files hold
\* what the last saveMetadata that ended saved, and after DROP TABLE nothing, unless
\* the .meta file is empty just then, or the page file is removed and the .meta file
\* not yet, or an update was too large for a page.
Recoverable ==
  meta # Torn /\ ~oversized /\ phase \notin {"unlinked", "half dropped", "refused"}
    => Holds(saved)

LivePages ==
  {p \in PageIds : \E t \in Tree :
     Loads(t) /\ (p = meta \/ \E k \in DOMAIN t : p = t[k])}

\* But for DROP TABLE, nothing changes a page of the image that the .meta file names:
\* page ids are never given out twice, not by the next process either.
NoLivePageOverwritten ==
  [][phase # "closed" => \A p \in LivePages : FilePage(p)' = FilePage(p)]_vars

\* What find gives for every key of a running table, and what the files alone give
\* to a start.
Live ==
  IF Alive /\ ~oversized
  THEN [k \in DOMAIN index |-> IF Readable(index[k]) THEN PageOf(index[k]) ELSE None]
  ELSE None

ImageTree == IF meta = 0 THEN Empty ELSE CHOOSE t \in Tree : Loads(t)
Complete ==
  \/ meta = 0
  \/ \E t \in Tree : Loads(t) /\ \A k \in DOMAIN t : InFile(t[k])
Image ==
  IF oversized \/ meta = Torn \/ (meta # Absent /\ ~Complete) THEN Torn
  ELSE IF meta = Absent THEN Absent
  ELSE [k \in DOMAIN ImageTree |-> FilePage(ImageTree[k])]

StateOf ==
  IF oversized THEN "spoiled"
  ELSE IF phase = "absent" THEN "absent"
  ELSE IF phase \in {"up", "flushing", "flushed"} THEN "open"
  ELSE IF phase = "naming" THEN "saving"
  ELSE IF phase \in {"closing", "closed"} THEN "dropping"
  ELSE IF phase = "unlinked" THEN "removing"
  ELSE "closed"

Durable == INSTANCE DurableMap
  WITH Values <- {Data(v) : v \in Values}, Closed <- None, Broken <- Torn,
       state <- StateOf, live <- Live, image <- Image

\* The page file is a map with an image on disk: a start finds what the last save
\* that ended has saved, whole, wherever the process was killed but between the
\* emptying of the .meta file and its writing; a DROP TABLE cut short leaves the
\* table, or a name that no start opens, or an empty table.
ImplementsMap == Durable!Spec

=============================================================================
