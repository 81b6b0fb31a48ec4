------------------------------- MODULE Table -------------------------------
(***************************************************************************)
(* One table of a storage node: class Table of DbEngine.h with its         *)
(* TemporalManager (Temporal.cpp).  The rows live in a page based index,   *)
(* every change is appended to a temporal log that is flushed record by    *)
(* record, and the rows reach the disk only when saveMetadata runs.        *)
(* REVERT walks the log backwards.  The process may be killed at any       *)
(* moment (nothing in main() handles a signal) and be started again.       *)
(*                                                                         *)
(* A statement is one handler; DELETE, UPDATE and REVERT take one step per *)
(* row they touch, because each row is logged with a time of its own and a *)
(* crash can hit between two rows.  A multi-row INSERT is one Insert per   *)
(* row: SQLExecutor keeps no state between them.                           *)
(*                                                                         *)
(* Assumption: statements come one at a time (Ready).  The server gives    *)
(* every connection a thread and locks nothing, so that only its clients   *)
(* can see to this.                                                        *)
(***************************************************************************)
EXTENDS Naturals, Sequences

CONSTANTS
  Columns,       \* the columns of the table
  Constraint,    \* Constraint[c]: "NONE", "NOT_NULL" or "INDEXED"
  Domain,        \* Domain[c]: the values of the type of column c
  Default,       \* Default[c]: its DEFAULT, NULL when it has none
  Values, NULL,
  Conditions,    \* WHERE clauses, each as the set of rows it selects
  Assignments,   \* SET clauses, each as a function on some columns
  NoRow,         \* storage_ holds nothing under a row id
  NoId,          \* a unique index holds nothing under a value
  Lost,          \* history: what the table held then cannot be told any more
  RevertAllowed, \* whether the environment issues REVERT
  MaxRows, MaxTime, MaxLog   \* bounds of the instance

Value  == Values \cup {NULL}
Row    == [Columns -> Value]
RowIds == 0 .. (MaxRows - 1)
Time   == 0 .. MaxTime
Slot   == Row \cup {NoRow}
Image  == [RowIds -> Slot]
Indexed == {c \in Columns : Constraint[c] = "INDEXED"}

ASSUME ConstantsAssumption ==
  /\ MaxRows \in Nat /\ MaxTime \in Nat /\ MaxLog \in Nat
  /\ RevertAllowed \in BOOLEAN
  /\ NULL \notin Values
  /\ NoRow \notin Row
  /\ NoId \notin RowIds
  /\ Lost \notin Image
  /\ Constraint \in [Columns -> {"NONE", "NOT_NULL", "INDEXED"}]
  /\ Domain \in [Columns -> SUBSET Values]
  /\ Default \in [Columns -> Value]
  /\ Conditions \subseteq SUBSET Row
  /\ \A a \in Assignments : \E S \in SUBSET Columns : a \in [S -> Value]

\* A record of the temporal log.  The operation is told by the two rows: an
\* INSERT has no old row, a DELETE no new one.
LogRecord == [ts : Time, id : RowIds, old : Slot, new : Slot]

VARIABLES
  rows,      \* storage_, in memory
  rowCount,  \* metadata_.row_count, in memory
  uniq,      \* unique_indexes_: for an INDEXED column, value to row id
  log,       \* the .log file
  disk,      \* what the .tbl and .meta files hold: rows and row count
  stmt,      \* the statement in progress and how far it is
  saving,    \* saveMetadata is running
  clock,     \* system_clock, in the log's unit (milliseconds)
  \* history, read by the properties only
  timeline,  \* what the table held at each past instant
  savedAt    \* when the image on disk was written

vars == <<rows, rowCount, uniq, log, disk, stmt, saving, clock,
          timeline, savedAt>>

Idle == [op |-> "idle"]
Down == [op |-> "down"]

Stmt ==
  [op : {"idle", "close", "down", "refused", "damaged"}]
    \cup [op : {"delete"}, cond : Conditions, next : Nat]
    \cup [op : {"update"}, cond : Conditions, set : Assignments, next : Nat]
    \cup [op : {"revert"}, target : Time, left : Nat]

TypeOK ==
  /\ rows \in Image
  /\ rowCount \in 0 .. MaxRows
  /\ uniq \in [Indexed -> [Values -> RowIds \cup {NoId}]]
  /\ log \in Seq(LogRecord)
  /\ disk \in [rows : Image, rowCount : 0 .. MaxRows]
  /\ stmt \in Stmt
  /\ stmt.op = "revert" => stmt.left <= Len(log)
  /\ saving \in BOOLEAN
  /\ clock \in Time
  /\ timeline \in [Time -> Image \cup {Lost}]
  /\ savedAt \in Time

-----------------------------------------------------------------------------
(* Rows, constraints and the unique indexes *)

\* normalizeRow: a column the INSERT does not name takes its DEFAULT.
NormalizeRow(given) ==
  [c \in Columns |-> IF c \in DOMAIN given THEN given[c] ELSE Default[c]]

\* isValueCompatibleWithColumn, with isNullable
Compatible(v, c) ==
  IF v = NULL THEN Constraint[c] = "NONE" ELSE v \in Domain[c]

Valid(row) == \A c \in Columns : Compatible(row[c], c)

\* Mutant: the row id is compared only when there is none.
CheckUnique_Loose(row, id) ==
  \A c \in Indexed : row[c] # NULL /\ (id = NoId => uniq[c][row[c]] = NoId)

\* checkUniqueConstraints: no INDEXED value of the row belongs to another row.
\* id is the row being updated, NoId for a new row.
CheckUnique(row, id) ==
  \A c \in Indexed : row[c] # NULL /\ uniq[c][row[c]] \in {NoId, id}

InsertIntoUnique(u, row, id) ==
  [c \in Indexed |-> [u[c] EXCEPT ![row[c]] = id]]

RemoveFromUnique(u, row) ==
  [c \in Indexed |-> [u[c] EXCEPT ![row[c]] = NoId]]

\* The row an UPDATE writes in place of row.
Assigned(row, set) ==
  [c \in Columns |-> IF c \in DOMAIN set THEN set[c] ELSE row[c]]

EmptyIndexes == [c \in Indexed |-> [v \in Values |-> NoId]]

Carries(image, i, c, v) == image[i] # NoRow /\ image[i][c] = v

\* rebuildIndexesFromStorage: the index entries of the rows of an image, and
\* the condition under which it throws.
Rebuilt(image) ==
  [c \in Indexed |-> [v \in Values |->
     IF \E i \in RowIds : Carries(image, i, c, v)
     THEN CHOOSE i \in RowIds : Carries(image, i, c, v)
     ELSE NoId]]

HasDuplicate(image) ==
  \E c \in Indexed, v \in Values, i, j \in RowIds :
    i # j /\ Carries(image, i, c, v) /\ Carries(image, j, c, v)

\* Mutant: the time of a record is rounded up to the log's unit.
Appended_RoundedUp(id, old, new) ==
  Append(log, [ts |-> clock + 1, id |-> id, old |-> old, new |-> new])

Appended(id, old, new) ==
  Append(log, [ts |-> clock, id |-> id, old |-> old, new |-> new])

\* Mutant: saveMetadata does not write row_count.
Memory_NoCount == [rows |-> rows, rowCount |-> disk.rowCount]

Memory == [rows |-> rows, rowCount |-> rowCount]

-----------------------------------------------------------------------------
Init ==
  /\ rows = [i \in RowIds |-> NoRow]
  /\ rowCount = 0
  /\ uniq = EmptyIndexes
  /\ log = <<>>
  /\ disk = [rows |-> rows, rowCount |-> 0]
  /\ stmt = Idle
  /\ saving = FALSE
  /\ clock = 0
  /\ timeline = [t \in Time |-> Lost]
  /\ savedAt = 0

Ready == stmt = Idle /\ ~saving

\* insertRow up to the call of saveMetadata.  A row that fails a check changes
\* nothing, so it needs no action.
InsertRow(given) ==
  LET row == NormalizeRow(given) IN
  /\ Ready
  /\ rowCount < MaxRows /\ Len(log) < MaxLog
  /\ Valid(row) /\ CheckUnique(row, NoId)
  /\ rows' = [rows EXCEPT ![rowCount] = row]
  /\ rowCount' = rowCount + 1
  /\ uniq' = InsertIntoUnique(uniq, row, rowCount)
  /\ log' = Appended(rowCount, NoRow, row)
  /\ saving' = TRUE
  /\ UNCHANGED <<disk, stmt, clock, timeline, savedAt>>

BeginDelete(cond) ==
  /\ Ready
  /\ stmt' = [op |-> "delete", cond |-> cond, next |-> 0]
  /\ UNCHANGED <<rows, rowCount, uniq, log, disk, saving, clock,
                 timeline, savedAt>>

BeginUpdate(cond, set) ==
  /\ Ready
  /\ stmt' = [op |-> "update", cond |-> cond, set |-> set, next |-> 0]
  /\ UNCHANGED <<rows, rowCount, uniq, log, disk, saving, clock,
                 timeline, savedAt>>

\* Row i of the scan is touched: it is there, the WHERE clause selects it and,
\* for an UPDATE, the new row passes every check (a row that fails one is
\* passed over and the scan goes on).
Touched(i) ==
  /\ i < rowCount
  /\ rows[i] # NoRow
  /\ rows[i] \in stmt.cond
  /\ stmt.op = "update" =>
       LET new == Assigned(rows[i], stmt.set)
       IN  Valid(new) /\ CheckUnique(new, i)

\* The scan moves to i: the first row from stmt.next on that it touches.
NextTouched(i) ==
  /\ i \in stmt.next .. (MaxRows - 1)
  /\ Touched(i)
  /\ \A j \in stmt.next .. (i - 1) : ~Touched(j)

\* Mutant: DELETE does not log the row it removes.
DeleteRow_Unlogged(i) ==
  /\ stmt.op = "delete" /\ ~saving
  /\ NextTouched(i)
  /\ uniq' = RemoveFromUnique(uniq, rows[i])
  /\ rows' = [rows EXCEPT ![i] = NoRow]
  /\ stmt' = [stmt EXCEPT !.next = i + 1]
  /\ UNCHANGED <<rowCount, log, disk, saving, clock, timeline, savedAt>>

DeleteRow(i) ==
  /\ stmt.op = "delete" /\ ~saving
  /\ NextTouched(i) /\ Len(log) < MaxLog
  /\ uniq' = RemoveFromUnique(uniq, rows[i])
  /\ log' = Appended(i, rows[i], NoRow)
  /\ rows' = [rows EXCEPT ![i] = NoRow]
  /\ stmt' = [stmt EXCEPT !.next = i + 1]
  /\ UNCHANGED <<rowCount, disk, saving, clock, timeline, savedAt>>

\* Mutant: the log record is built after the row is replaced.
UpdateRow_LogsLate(i) ==
  /\ stmt.op = "update" /\ ~saving
  /\ NextTouched(i) /\ Len(log) < MaxLog
  /\ LET new == Assigned(rows[i], stmt.set) IN
       /\ uniq' = InsertIntoUnique(RemoveFromUnique(uniq, rows[i]), new, i)
       /\ log' = Appended(i, new, new)
       /\ rows' = [rows EXCEPT ![i] = new]
  /\ stmt' = [stmt EXCEPT !.next = i + 1]
  /\ UNCHANGED <<rowCount, disk, saving, clock, timeline, savedAt>>

\* Mutant: the index entries of the replaced row stay.
UpdateRow_KeepsEntries(i) ==
  /\ stmt.op = "update" /\ ~saving
  /\ NextTouched(i) /\ Len(log) < MaxLog
  /\ LET new == Assigned(rows[i], stmt.set) IN
       /\ uniq' = InsertIntoUnique(uniq, new, i)
       /\ log' = Appended(i, rows[i], new)
       /\ rows' = [rows EXCEPT ![i] = new]
  /\ stmt' = [stmt EXCEPT !.next = i + 1]
  /\ UNCHANGED <<rowCount, disk, saving, clock, timeline, savedAt>>

UpdateRow(i) ==
  /\ stmt.op = "update" /\ ~saving
  /\ NextTouched(i) /\ Len(log) < MaxLog
  /\ LET new == Assigned(rows[i], stmt.set) IN
       /\ uniq' = InsertIntoUnique(RemoveFromUnique(uniq, rows[i]), new, i)
       /\ log' = Appended(i, rows[i], new)
       /\ rows' = [rows EXCEPT ![i] = new]
  /\ stmt' = [stmt EXCEPT !.next = i + 1]
  /\ UNCHANGED <<rowCount, disk, saving, clock, timeline, savedAt>>

\* The loop of deleteRows or updateRows is over.  Neither saves anything.
EndScan ==
  /\ stmt.op \in {"delete", "update"} /\ ~saving
  /\ \A i \in stmt.next .. (MaxRows - 1) : ~Touched(i)
  /\ stmt' = Idle
  /\ UNCHANGED <<rows, rowCount, uniq, log, disk, saving, clock,
                 timeline, savedAt>>

-----------------------------------------------------------------------------
(* REVERT: undo the records newer than the target, newest first, then drop *)
(* them from the log.                                                      *)

BeginRevert(target) ==
  /\ Ready /\ RevertAllowed
  /\ stmt' = [op |-> "revert", target |-> target, left |-> Len(log)]
  /\ timeline' = [t \in Time |-> IF t > target THEN Lost ELSE timeline[t]]
  /\ UNCHANGED <<rows, rowCount, uniq, log, disk, saving, clock,
                 savedAt>>

\* Mutant: the records of the target instant itself are undone too.
UndoPending_FromTarget ==
  stmt.op = "revert" /\ stmt.left > 0 /\ log[stmt.left].ts >= stmt.target

UndoPending ==
  stmt.op = "revert" /\ stmt.left > 0 /\ log[stmt.left].ts > stmt.target

\* applyUndo.  Only the undo of a DELETE maintains the unique indexes.
UndoRecord ==
  /\ UndoPending /\ ~saving
  /\ LET rec == log[stmt.left] IN
       /\ rows' = [rows EXCEPT ![rec.id] = rec.old]
       /\ IF rec.new = NoRow
          THEN /\ uniq' = InsertIntoUnique(uniq, rec.old, rec.id)
               /\ rowCount' = IF rec.id >= rowCount THEN rec.id + 1 ELSE rowCount
          ELSE UNCHANGED <<uniq, rowCount>>
  /\ stmt' = [stmt EXCEPT !.left = @ - 1]
  /\ saving' = TRUE
  /\ UNCHANGED <<log, disk, clock, timeline, savedAt>>

\* Mutant: the records of the target instant itself are dropped too.
Keeps_BeforeTarget(n, target) ==
  /\ \A k \in 1 .. n : log[k].ts < target
  /\ n < Len(log) => log[n + 1].ts >= target

\* truncateAfter keeps the first n records, up to the first one too new.
Keeps(n, target) ==
  /\ \A k \in 1 .. n : log[k].ts <= target
  /\ n < Len(log) => log[n + 1].ts > target

Truncating == stmt.op = "revert" /\ ~UndoPending /\ ~saving

FinishRevert ==
  /\ Truncating
  /\ \E n \in 0 .. Len(log) :
       Keeps(n, stmt.target) /\ log' = SubSeq(log, 1, n)
  /\ stmt' = Idle
  /\ timeline' = [t \in Time |->
       IF t > stmt.target /\ t < clock THEN rows ELSE timeline[t]]
  /\ UNCHANGED <<rows, rowCount, uniq, disk, saving, clock, savedAt>>

-----------------------------------------------------------------------------
(* saveMetadata, the end of the process and its next start *)

\* The pages are written to fresh page ids and the .meta file then names the
\* new root, so the image changes at one point.
FinishSave ==
  /\ saving
  /\ saving' = FALSE
  /\ disk' = Memory
  /\ savedAt' = clock
  /\ stmt' = IF stmt.op = "close" THEN Down ELSE stmt
  /\ uniq' = IF stmt.op = "close" THEN EmptyIndexes ELSE uniq
  /\ UNCHANGED <<rows, rowCount, log, clock, timeline>>

\* ~Database flushes every table.
Close ==
  /\ Ready
  /\ stmt' = [op |-> "close"]
  /\ saving' = TRUE
  /\ UNCHANGED <<rows, rowCount, uniq, log, disk, clock, timeline,
                 savedAt>>

\* The process is killed.  A save in progress may have reached the disk or
\* not; a truncation in progress (the file is emptied, then written again and
\* flushed) leaves the kept records or a prefix of them.
Alive == stmt.op \notin {"down", "refused", "damaged"}

CrashImages == {disk} \cup (IF saving THEN {Memory} ELSE {})

CrashLogLen(len) ==
  \/ len = Len(log)
  \/ Truncating /\ \E n \in len .. Len(log) : Keeps(n, stmt.target)

\* History: a crash loses what came after the save the image is from, and a
\* crash in a truncation every instant before a lost record that was to be kept.
Forgotten(t, image, len) ==
  \/ image # Memory /\ t >= savedAt
  \/ \E k \in (len + 1) .. Len(log) :
       t < log[k].ts /\ log[k].ts <= stmt.target

Crash(image, len) ==
  /\ Alive
  /\ image \in CrashImages /\ CrashLogLen(len)
  /\ disk' = image
  /\ rows' = image.rows
  /\ rowCount' = image.rowCount
  /\ uniq' = EmptyIndexes
  /\ log' = SubSeq(log, 1, len)
  /\ stmt' = Down
  /\ saving' = FALSE
  /\ timeline' = [t \in Time |->
       IF Forgotten(t, image, len) THEN Lost ELSE timeline[t]]
  /\ savedAt' = IF image = Memory THEN clock ELSE savedAt
  /\ UNCHANGED clock

\* The process is killed when the files hold no image: the .meta file has been
\* emptied and is not written yet, or the page counter of the .tbl file is still
\* in the stream's buffer, so that the next start writes over live pages (see
\* PageStore, which tells when; here any kill may find the files like that).
CrashDamaging ==
  /\ Alive
  /\ rows' = disk.rows
  /\ rowCount' = disk.rowCount
  /\ uniq' = EmptyIndexes
  /\ stmt' = [op |-> "damaged"]
  /\ saving' = FALSE
  /\ timeline' = [t \in Time |-> Lost]
  /\ UNCHANGED <<log, disk, clock, savedAt>>

\* The constructor: load, rebuild the unique indexes, save.
Open ==
  /\ stmt = Down
  /\ IF HasDuplicate(rows)
     THEN /\ stmt' = [op |-> "refused"]
          /\ UNCHANGED <<uniq, saving>>
     ELSE /\ stmt' = Idle
          /\ uniq' = Rebuilt(rows)
          /\ saving' = TRUE
  /\ UNCHANGED <<rows, rowCount, log, disk, clock, timeline, savedAt>>

Tick ==
  /\ clock < MaxTime
  /\ clock' = clock + 1
  /\ timeline' = [timeline EXCEPT ![clock] = IF stmt.op = "revert" THEN Lost
                                             ELSE rows]
  /\ UNCHANGED <<rows, rowCount, uniq, log, disk, stmt, saving, savedAt>>

Given == UNION {[S -> Value] : S \in SUBSET Columns}

Next ==
  \/ \E given \in Given : InsertRow(given)
  \/ \E cond \in Conditions : BeginDelete(cond)
  \/ \E cond \in Conditions, set \in Assignments : BeginUpdate(cond, set)
  \/ \E i \in RowIds : DeleteRow(i)
  \/ \E i \in RowIds : UpdateRow(i)
  \/ EndScan
  \/ \E target \in Time : BeginRevert(target)
  \/ UndoRecord
  \/ FinishRevert
  \/ FinishSave
  \/ Close
  \/ \E image \in {disk, Memory}, len \in 0 .. Len(log) : Crash(image, len)
  \/ CrashDamaging
  \/ Open
  \/ Tick

Spec == Init /\ [][Next]_vars

-----------------------------------------------------------------------------
(* Properties *)

\* Record k is the oldest one of its row after time t.
OldestAfter(k, t) ==
  /\ log[k].ts > t
  /\ \A j \in 1 .. (k - 1) : log[j].id = log[k].id => log[j].ts <= t

\* Undoing the records newer than t on an image gives the rows the table held
\* at t: a row without such a record is as it was, and for any other the oldest
\* of them names the row it held.
Explains(image, t) ==
  \A i \in RowIds :
    /\ (\A k \in 1 .. Len(log) : log[k].id = i => log[k].ts <= t)
         => image[i] = timeline[t][i]
    /\ \A k \in 1 .. Len(log) :
         log[k].id = i /\ OldestAfter(k, t) => log[k].old = timeline[t][i]

\* The log accounts for every change (logInsert, logUpdate, logDelete against
\* revertTo): undoing the records newer than t gives exactly the rows the table
\* held at t, in every state, in the middle of a statement or of a REVERT, and
\* after a crash for every t whose rows the crash did not lose.
LogExplainsRows == \A t \in Time : timeline[t] # Lost => Explains(rows, t)

\* The same of the image a crash now would leave on disk, for the instants
\* before its save: a crash that leaves an image costs nothing older than the
\* last saveMetadata, although DELETE and UPDATE log at once and save nothing.
LogExplainsDisk ==
  \A t \in Time : t < savedAt /\ timeline[t] # Lost => Explains(disk.rows, t)

\* A row whose memory and disk versions differ was logged since the last save,
\* or is one that the REVERT in progress has undone and not saved yet.
UnsavedIsLogged ==
  \A i \in RowIds : rows[i] # disk.rows[i] =>
    \E k \in 1 .. Len(log) :
      /\ log[k].id = i
      /\ \/ log[k].ts >= savedAt
         \/ stmt.op = "revert" /\ k > stmt.left

\* No row lies at or beyond row_count, where the scans of selectRows, deleteRows
\* and updateRows and the next start would not see it: not in memory, not in the
\* image on disk, and not after a crash between the log record of an INSERT and
\* its save, although the next INSERT then takes the same row id again.
NoRowBeyondCount ==
  \A i \in RowIds :
    /\ i >= rowCount => rows[i] = NoRow
    /\ i >= disk.rowCount => disk.rows[i] = NoRow

\* When a REVERT ends the table holds what it held at the target (Table::revertTo
\* with truncateAfter), also when an earlier attempt was cut short by a crash.
RevertRestores ==
  [][FinishRevert /\ timeline[stmt.target] # Lost
       => rows' = timeline[stmt.target]]_vars

\* The unique indexes say exactly which row holds which value (what
\* checkUniqueConstraints relies on), at every step of every statement.
IndexExact ==
  Alive =>
    \A c \in Indexed, v \in Values, i \in RowIds :
      uniq[c][v] = i <=> Carries(rows, i, c, v)

\* rebuildIndexesFromStorage never finds two rows with one INDEXED value, so
\* the node can always start again ("Duplicate value found while rebuilding
\* INDEXED constraint" is never thrown).
RebuildNeverThrows == stmt.op # "refused"

-----------------------------------------------------------------------------
(* The strengthening of LogExplainsRows that every step preserves *)

LogOrdered ==
  /\ \A j, k \in 1 .. Len(log) : j <= k => log[j].ts <= log[k].ts
  /\ \A k \in 1 .. Len(log) : log[k].ts <= clock

\* The history speaks of past instants only, and the last save is past.
HistoryIsPast ==
  /\ \A t \in Time : timeline[t] # Lost => t < clock
  /\ savedAt <= clock

\* Row i is back at the old row of the oldest of its records undone so far.
Undone(i) ==
  \E k \in (stmt.left + 1) .. Len(log) :
    /\ log[k].id = i /\ rows[i] = log[k].old
    /\ \A j \in (stmt.left + 1) .. (k - 1) : log[j].id # i

RevertProgress ==
  stmt.op = "revert" =>
    /\ \A t \in Time : timeline[t] # Lost => t <= stmt.target
    /\ \A k \in (stmt.left + 1) .. Len(log) :
         log[k].ts > stmt.target /\ Undone(log[k].id)
    /\ ~saving /\ stmt.left < Len(log) => disk.rows = rows

\* Row ids: the disk knows every id whose row the log can bring back.
IdsSaved ==
  /\ disk.rowCount <= rowCount
  /\ ~saving => disk.rowCount = rowCount
  /\ \A k \in 1 .. Len(log) : log[k].old # NoRow => log[k].id < disk.rowCount

RewindInv ==
  /\ LogOrdered /\ HistoryIsPast /\ RevertProgress
  /\ LogExplainsRows /\ LogExplainsDisk /\ UnsavedIsLogged
  /\ IdsSaved /\ NoRowBeyondCount

=============================================================================
