---------------------------- MODULE TableProofs ----------------------------
(***************************************************************************)
(* Theorems about Table, for every value of its constants.                 *)
(***************************************************************************)
EXTENDS Table, SequenceTheorems, TLAPS

-----------------------------------------------------------------------------
(* Operators of the model keep to their types. *)

\* normalizeRow returns a full row whatever columns the INSERT names.
LEMMA NormalizeType ==
  ASSUME NEW given \in Given
  PROVE  NormalizeRow(given) \in Row
BY ConstantsAssumption DEF NormalizeRow, Given, Row

\* An UPDATE turns a row into a row.
LEMMA AssignedType ==
  ASSUME NEW row \in Row, NEW set \in Assignments
  PROVE  Assigned(row, set) \in Row
BY ConstantsAssumption DEF Assigned, Row

\* The three operations on the unique indexes return unique indexes.
LEMMA UniqueType ==
  ASSUME NEW u \in [Indexed -> [Values -> RowIds \cup {NoId}]],
         NEW row, NEW id \in RowIds
  PROVE  /\ InsertIntoUnique(u, row, id) \in [Indexed -> [Values -> RowIds \cup {NoId}]]
         /\ RemoveFromUnique(u, row) \in [Indexed -> [Values -> RowIds \cup {NoId}]]
BY DEF InsertIntoUnique, RemoveFromUnique

LEMMA RebuiltType ==
  ASSUME NEW image
  PROVE  Rebuilt(image) \in [Indexed -> [Values -> RowIds \cup {NoId}]]
<1> SUFFICES ASSUME NEW c \in Indexed, NEW v \in Values,
                    \E i \in RowIds : Carries(image, i, c, v)
             PROVE  (CHOOSE i \in RowIds : Carries(image, i, c, v)) \in RowIds
  BY DEF Rebuilt
<1> QED
  OBVIOUS

\* A prefix of the log is a log.
LEMMA PrefixType ==
  ASSUME log \in Seq(LogRecord), NEW n \in 0 .. Len(log)
  PROVE  /\ SubSeq(log, 1, n) \in Seq(LogRecord)
         /\ Len(SubSeq(log, 1, n)) = n
         /\ \A k \in 1 .. n : SubSeq(log, 1, n)[k] = log[k]
<1>1. /\ SubSeq(log, 1, n) \in Seq(LogRecord)
      /\ Len(SubSeq(log, 1, n)) = (IF 1 <= n THEN n - 1 + 1 ELSE 0)
      /\ \A i \in 1 .. n - 1 + 1 : SubSeq(log, 1, n)[i] = log[1 + i - 1]
  <2>1. 1 \in Int /\ n \in Int /\ \A i \in 1 .. n : log[i] \in LogRecord
    OBVIOUS
  <2> HIDE DEF LogRecord
  <2> QED
    BY <2>1, SubSeqProperties
<1> QED
  BY <1>1

-----------------------------------------------------------------------------
LEMMA Bounds == MaxRows \in Nat /\ MaxTime \in Nat /\ MaxLog \in Nat
BY ConstantsAssumption

LEMMA InitTypeOK == Init => TypeOK
<1> SUFFICES ASSUME Init PROVE TypeOK
  OBVIOUS
<1> USE Bounds
<1>1. uniq \in [Indexed -> [Values -> RowIds \cup {NoId}]]
  BY DEF Init, EmptyIndexes
<1>2. log \in Seq(LogRecord)
  BY DEF Init
<1>3. rows \in Image /\ disk \in [rows : Image, rowCount : 0 .. MaxRows]
  BY DEF Init, Image, Slot
<1>4. stmt \in Stmt /\ stmt.op = "idle"
  BY DEF Init, Stmt, Idle
<1>5. timeline \in [Time -> Image \cup {Lost}]
  BY DEF Init
<1>6. clock \in Time /\ savedAt \in Time /\ rowCount \in 0 .. MaxRows
  BY DEF Init, Time
<1>7. saving \in BOOLEAN
  BY DEF Init
<1> QED
  BY <1>1, <1>2, <1>3, <1>4, <1>5, <1>6, <1>7 DEF TypeOK

\* A new record is a log record, and the log with it is a log.
LEMMA AppendedType ==
  ASSUME TypeOK, NEW id \in RowIds, NEW old \in Slot, NEW new \in Slot
  PROVE  /\ Appended(id, old, new) \in Seq(LogRecord)
         /\ Len(Appended(id, old, new)) = Len(log) + 1
         /\ \A k \in 1 .. Len(log) : Appended(id, old, new)[k] = log[k]
         /\ Appended(id, old, new)[Len(log) + 1]
              = [ts |-> clock, id |-> id, old |-> old, new |-> new]
BY DEF Appended, TypeOK, LogRecord

LEMMA NextTypeOK == TypeOK /\ [Next]_vars => TypeOK'
<1> SUFFICES ASSUME TypeOK, [Next]_vars PROVE TypeOK'
  OBVIOUS
<1> USE Bounds
<1>1. ASSUME NEW given \in Given, InsertRow(given) PROVE TypeOK'
  <2>1. NormalizeRow(given) \in Row
    BY NormalizeType
  <2>2. rowCount \in RowIds
    BY <1>1 DEF InsertRow, TypeOK, RowIds
  <2>3. log' \in Seq(LogRecord)
    BY <1>1, <2>1, <2>2, AppendedType DEF InsertRow, Slot
  <2>4. uniq' \in [Indexed -> [Values -> RowIds \cup {NoId}]]
    BY <1>1, <2>2, UniqueType DEF InsertRow, TypeOK
  <2>5. rows' \in Image
    BY <1>1, <2>1, <2>2 DEF InsertRow, TypeOK, Image, Slot
  <2>6. rowCount' \in 0 .. MaxRows
    BY <1>1 DEF InsertRow, TypeOK
  <2>7. stmt = [op |-> "idle"] /\ stmt' = stmt
    BY <1>1 DEF InsertRow, Ready, Idle
  <2> QED
    BY <1>1, <2>3, <2>4, <2>5, <2>6, <2>7 DEF InsertRow, TypeOK
<1>2. ASSUME NEW cond \in Conditions, BeginDelete(cond) PROVE TypeOK'
  BY <1>2 DEF BeginDelete, TypeOK, Stmt
<1>3. ASSUME NEW cond \in Conditions, NEW set \in Assignments, BeginUpdate(cond, set)
      PROVE TypeOK'
  BY <1>3 DEF BeginUpdate, TypeOK, Stmt
<1>4. ASSUME NEW i \in RowIds, DeleteRow(i) PROVE TypeOK'
  <2>1. rows[i] \in Row
    BY <1>4 DEF DeleteRow, NextTouched, Touched, TypeOK, Image, Slot
  <2>2. log' \in Seq(LogRecord)
    BY <1>4, <2>1, AppendedType DEF DeleteRow, Slot
  <2>3. uniq' \in [Indexed -> [Values -> RowIds \cup {NoId}]]
    BY <1>4, UniqueType DEF DeleteRow, TypeOK
  <2>4. rows' \in Image
    BY <1>4 DEF DeleteRow, TypeOK, Image, Slot
  <2>5. stmt' = [op |-> "delete", cond |-> stmt.cond, next |-> i + 1]
        /\ stmt.cond \in Conditions
    BY <1>4 DEF DeleteRow, TypeOK, Stmt
  <2>6. stmt' \in Stmt /\ stmt'.op = "delete"
    BY <2>5 DEF Stmt, RowIds
  <2> QED
    BY <1>4, <2>2, <2>3, <2>4, <2>6 DEF DeleteRow, TypeOK
<1>5. ASSUME NEW i \in RowIds, UpdateRow(i) PROVE TypeOK'
  <2>1. rows[i] \in Row /\ stmt.set \in Assignments
    BY <1>5 DEF UpdateRow, NextTouched, Touched, TypeOK, Image, Slot, Stmt
  <2>2. Assigned(rows[i], stmt.set) \in Row
    BY <2>1, AssignedType
  <2>3. log' \in Seq(LogRecord)
    BY <1>5, <2>1, <2>2, AppendedType DEF UpdateRow, Slot
  <2>4. uniq' \in [Indexed -> [Values -> RowIds \cup {NoId}]]
    BY <1>5, UniqueType DEF UpdateRow, TypeOK
  <2>5. rows' \in Image
    BY <1>5, <2>2 DEF UpdateRow, TypeOK, Image, Slot
  <2>6. stmt' = [op |-> "update", cond |-> stmt.cond, set |-> stmt.set, next |-> i + 1]
        /\ stmt.cond \in Conditions
    BY <1>5 DEF UpdateRow, TypeOK, Stmt
  <2>7. stmt' \in Stmt /\ stmt'.op = "update"
    BY <2>1, <2>6 DEF Stmt, RowIds
  <2> QED
    BY <1>5, <2>3, <2>4, <2>5, <2>7 DEF UpdateRow, TypeOK
<1>6. CASE EndScan
  BY <1>6 DEF EndScan, TypeOK, Stmt, Idle
<1>7. ASSUME NEW target \in Time, BeginRevert(target) PROVE TypeOK'
  <2>1. stmt' \in Stmt
    BY <1>7 DEF BeginRevert, TypeOK, Stmt
  <2>2. timeline' \in [Time -> Image \cup {Lost}]
    BY <1>7 DEF BeginRevert, TypeOK
  <2> QED
    BY <1>7, <2>1, <2>2 DEF BeginRevert, TypeOK
<1>8. CASE UndoRecord
  <2>1. stmt.op = "revert" /\ stmt.left \in 1 .. Len(log) /\ stmt.target \in Time
    BY <1>8 DEF UndoRecord, UndoPending, TypeOK, Stmt
  <2>2. PICK rec \in LogRecord : rec = log[stmt.left]
    BY <2>1 DEF TypeOK
  <2>3. /\ rows' = [rows EXCEPT ![rec.id] = rec.old]
        /\ \/ uniq' = InsertIntoUnique(uniq, rec.old, rec.id)
           \/ uniq' = uniq
        /\ rowCount' \in {rec.id + 1, rowCount}
    BY <1>8, <2>2 DEF UndoRecord
  <2>4. rows' \in Image
    BY <2>3 DEF TypeOK, Image, LogRecord
  <2>5. rowCount' \in 0 .. MaxRows
    BY <2>3 DEF TypeOK, LogRecord, RowIds
  <2>6. uniq' \in [Indexed -> [Values -> RowIds \cup {NoId}]]
    BY <2>3, UniqueType DEF TypeOK, LogRecord
  <2>7. stmt' = [op |-> "revert", target |-> stmt.target, left |-> stmt.left - 1]
    BY <1>8, <2>1 DEF UndoRecord, TypeOK, Stmt
  <2>8. stmt' \in Stmt /\ stmt'.left <= Len(log)
    BY <2>1, <2>7 DEF TypeOK, Stmt
  <2> QED
    BY <1>8, <2>1, <2>4, <2>5, <2>6, <2>7, <2>8 DEF UndoRecord, TypeOK
<1>9. CASE FinishRevert
  <2>1. PICK n \in 0 .. Len(log) : log' = SubSeq(log, 1, n)
    BY <1>9 DEF FinishRevert
  <2>2. log' \in Seq(LogRecord)
    BY <2>1, PrefixType DEF TypeOK
  <2>3. timeline' \in [Time -> Image \cup {Lost}]
    BY <1>9 DEF FinishRevert, TypeOK
  <2> QED
    BY <1>9, <2>2, <2>3 DEF FinishRevert, TypeOK, Stmt, Idle
<1>10. CASE FinishSave
  <2>1. stmt' \in Stmt
    BY <1>10 DEF FinishSave, TypeOK, Stmt, Down
  <2>2. uniq' \in [Indexed -> [Values -> RowIds \cup {NoId}]]
    BY <1>10 DEF FinishSave, TypeOK, EmptyIndexes
  <2>3. disk' \in [rows : Image, rowCount : 0 .. MaxRows]
    BY <1>10 DEF FinishSave, TypeOK, Memory
  <2>4. stmt'.op = "revert" => stmt'.left <= Len(log)
    BY <1>10 DEF FinishSave, TypeOK, Down
  <2> QED
    BY <1>10, <2>1, <2>2, <2>3, <2>4 DEF FinishSave, TypeOK
<1>11. CASE Close
  BY <1>11 DEF Close, TypeOK, Stmt
<1>12. ASSUME NEW image \in {disk, Memory}, NEW len \in 0 .. Len(log), Crash(image, len)
       PROVE TypeOK'
  <2>1. image \in [rows : Image, rowCount : 0 .. MaxRows]
    BY DEF TypeOK, Memory
  <2>2. log' \in Seq(LogRecord)
    BY <1>12, PrefixType DEF Crash, TypeOK
  <2>3. timeline' \in [Time -> Image \cup {Lost}]
    BY <1>12 DEF Crash, TypeOK
  <2>4. uniq' \in [Indexed -> [Values -> RowIds \cup {NoId}]]
    BY <1>12 DEF Crash, EmptyIndexes
  <2> QED
    BY <1>12, <2>1, <2>2, <2>3, <2>4 DEF Crash, TypeOK, Stmt, Down
<1>13. CASE Open
  <2>1. uniq' \in [Indexed -> [Values -> RowIds \cup {NoId}]]
    BY <1>13, RebuiltType DEF Open, TypeOK
  <2>2. stmt' \in Stmt /\ stmt'.op # "revert"
    BY <1>13 DEF Open, Stmt, Idle
  <2>3. saving' \in BOOLEAN
    BY <1>13 DEF Open, TypeOK
  <2> QED
    BY <1>13, <2>1, <2>2, <2>3 DEF Open, TypeOK
<1>14. CASE Tick
  BY <1>14 DEF Tick, TypeOK, Time
<1>15. CASE UNCHANGED vars
  BY <1>15 DEF vars, TypeOK
<1>16. CASE CrashDamaging
  BY <1>16 DEF CrashDamaging, TypeOK, Stmt, EmptyIndexes
<1> QED
  BY <1>1, <1>2, <1>3, <1>4, <1>5, <1>6, <1>7, <1>8, <1>9, <1>10, <1>11,
     <1>12, <1>13, <1>14, <1>15, <1>16 DEF Next

\* Every variable keeps its type, whatever the sizes of the instance.
THEOREM TypeCorrect == Spec => []TypeOK
<1> QED
  BY InitTypeOK, NextTypeOK, PTL DEF Spec

-----------------------------------------------------------------------------
(* RewindInv is inductive.  The steps fall into six kinds. *)

LEMMA InitRewind == Init => RewindInv
<1> SUFFICES ASSUME Init PROVE RewindInv
  OBVIOUS
<1>1. Len(log) = 0 /\ \A t \in Time : timeline[t] = Lost
  BY DEF Init
<1>2. rows = disk.rows /\ rowCount = 0 /\ disk.rowCount = 0 /\ \A i \in RowIds : rows[i] = NoRow
  BY DEF Init
<1>3. stmt.op # "revert" /\ clock = 0 /\ savedAt = 0
  BY DEF Init, Idle
<1> QED
  BY <1>1, <1>2, <1>3
  DEF RewindInv, LogOrdered, HistoryIsPast, RevertProgress, LogExplainsRows,
      LogExplainsDisk, UnsavedIsLogged, IdsSaved, NoRowBeyondCount

\* A step outside REVERT that touches neither rows, log nor disk.
LEMMA QuietStep ==
  ASSUME TypeOK, RewindInv, stmt.op # "revert", stmt'.op # "revert",
         UNCHANGED <<rows, rowCount, log, disk, clock, timeline, savedAt>>,
         saving => saving'
  PROVE  RewindInv'
<1>1. LogOrdered' /\ HistoryIsPast' /\ RevertProgress'
  BY DEF RewindInv, LogOrdered, HistoryIsPast, RevertProgress
<1>2. LogExplainsRows' /\ LogExplainsDisk'
  BY DEF RewindInv, LogExplainsRows, LogExplainsDisk, Explains, OldestAfter
<1>3. UnsavedIsLogged' /\ IdsSaved' /\ NoRowBeyondCount'
  BY DEF RewindInv, UnsavedIsLogged, IdsSaved, NoRowBeyondCount
<1> QED
  BY <1>1, <1>2, <1>3 DEF RewindInv

\* A step that changes one row and logs the change.
LEMMA LoggedStep ==
  ASSUME TypeOK, RewindInv, stmt.op # "revert", stmt'.op # "revert",
         NEW id \in RowIds, NEW new \in Slot,
         log' = Appended(id, rows[id], new),
         rows' = [rows EXCEPT ![id] = new],
         rowCount' \in Nat, id < rowCount', rowCount <= rowCount', ~saving,
         rowCount' = rowCount \/ (saving' /\ rows[id] = NoRow),
         UNCHANGED <<disk, clock, timeline, savedAt>>
  PROVE  RewindInv'
<1> DEFINE L == Len(log)
<1>1. /\ Len(log') = L + 1 /\ L \in Nat
      /\ \A k \in 1 .. L : log'[k] = log[k]
      /\ log'[L + 1] = [ts |-> clock, id |-> id, old |-> rows[id], new |-> new]
  BY AppendedType DEF TypeOK, Image
<1>2. \A k \in 1 .. L : log[k].ts <= clock /\ log[k].ts \in Nat
  <2>1. \A k \in 1 .. L : log[k] \in LogRecord
    BY DEF TypeOK
  <2> QED
    BY <2>1 DEF RewindInv, LogOrdered, LogRecord, Time
<1>3. clock \in Nat /\ savedAt \in Nat /\ savedAt <= clock
  BY DEF RewindInv, HistoryIsPast, TypeOK, Time
<1> HIDE DEF L
<1>4. \A k \in 1 .. (L + 1) : k \in 1 .. L \/ k = L + 1
  BY <1>1
<1>5. LogOrdered'
  <2>1. \A k \in 1 .. (L + 1) : log'[k].ts <= clock
    BY <1>1, <1>2, <1>3, <1>4
  <2>2. \A j, k \in 1 .. L : j <= k => log[j].ts <= log[k].ts
    BY DEF RewindInv, LogOrdered, L
  <2>3. ASSUME NEW j \in 1 .. (L + 1), NEW k \in 1 .. (L + 1), j <= k
        PROVE  log'[j].ts <= log'[k].ts
    <3>1. CASE k = L + 1
      BY <1>1, <2>1, <3>1
    <3>2. CASE k \in 1 .. L
      BY <1>1, <2>2, <2>3, <3>2
    <3> QED
      BY <1>4, <3>1, <3>2
  <2> QED
    BY <1>1, <2>1, <2>3 DEF LogOrdered
<1>6. HistoryIsPast' /\ RevertProgress'
  BY DEF RewindInv, HistoryIsPast, RevertProgress
<1>7. ASSUME NEW t \in Time, t < clock, NEW i \in RowIds, NEW k \in 1 .. (L + 1),
             Explains(rows, t), log'[k].id = i, OldestAfter(k, t)'
      PROVE  log'[k].old = timeline[t][i]
  <2>1. CASE k \in 1 .. L
    <3>1. OldestAfter(k, t)
      <4>1. \A j \in 1 .. (k - 1) : j \in 1 .. L /\ log'[j] = log[j]
        BY <1>1, <2>1
      <4>2. /\ log'[k].ts > t
            /\ \A j \in 1 .. (k - 1) : log'[j].id = log'[k].id => log'[j].ts <= t
        BY <1>7 DEF OldestAfter
      <4> QED
        BY <1>1, <2>1, <4>1, <4>2 DEF OldestAfter
    <3> QED
      BY <1>1, <1>7, <2>1, <3>1 DEF Explains, L
  <2>2. CASE k = L + 1
    <3>1. i = id /\ log'[k].old = rows[i]
      BY <1>1, <1>7, <2>2
    <3>2. \A j \in 1 .. L : log[j].id = i => log[j].ts <= t
      BY <1>1, <1>7, <2>2, <3>1 DEF OldestAfter
    <3> QED
      BY <1>7, <3>1, <3>2 DEF Explains, L
  <2> QED
    BY <1>4, <2>1, <2>2
<1>8. LogExplainsRows'
  <2> SUFFICES ASSUME NEW t \in Time, timeline[t] # Lost, NEW i \in RowIds
               PROVE  /\ (\A k \in 1 .. (L + 1) : log'[k].id = i => log'[k].ts <= t)
                            => rows'[i] = timeline[t][i]
                      /\ \A k \in 1 .. (L + 1) :
                           log'[k].id = i /\ OldestAfter(k, t)' => log'[k].old = timeline[t][i]
    BY <1>1 DEF LogExplainsRows, Explains
  <2>1. t < clock /\ Explains(rows, t)
    BY DEF RewindInv, HistoryIsPast, LogExplainsRows
  <2>2. ASSUME \A k \in 1 .. (L + 1) : log'[k].id = i => log'[k].ts <= t
        PROVE  rows'[i] = timeline[t][i]
    <3>1. i # id
      BY <1>1, <1>3, <2>1, <2>2 DEF Time
    <3>2. \A k \in 1 .. L : log[k].id = i => log[k].ts <= t
      BY <1>1, <2>2
    <3> QED
      BY <2>1, <3>1, <3>2 DEF Explains, L, TypeOK, Image
  <2> QED
    BY <1>7, <2>1, <2>2
<1>9. LogExplainsDisk'
  <2> SUFFICES ASSUME NEW t \in Time, t < savedAt, timeline[t] # Lost, NEW i \in RowIds
               PROVE  /\ (\A k \in 1 .. (L + 1) : log'[k].id = i => log'[k].ts <= t)
                            => disk.rows[i] = timeline[t][i]
                      /\ \A k \in 1 .. (L + 1) :
                           log'[k].id = i /\ OldestAfter(k, t)' => log'[k].old = timeline[t][i]
    BY <1>1 DEF LogExplainsDisk, Explains
  <2>1. t < clock /\ Explains(rows, t) /\ Explains(disk.rows, t)
    BY DEF RewindInv, HistoryIsPast, LogExplainsRows, LogExplainsDisk
  <2>2. ASSUME \A k \in 1 .. (L + 1) : log'[k].id = i => log'[k].ts <= t
        PROVE  disk.rows[i] = timeline[t][i]
    <3>1. \A k \in 1 .. L : log[k].id = i => log[k].ts <= t
      BY <1>1, <2>2
    <3> QED
      BY <2>1, <3>1 DEF Explains, L
  <2> QED
    BY <1>7, <2>1, <2>2
<1>10. UnsavedIsLogged'
  <2> SUFFICES ASSUME NEW i \in RowIds, rows'[i] # disk.rows[i]
               PROVE  \E k \in 1 .. (L + 1) : log'[k].id = i /\ log'[k].ts >= savedAt
    BY <1>1 DEF UnsavedIsLogged
  <2>1. CASE i = id
    BY <1>1, <1>3, <2>1
  <2>2. CASE i # id
    <3>1. rows[i] # disk.rows[i]
      BY <2>2 DEF TypeOK, Image
    <3>2. PICK k \in 1 .. L : log[k].id = i /\ log[k].ts >= savedAt
      BY <3>1 DEF RewindInv, UnsavedIsLogged, L
    <3> QED
      BY <1>1, <3>2
  <2> QED
    BY <2>1, <2>2
<1>11. IdsSaved' /\ NoRowBeyondCount'
  <2>1. disk.rowCount = rowCount /\ rowCount \in Nat /\ rowCount' \in Nat
    BY DEF RewindInv, IdsSaved, TypeOK
  <2>2. \A k \in 1 .. (L + 1) : log'[k].old # NoRow => log'[k].id < disk.rowCount
    BY <1>1, <1>4, <2>1 DEF RewindInv, IdsSaved, L
  <2>3. \A i \in RowIds : i >= rowCount' => rows'[i] = NoRow
    BY <2>1 DEF RewindInv, NoRowBeyondCount, TypeOK, Image, RowIds
  <2> QED
    BY <1>1, <2>1, <2>2, <2>3 DEF RewindInv, IdsSaved, NoRowBeyondCount
<1> QED
  BY <1>5, <1>6, <1>8, <1>9, <1>10, <1>11 DEF RewindInv

LEMMA BeginRevertStep ==
  ASSUME TypeOK, RewindInv, NEW target \in Time, BeginRevert(target)
  PROVE  RewindInv'
<1>1. /\ UNCHANGED <<rows, rowCount, log, disk, saving, clock, savedAt>>
      /\ stmt.op # "revert" /\ ~saving
      /\ stmt' = [op |-> "revert", target |-> target, left |-> Len(log)]
      /\ \A t \in Time : timeline'[t] = IF t > target THEN Lost ELSE timeline[t]
  BY DEF BeginRevert, Ready, Idle
<1>2. \A t \in Time : timeline'[t] # Lost =>
        timeline'[t] = timeline[t] /\ timeline[t] # Lost /\ t <= target
  BY <1>1 DEF Time
<1>3. LogOrdered' /\ HistoryIsPast'
  BY <1>1, <1>2 DEF RewindInv, LogOrdered, HistoryIsPast
<1>4. RevertProgress'
  <2>1. Len(log) \in Nat /\ \A k \in (Len(log) + 1) .. Len(log) : FALSE
    BY DEF TypeOK
  <2> QED
    BY <1>1, <1>2, <2>1 DEF RevertProgress
<1>5. LogExplainsRows' /\ LogExplainsDisk'
  BY <1>1, <1>2
  DEF RewindInv, LogExplainsRows, LogExplainsDisk, Explains, OldestAfter
<1>6. UnsavedIsLogged' /\ IdsSaved' /\ NoRowBeyondCount'
  BY <1>1 DEF RewindInv, UnsavedIsLogged, IdsSaved, NoRowBeyondCount
<1> QED
  BY <1>3, <1>4, <1>5, <1>6 DEF RewindInv

\* Undoing a record touches no row that was as it is now at an instant the
\* timeline still knows, since those instants are at or before the target.
LEMMA UndoStep ==
  ASSUME TypeOK, RewindInv, UndoRecord
  PROVE  RewindInv'
<1> DEFINE L == Len(log)
           n == stmt.left
           rec == log[n]
<1>1. /\ stmt.op = "revert" /\ n \in 1 .. L /\ stmt.target \in Time /\ L \in Nat
      /\ rec.ts > stmt.target /\ ~saving /\ saving'
      /\ UNCHANGED <<log, disk, clock, timeline, savedAt>>
      /\ rows' = [rows EXCEPT ![rec.id] = rec.old]
  BY DEF UndoRecord, UndoPending, TypeOK, Stmt
<1>2. stmt' = [op |-> "revert", target |-> stmt.target, left |-> n - 1]
  BY <1>1 DEF UndoRecord, TypeOK, Stmt
<1>3. rec \in LogRecord /\ \A k \in 1 .. L : log[k] \in LogRecord
  BY <1>1 DEF TypeOK
<1>4. rec.id \in RowIds /\ \A i \in RowIds : rows'[i] = IF i = rec.id THEN rec.old ELSE rows[i]
  BY <1>1, <1>3 DEF LogRecord, TypeOK, Image
<1>5. /\ \A t \in Time : timeline[t] # Lost => t <= stmt.target
      /\ \A k \in (n + 1) .. L : log[k].ts > stmt.target /\ Undone(log[k].id)
  BY <1>1 DEF RewindInv, RevertProgress
<1> HIDE DEF L, n, rec
<1>6. LogOrdered' /\ HistoryIsPast'
  BY <1>1 DEF RewindInv, LogOrdered, HistoryIsPast
<1>7. RevertProgress'
  <2>1. ASSUME NEW k \in n .. L
        PROVE  log[k].ts > stmt.target /\ Undone(log[k].id)'
    <3>1. k = n \/ k \in (n + 1) .. L
      BY <1>1
    <3>2. CASE log[k].id = rec.id
      <4>1. \A j \in n .. (n - 1) : FALSE
        BY <1>1
      <4>2. log[n].id = rec.id /\ rows'[rec.id] = log[n].old
        BY <1>4 DEF rec
      <4> QED
        BY <1>1, <1>2, <1>5, <3>1, <3>2, <4>1, <4>2 DEF Undone, L, rec
    <3>3. CASE log[k].id # rec.id
      <4>1. k \in (n + 1) .. L
        BY <3>1, <3>3 DEF rec
      <4>2. PICK m \in (n + 1) .. L :
              /\ log[m].id = log[k].id /\ rows[log[k].id] = log[m].old
              /\ \A j \in (n + 1) .. (m - 1) : log[j].id # log[k].id
        BY <1>5, <4>1 DEF Undone, L, n
      <4>3. log[k].id \in RowIds /\ rows'[log[k].id] = rows[log[k].id]
        BY <1>1, <1>3, <1>4, <3>3, <4>1 DEF LogRecord
      <4>4. \A j \in n .. (m - 1) : log[j].id # log[k].id
        BY <1>1, <3>3, <4>2 DEF rec
      <4>5. m \in n .. L
        BY <1>1, <4>2
      <4> QED
        BY <1>1, <1>2, <1>5, <4>1, <4>2, <4>3, <4>4, <4>5 DEF Undone, L
    <3> QED
      BY <3>2, <3>3
  <2> QED
    BY <1>1, <1>2, <1>5, <2>1 DEF RevertProgress, L
<1>8. LogExplainsRows'
  <2> SUFFICES ASSUME NEW t \in Time, timeline[t] # Lost, NEW i \in RowIds
               PROVE  /\ (\A k \in 1 .. L : log[k].id = i => log[k].ts <= t)
                            => rows'[i] = timeline[t][i]
                      /\ \A k \in 1 .. L :
                           log[k].id = i /\ OldestAfter(k, t) => log[k].old = timeline[t][i]
    BY <1>1 DEF LogExplainsRows, Explains, OldestAfter, L
  <2>1. Explains(rows, t) /\ t <= stmt.target
    BY <1>5 DEF RewindInv, LogExplainsRows
  <2>2. i = rec.id => log[n].id = i /\ ~(log[n].ts <= t)
    BY <1>1, <1>3, <2>1 DEF rec, LogRecord, Time
  <2> QED
    BY <1>1, <1>4, <2>1, <2>2 DEF Explains, L
<1>9. LogExplainsDisk'
  BY <1>1 DEF RewindInv, LogExplainsDisk, Explains, OldestAfter
<1>10. UnsavedIsLogged'
  <2> SUFFICES ASSUME NEW i \in RowIds, rows'[i] # disk.rows[i]
               PROVE  \E k \in 1 .. L : log[k].id = i /\ (log[k].ts >= savedAt \/ k > n - 1)
    BY <1>1, <1>2 DEF UnsavedIsLogged, L
  <2>1. CASE i = rec.id
    BY <1>1, <2>1 DEF rec
  <2>2. CASE i # rec.id
    <3>1. PICK k \in 1 .. L : log[k].id = i /\ (log[k].ts >= savedAt \/ k > n)
      BY <1>4, <2>2 DEF RewindInv, UnsavedIsLogged, L, n
    <3> QED
      BY <1>1, <3>1
  <2> QED
    BY <2>1, <2>2
<1>11. IdsSaved' /\ NoRowBeyondCount'
  <2>1. /\ disk.rowCount = rowCount /\ rowCount \in Nat /\ rec.id \in Nat
        /\ rowCount' = rowCount \/ rowCount' = rec.id + 1
        /\ rowCount' >= rowCount
    <3>1. rec.id \in Nat /\ rowCount \in Nat
      BY <1>4 DEF RowIds, TypeOK
    <3>2. rowCount' = rowCount \/ (rec.id >= rowCount /\ rowCount' = rec.id + 1)
      BY DEF UndoRecord, rec, n
    <3> QED
      BY <1>1, <3>1, <3>2 DEF RewindInv, IdsSaved
  <2>2. rec.old # NoRow => rec.id < rowCount
    BY <1>1, <2>1 DEF RewindInv, IdsSaved, rec, L
  <2>3. \A i \in RowIds : i >= rowCount' => rows'[i] = NoRow
    BY <1>4, <2>1, <2>2 DEF RewindInv, NoRowBeyondCount, RowIds
  <2> QED
    BY <1>1, <2>1, <2>3 DEF RewindInv, IdsSaved, NoRowBeyondCount
<1> QED
  BY <1>6, <1>7, <1>8, <1>9, <1>10, <1>11 DEF RewindInv

LEMMA SaveStep ==
  ASSUME TypeOK, RewindInv, FinishSave
  PROVE  RewindInv'
<1>1. /\ saving /\ ~saving' /\ savedAt' = clock
      /\ disk' = [rows |-> rows, rowCount |-> rowCount]
      /\ disk'.rows = rows /\ disk'.rowCount = rowCount
      /\ UNCHANGED <<rows, rowCount, log, clock, timeline>>
      /\ stmt' = stmt \/ (stmt.op # "revert" /\ stmt'.op # "revert")
  BY DEF FinishSave, Memory, Down
<1>2. clock \in Nat /\ rowCount \in Nat /\ disk.rowCount \in Nat
  BY DEF TypeOK, Time
<1>3. LogOrdered' /\ HistoryIsPast'
  BY <1>1, <1>2 DEF RewindInv, LogOrdered, HistoryIsPast
<1>4. RevertProgress'
  BY <1>1 DEF RewindInv, RevertProgress, Undone
<1>5. LogExplainsRows' /\ LogExplainsDisk'
  BY <1>1
  DEF RewindInv, LogExplainsRows, LogExplainsDisk, Explains, OldestAfter
<1>6. UnsavedIsLogged' /\ NoRowBeyondCount'
  BY <1>1 DEF RewindInv, UnsavedIsLogged, NoRowBeyondCount
<1>7. IdsSaved'
  <2>1. ASSUME NEW k \in 1 .. Len(log), log[k].old # NoRow
        PROVE  log[k].id < rowCount
    <3>1. log[k].id < disk.rowCount /\ disk.rowCount <= rowCount
      BY <2>1 DEF RewindInv, IdsSaved
    <3>2. log[k] \in LogRecord
      BY DEF TypeOK
    <3>3. log[k].id \in Nat
      BY <3>2 DEF LogRecord, RowIds
    <3> QED
      BY <1>2, <3>1, <3>3
  <2> QED
    BY <1>1, <1>2, <2>1 DEF IdsSaved
<1> QED
  BY <1>3, <1>4, <1>5, <1>6, <1>7 DEF RewindInv

LEMMA TickStep ==
  ASSUME TypeOK, RewindInv, Tick
  PROVE  RewindInv'
<1>1. /\ clock' = clock + 1 /\ clock \in Time /\ clock \in Nat /\ savedAt \in Nat
      /\ UNCHANGED <<rows, rowCount, log, disk, stmt, saving, savedAt>>
      /\ \A t \in Time : t # clock => timeline'[t] = timeline[t]
      /\ timeline'[clock] = IF stmt.op = "revert" THEN Lost ELSE rows
  BY DEF Tick, TypeOK, Time
<1>2. \A k \in 1 .. Len(log) : log[k].ts \in Nat /\ log[k].ts <= clock
  <2>1. \A k \in 1 .. Len(log) : log[k] \in LogRecord
    BY DEF TypeOK
  <2> QED
    BY <2>1 DEF LogRecord, Time, RewindInv, LogOrdered
<1>3. LogOrdered'
  BY <1>1, <1>2 DEF RewindInv, LogOrdered
<1>4. HistoryIsPast'
  BY <1>1 DEF RewindInv, HistoryIsPast, Time
<1>5. RevertProgress'
  BY <1>1 DEF RewindInv, RevertProgress, Undone
<1>6. LogExplainsRows'
  <2> SUFFICES ASSUME NEW t \in Time, timeline'[t] # Lost
               PROVE  Explains(rows, t)'
    BY DEF LogExplainsRows
  <2>1. CASE t = clock
    <3>1. timeline'[t] = rows
      BY <1>1, <2>1
    <3>2. \A k \in 1 .. Len(log) : ~(log[k].ts > t)
      BY <1>1, <1>2, <2>1
    <3> QED
      BY <1>1, <3>1, <3>2 DEF Explains, OldestAfter
  <2>2. CASE t # clock
    BY <1>1, <2>2 DEF RewindInv, LogExplainsRows, Explains, OldestAfter
  <2> QED
    BY <2>1, <2>2
<1>7. LogExplainsDisk'
  <2> SUFFICES ASSUME NEW t \in Time, t < savedAt, timeline'[t] # Lost
               PROVE  Explains(disk.rows, t)'
    BY <1>1 DEF LogExplainsDisk
  <2>1. t # clock
    BY <1>1 DEF RewindInv, HistoryIsPast, Time
  <2> QED
    BY <1>1, <2>1 DEF RewindInv, LogExplainsDisk, Explains, OldestAfter
<1>8. UnsavedIsLogged' /\ IdsSaved' /\ NoRowBeyondCount'
  BY <1>1 DEF RewindInv, UnsavedIsLogged, IdsSaved, NoRowBeyondCount
<1> QED
  BY <1>3, <1>4, <1>5, <1>6, <1>7, <1>8 DEF RewindInv

-----------------------------------------------------------------------------
(* The end of a REVERT, whole or cut short *)

\* The records a REVERT keeps are those it has not undone.
LEMMA KeptAreNotUndone ==
  ASSUME TypeOK, RewindInv, Truncating, NEW n \in 0 .. Len(log), Keeps(n, stmt.target)
  PROVE  n = stmt.left
<1>1. /\ stmt.op = "revert" /\ stmt.left \in 0 .. Len(log) /\ stmt.target \in Nat
      /\ Len(log) \in Nat
      /\ stmt.left > 0 => log[stmt.left].ts <= stmt.target
  <2>1. /\ stmt.op = "revert" /\ stmt.left \in 0 .. Len(log) /\ stmt.target \in Nat
        /\ stmt.left > 0 => log[stmt.left] \in LogRecord
    BY DEF Truncating, TypeOK, Stmt, Time
  <2>2. ~(stmt.left > 0 /\ log[stmt.left].ts > stmt.target)
    BY <2>1 DEF Truncating, UndoPending
  <2> QED
    BY <2>1, <2>2 DEF LogRecord, Time, TypeOK
<1>2. \A k \in 1 .. Len(log) : log[k].ts \in Nat
  <2>1. \A k \in 1 .. Len(log) : log[k] \in LogRecord
    BY DEF TypeOK
  <2> QED
    BY <2>1 DEF LogRecord, Time
<1>3. \A k \in (stmt.left + 1) .. Len(log) : log[k].ts > stmt.target
  BY <1>1 DEF RewindInv, RevertProgress
<1>4. ~(n < stmt.left)
  <2> SUFFICES ASSUME n < stmt.left PROVE FALSE
    OBVIOUS
  <2>1. n + 1 \in 1 .. Len(log) /\ stmt.left \in 1 .. Len(log) /\ n + 1 <= stmt.left
    BY <1>1
  <2>2. log[n + 1].ts > stmt.target
    BY <1>1 DEF Keeps
  <2>3. log[n + 1].ts <= log[stmt.left].ts
    BY <2>1 DEF RewindInv, LogOrdered
  <2> QED
    BY <1>1, <1>2, <2>1, <2>2, <2>3
<1>5. ~(stmt.left < n)
  <2> SUFFICES ASSUME stmt.left < n PROVE FALSE
    OBVIOUS
  <2>1. stmt.left + 1 \in 1 .. n /\ stmt.left + 1 \in (stmt.left + 1) .. Len(log)
        /\ stmt.left + 1 \in 1 .. Len(log)
    BY <1>1
  <2>2. log[stmt.left + 1].ts <= stmt.target
    BY <2>1 DEF Keeps
  <2> QED
    BY <1>1, <1>2, <1>3, <2>1, <2>2
<1> QED
  BY <1>1, <1>4, <1>5

\* What is left of the log after a truncation explains the rows the REVERT has
\* restored, at every instant up to the target that the lost part of the log
\* does not concern.
LEMMA TruncatedExplains ==
  ASSUME TypeOK, RewindInv, Truncating,
         NEW len \in 0 .. stmt.left,
         NEW t \in Time, t <= stmt.target, timeline[t] # Lost,
         \A k \in (len + 1) .. stmt.left : log[k].ts <= t,
         NEW image, Explains(image, t), image = rows \/ stmt.left = Len(log),
         NEW i \in RowIds
  PROVE  /\ (\A k \in 1 .. len : log[k].id = i => log[k].ts <= t)
               => image[i] = timeline[t][i]
         /\ \A k \in 1 .. len :
              log[k].id = i /\ OldestAfter(k, t) => log[k].old = timeline[t][i]
<1>1. /\ stmt.op = "revert" /\ stmt.left \in 0 .. Len(log) /\ stmt.target \in Nat
      /\ Len(log) \in Nat /\ t \in Nat
  BY DEF Truncating, TypeOK, Stmt, Time
<1>2. \A k \in 1 .. Len(log) : log[k].ts \in Nat
  <2>1. \A k \in 1 .. Len(log) : log[k] \in LogRecord
    BY DEF TypeOK
  <2> QED
    BY <2>1 DEF LogRecord, Time
<1>3. ASSUME \A k \in 1 .. len : log[k].id = i => log[k].ts <= t
      PROVE  image[i] = timeline[t][i]
  <2>1. \A k \in 1 .. stmt.left : log[k].id = i => log[k].ts <= t
    BY <1>1, <1>3
  <2>2. CASE \A k \in 1 .. Len(log) : log[k].id = i => log[k].ts <= t
    BY <2>2 DEF Explains
  <2>3. CASE \E k \in 1 .. Len(log) : log[k].id = i /\ ~(log[k].ts <= t)
    <3>1. PICK k \in 1 .. Len(log) : log[k].id = i /\ ~(log[k].ts <= t)
      BY <2>3
    <3>2. k \in (stmt.left + 1) .. Len(log)
      BY <1>1, <2>1, <3>1
    <3>3. Undone(i)
      BY <1>1, <3>1, <3>2 DEF RewindInv, RevertProgress
    <3>4. PICK m \in (stmt.left + 1) .. Len(log) :
            /\ log[m].id = i /\ rows[i] = log[m].old
            /\ \A j \in (stmt.left + 1) .. (m - 1) : log[j].id # i
      BY <3>3 DEF Undone
    <3>5. m \in 1 .. Len(log) /\ log[m].ts > stmt.target
      BY <1>1, <3>4 DEF RewindInv, RevertProgress
    <3>6. OldestAfter(m, t)
      <4>1. \A j \in 1 .. (m - 1) : j \in 1 .. stmt.left \/ j \in (stmt.left + 1) .. (m - 1)
        BY <1>1, <3>5
      <4> QED
        BY <1>1, <1>2, <2>1, <3>4, <3>5, <4>1 DEF OldestAfter
    <3>7. log[m].old = timeline[t][i]
      BY <3>4, <3>5, <3>6 DEF Explains
    <3>8. image = rows
      BY <1>1, <3>2
    <3> QED
      BY <3>4, <3>7, <3>8
  <2> QED
    BY <2>2, <2>3
<1>4. ASSUME NEW k \in 1 .. len, log[k].id = i, OldestAfter(k, t)
      PROVE  log[k].old = timeline[t][i]
  <2>1. k \in 1 .. Len(log)
    BY <1>1
  <2> QED
    BY <1>4, <2>1 DEF Explains
<1> QED
  BY <1>3, <1>4

LEMMA FinishRevertStep ==
  ASSUME TypeOK, RewindInv, FinishRevert
  PROVE  RewindInv'
<1>1. Truncating /\ stmt.op = "revert" /\ ~saving
  BY DEF FinishRevert, Truncating
<1>2. /\ stmt.left \in 0 .. Len(log) /\ stmt.target \in Nat /\ Len(log) \in Nat
      /\ clock \in Nat /\ savedAt \in Nat
  BY <1>1 DEF TypeOK, Stmt, Time
<1>3. /\ UNCHANGED <<rows, rowCount, disk, clock, saving, savedAt>>
      /\ stmt'.op # "revert"
      /\ \A t \in Time :
           timeline'[t] = IF t > stmt.target /\ t < clock THEN rows ELSE timeline[t]
  BY DEF FinishRevert, Idle
<1>4. PICK n \in 0 .. Len(log) : Keeps(n, stmt.target) /\ log' = SubSeq(log, 1, n)
  BY DEF FinishRevert
<1>5. n = stmt.left
  BY <1>1, <1>4, KeptAreNotUndone
<1>6. /\ Len(log') = stmt.left
      /\ \A k \in 1 .. stmt.left : log'[k] = log[k]
  BY <1>4, <1>5, PrefixType DEF TypeOK
<1>7. \A k \in 1 .. stmt.left : log[k].ts <= stmt.target /\ log[k].ts \in Nat
  <2>1. \A k \in 1 .. stmt.left : log[k] \in LogRecord
    BY <1>2 DEF TypeOK
  <2> QED
    BY <1>4, <1>5, <2>1 DEF Keeps, LogRecord, Time
<1>8. disk.rows = rows \/ stmt.left = Len(log)
  BY <1>1, <1>2 DEF RewindInv, RevertProgress
<1>9. LogOrdered'
  BY <1>2, <1>3, <1>6, SMTT(30) DEF RewindInv, LogOrdered
<1>10. HistoryIsPast' /\ RevertProgress'
  BY <1>3 DEF RewindInv, HistoryIsPast, RevertProgress
<1>11. ASSUME NEW t \in Time, NEW image, NEW i \in RowIds,
              image = rows \/ (image = disk.rows /\ t < savedAt),
              timeline'[t] # Lost
       PROVE  /\ (\A k \in 1 .. stmt.left : log[k].id = i => log[k].ts <= t)
                   => image[i] = timeline'[t][i]
              /\ \A k \in 1 .. stmt.left :
                   log[k].id = i /\ OldestAfter(k, t) => log[k].old = timeline'[t][i]
  <2>1. CASE t > stmt.target /\ t < clock
    <3>1. timeline'[t] = rows
      BY <1>3, <2>1
    <3>2. \A k \in 1 .. stmt.left : ~(log[k].ts > t)
      BY <1>2, <1>7, <2>1 DEF Time
    <3>3. image[i] = rows[i]
      <4> SUFFICES ASSUME disk.rows[i] # rows[i], t < savedAt PROVE FALSE
        BY <1>11
      <4>1. PICK k \in 1 .. Len(log) : log[k].id = i /\ (log[k].ts >= savedAt \/ k > stmt.left)
        BY DEF RewindInv, UnsavedIsLogged
      <4>2. stmt.left = Len(log)
        BY <1>8
      <4> QED
        BY <1>2, <1>7, <2>1, <4>1, <4>2 DEF Time
    <3> QED
      BY <3>1, <3>2, <3>3 DEF OldestAfter
  <2>2. CASE ~(t > stmt.target /\ t < clock)
    <3>1. timeline'[t] = timeline[t] /\ timeline[t] # Lost
      BY <1>3, <1>11, <2>2
    <3>2. t <= stmt.target
      BY <1>1, <3>1 DEF RewindInv, RevertProgress
    <3>3. Explains(image, t)
      BY <1>11, <3>1 DEF RewindInv, LogExplainsRows, LogExplainsDisk
    <3>4. image = rows \/ stmt.left = Len(log)
      BY <1>8, <1>11
    <3>5. stmt.left \in 0 .. stmt.left /\ \A k \in (stmt.left + 1) .. stmt.left : log[k].ts <= t
      BY <1>2
    <3> HIDE DEF TypeOK, RewindInv
    <3> QED
      BY <1>1, <3>1, <3>2, <3>3, <3>4, <3>5, TruncatedExplains
  <2> QED
    BY <2>1, <2>2
<1>12. ASSUME NEW t \in Time, NEW k \in 1 .. stmt.left
       PROVE  OldestAfter(k, t)' <=> OldestAfter(k, t)
  <2>1. \A j \in 1 .. (k - 1) : j \in 1 .. stmt.left
    BY <1>2
  <2> QED
    BY <1>6, <2>1 DEF OldestAfter
<1>13. LogExplainsRows'
  <2> SUFFICES ASSUME NEW t \in Time, timeline'[t] # Lost, NEW i \in RowIds
               PROVE  /\ (\A k \in 1 .. stmt.left : log[k].id = i => log[k].ts <= t)
                            => rows[i] = timeline'[t][i]
                      /\ \A k \in 1 .. stmt.left :
                           log[k].id = i /\ OldestAfter(k, t) => log[k].old = timeline'[t][i]
    BY <1>3, <1>6, <1>12 DEF LogExplainsRows, Explains
  <2> HIDE DEF RewindInv, TypeOK
  <2> QED
    BY <1>11
<1>14. LogExplainsDisk'
  <2> SUFFICES ASSUME NEW t \in Time, t < savedAt, timeline'[t] # Lost, NEW i \in RowIds
               PROVE  /\ (\A k \in 1 .. stmt.left : log[k].id = i => log[k].ts <= t)
                            => disk.rows[i] = timeline'[t][i]
                      /\ \A k \in 1 .. stmt.left :
                           log[k].id = i /\ OldestAfter(k, t) => log[k].old = timeline'[t][i]
    BY <1>3, <1>6, <1>12 DEF LogExplainsDisk, Explains
  <2> HIDE DEF RewindInv, TypeOK
  <2> QED
    BY <1>11
<1>15. UnsavedIsLogged'
  <2> SUFFICES ASSUME NEW i \in RowIds, rows[i] # disk.rows[i]
               PROVE  \E k \in 1 .. stmt.left : log[k].id = i /\ log[k].ts >= savedAt
    BY <1>3, <1>6 DEF UnsavedIsLogged
  <2>1. PICK k \in 1 .. Len(log) : log[k].id = i /\ (log[k].ts >= savedAt \/ k > stmt.left)
    BY DEF RewindInv, UnsavedIsLogged
  <2> QED
    BY <1>2, <1>8, <2>1
<1>16. IdsSaved' /\ NoRowBeyondCount'
  BY <1>2, <1>3, <1>6 DEF RewindInv, IdsSaved, NoRowBeyondCount
<1> QED
  BY <1>9, <1>10, <1>13, <1>14, <1>15, <1>16 DEF RewindInv

\* A crash, at any step of any statement.
LEMMA CrashStep ==
  ASSUME TypeOK, RewindInv,
         NEW image \in {disk, Memory}, NEW len \in 0 .. Len(log), Crash(image, len)
  PROVE  RewindInv'
<1>1. /\ disk' = image /\ rows' = image.rows /\ rowCount' = image.rowCount
      /\ log' = SubSeq(log, 1, len)
      /\ stmt'.op # "revert" /\ ~saving' /\ clock' = clock
      /\ savedAt' = IF image = Memory THEN clock ELSE savedAt
      /\ CrashLogLen(len)
      /\ \A t \in Time :
           timeline'[t] = IF Forgotten(t, image, len) THEN Lost ELSE timeline[t]
  BY DEF Crash, Down
<1>2. /\ clock \in Nat /\ savedAt \in Nat /\ rowCount \in Nat /\ disk.rowCount \in Nat
      /\ Len(log) \in Nat
  BY DEF TypeOK, Time
<1>3. /\ Len(log') = len
      /\ \A k \in 1 .. len : log'[k] = log[k]
  BY <1>1, PrefixType DEF TypeOK
<1>4. \A k \in 1 .. Len(log) : log[k].ts \in Nat /\ log[k].id \in Nat
  <2>1. \A k \in 1 .. Len(log) : log[k] \in LogRecord
    BY DEF TypeOK
  <2> QED
    BY <2>1 DEF LogRecord, Time, RowIds
<1>5. \A t \in Time : timeline'[t] # Lost =>
        timeline'[t] = timeline[t] /\ timeline[t] # Lost /\ ~Forgotten(t, image, len)
  BY <1>1
<1>6. image = Memory => image.rows = rows /\ image.rowCount = rowCount
  BY DEF Memory
<1>7. LogOrdered' /\ HistoryIsPast' /\ RevertProgress'
  <2>1. LogOrdered /\ HistoryIsPast
    BY DEF RewindInv
  <2>2. LogOrdered'
    BY <1>1, <1>2, <1>3, <2>1 DEF LogOrdered, CrashLogLen
  <2>3. HistoryIsPast'
    BY <1>1, <1>2, <1>5, <2>1 DEF HistoryIsPast
  <2>4. RevertProgress'
    BY <1>1 DEF RevertProgress
  <2> QED
    BY <2>2, <2>3, <2>4
<1>8. ASSUME NEW t \in Time, timeline'[t] # Lost, NEW i \in RowIds
      PROVE  /\ (\A k \in 1 .. len : log[k].id = i => log[k].ts <= t)
                  => image.rows[i] = timeline[t][i]
             /\ \A k \in 1 .. len :
                  log[k].id = i /\ OldestAfter(k, t) => log[k].old = timeline[t][i]
  <2>1. timeline[t] # Lost /\ ~Forgotten(t, image, len)
    BY <1>5, <1>8
  <2>2. Explains(image.rows, t)
    <3>1. CASE image = Memory
      BY <1>6, <2>1, <3>1 DEF RewindInv, LogExplainsRows
    <3>2. CASE image # Memory
      BY <1>2, <2>1, <3>2 DEF Forgotten, RewindInv, LogExplainsDisk, Time
    <3> QED
      BY <3>1, <3>2
  <2>3. CASE len = Len(log)
    BY <2>2, <2>3 DEF Explains
  <2>4. CASE Truncating /\ \E n \in len .. Len(log) : Keeps(n, stmt.target)
    <3>1. PICK n \in len .. Len(log) : Keeps(n, stmt.target)
      BY <2>4
    <3>2. n \in 0 .. Len(log)
      OBVIOUS
    <3>3. n = stmt.left
      BY <2>4, <3>1, <3>2, KeptAreNotUndone
    <3>4. /\ stmt.op = "revert" /\ ~saving /\ stmt.left \in 0 .. Len(log)
          /\ stmt.target \in Nat /\ len \in 0 .. stmt.left
      BY <2>4, <3>1, <3>3 DEF Truncating, TypeOK, Stmt, Time
    <3>5. t <= stmt.target
      BY <2>1, <3>4 DEF RewindInv, RevertProgress
    <3>6. \A k \in (len + 1) .. stmt.left : log[k].ts <= t
      <4>1. \A k \in (len + 1) .. stmt.left : log[k].ts <= stmt.target /\ k \in (len + 1) .. Len(log)
        BY <1>2, <3>1, <3>3, <3>4 DEF Keeps
      <4> QED
        BY <1>2, <1>4, <2>1, <4>1 DEF Forgotten, Time
    <3>7. image.rows = rows \/ stmt.left = Len(log)
      <4>1. CASE image = Memory
        BY <1>6, <4>1
      <4>2. CASE image = disk
        BY <1>2, <3>4, <4>2 DEF RewindInv, RevertProgress
      <4> QED
        BY <4>1, <4>2
    <3> HIDE DEF TypeOK, RewindInv
    <3> QED
      BY <2>1, <2>2, <2>4, <3>4, <3>5, <3>6, <3>7, TruncatedExplains
  <2> QED
    BY <1>1, <2>3, <2>4 DEF CrashLogLen
<1>9. ASSUME NEW t \in Time, NEW k \in 1 .. len
      PROVE  OldestAfter(k, t)' <=> OldestAfter(k, t)
  <2>1. \A j \in 1 .. (k - 1) : j \in 1 .. len
    BY <1>2
  <2> QED
    BY <1>3, <2>1 DEF OldestAfter
<1>10. LogExplainsRows'
  BY <1>1, <1>3, <1>5, <1>8, <1>9 DEF LogExplainsRows, Explains
<1>11. LogExplainsDisk'
  BY <1>1, <1>3, <1>5, <1>8, <1>9 DEF LogExplainsDisk, Explains
<1>12. UnsavedIsLogged'
  BY <1>1 DEF UnsavedIsLogged
<1>13. IdsSaved' /\ NoRowBeyondCount'
  <2>1. disk.rowCount <= image.rowCount /\ image.rowCount \in Nat
    BY <1>2, <1>6 DEF RewindInv, IdsSaved
  <2>2. \A k \in 1 .. len : log[k].old # NoRow => log[k].id < image.rowCount
    <3>1. \A k \in 1 .. len : log[k].old # NoRow => log[k].id < disk.rowCount
      BY <1>2 DEF RewindInv, IdsSaved
    <3>2. \A k \in 1 .. len : log[k].id \in Nat
      BY <1>2, <1>4
    <3> QED
      BY <1>2, <2>1, <3>1, <3>2
  <2>3. \A i \in RowIds : i >= image.rowCount => image.rows[i] = NoRow
    BY <1>6 DEF RewindInv, NoRowBeyondCount
  <2> QED
    BY <1>1, <1>3, <2>1, <2>2, <2>3 DEF IdsSaved, NoRowBeyondCount
<1> QED
  BY <1>7, <1>10, <1>11, <1>12, <1>13 DEF RewindInv

-----------------------------------------------------------------------------
LEMMA NextRewind == TypeOK /\ RewindInv /\ [Next]_vars => RewindInv'
<1> SUFFICES ASSUME TypeOK, RewindInv, [Next]_vars PROVE RewindInv'
  OBVIOUS
<1>1. ASSUME NEW given \in Given, InsertRow(given) PROVE RewindInv'
  <2>1. rowCount \in RowIds /\ rowCount \in Nat
    BY <1>1, Bounds DEF InsertRow, TypeOK, RowIds
  <2>2. rows[rowCount] = NoRow
    BY <2>1 DEF RewindInv, NoRowBeyondCount
  <2>3. PICK row \in Slot : row = NormalizeRow(given)
    BY NormalizeType DEF Slot
  <2>4. /\ log' = Appended(rowCount, rows[rowCount], row)
        /\ rows' = [rows EXCEPT ![rowCount] = row]
        /\ rowCount' = rowCount + 1 /\ ~saving /\ saving'
        /\ stmt.op # "revert" /\ stmt'.op # "revert"
        /\ UNCHANGED <<disk, clock, timeline, savedAt>>
    BY <1>1, <2>2, <2>3 DEF InsertRow, Ready, Idle
  <2>5. rowCount' \in Nat /\ rowCount < rowCount' /\ rowCount <= rowCount'
    BY <2>1, <2>4
  <2> HIDE DEF TypeOK, RewindInv
  <2> QED
    BY <2>1, <2>2, <2>4, <2>5, LoggedStep
<1>2. ASSUME NEW cond \in Conditions, BeginDelete(cond) PROVE RewindInv'
  BY <1>2, QuietStep DEF BeginDelete, Ready, Idle
<1>3. ASSUME NEW cond \in Conditions, NEW set \in Assignments, BeginUpdate(cond, set)
      PROVE RewindInv'
  BY <1>3, QuietStep DEF BeginUpdate, Ready, Idle
<1>4. ASSUME NEW i \in RowIds, DeleteRow(i) PROVE RewindInv'
  <2>1. i < rowCount /\ rowCount \in Nat
    BY <1>4 DEF DeleteRow, NextTouched, Touched, TypeOK
  <2>2. stmt'.op = "delete"
    BY <1>4 DEF DeleteRow, TypeOK, Stmt
  <2>3. NoRow \in Slot
    BY DEF Slot
  <2>4. /\ log' = Appended(i, rows[i], NoRow)
        /\ rows' = [rows EXCEPT ![i] = NoRow]
        /\ stmt.op # "revert" /\ ~saving
        /\ UNCHANGED <<rowCount, disk, clock, timeline, savedAt>>
    BY <1>4 DEF DeleteRow
  <2>5. /\ rowCount' \in Nat /\ i < rowCount' /\ rowCount <= rowCount'
        /\ rowCount' = rowCount
    BY <2>1, <2>4
  <2> HIDE DEF TypeOK, RewindInv
  <2> QED
    BY <2>1, <2>2, <2>3, <2>4, <2>5, LoggedStep
<1>5. ASSUME NEW i \in RowIds, UpdateRow(i) PROVE RewindInv'
  <2>1. i < rowCount /\ rowCount \in Nat /\ rows[i] \in Row /\ stmt.set \in Assignments
    BY <1>5 DEF UpdateRow, NextTouched, Touched, TypeOK, Stmt, Image, Slot
  <2>2. stmt'.op = "update"
    BY <1>5 DEF UpdateRow, TypeOK, Stmt
  <2>3. PICK new \in Slot : new = Assigned(rows[i], stmt.set)
    BY <2>1, AssignedType DEF Slot
  <2>4. /\ log' = Appended(i, rows[i], new)
        /\ rows' = [rows EXCEPT ![i] = new]
        /\ stmt.op # "revert" /\ ~saving
        /\ UNCHANGED <<rowCount, disk, clock, timeline, savedAt>>
    BY <1>5, <2>3 DEF UpdateRow
  <2>5. /\ rowCount' \in Nat /\ i < rowCount' /\ rowCount <= rowCount'
        /\ rowCount' = rowCount
    BY <2>1, <2>4
  <2> HIDE DEF TypeOK, RewindInv
  <2> QED
    BY <2>1, <2>2, <2>4, <2>5, LoggedStep
<1>6. CASE EndScan
  BY <1>6, QuietStep DEF EndScan, Idle
<1>7. ASSUME NEW target \in Time, BeginRevert(target) PROVE RewindInv'
  BY <1>7, BeginRevertStep
<1>8. CASE UndoRecord
  BY <1>8, UndoStep
<1>9. CASE FinishRevert
  BY <1>9, FinishRevertStep
<1>10. CASE FinishSave
  BY <1>10, SaveStep
<1>11. CASE Close
  BY <1>11, QuietStep DEF Close, Ready, Idle
<1>12. ASSUME NEW image \in {disk, Memory}, NEW len \in 0 .. Len(log), Crash(image, len)
       PROVE RewindInv'
  BY <1>12, CrashStep
<1>13. CASE Open
  <2>1. stmt.op # "revert" /\ stmt'.op # "revert" /\ (saving => saving')
    BY <1>13 DEF Open, Down, Idle
  <2> QED
    BY <1>13, <2>1, QuietStep DEF Open
<1>14. CASE Tick
  BY <1>14, TickStep
<1>15. CASE UNCHANGED vars
  <2>1. LogOrdered' /\ HistoryIsPast' /\ RevertProgress'
    <3>1. UNCHANGED <<rows, rowCount, log, disk, stmt, saving, clock, timeline,
                      savedAt>>
      BY <1>15 DEF vars
    <3>2. LogOrdered /\ HistoryIsPast /\ RevertProgress
      BY DEF RewindInv
    <3>3. LogOrdered'
      BY <3>1, <3>2 DEF LogOrdered
    <3>4. HistoryIsPast'
      BY <3>1, <3>2 DEF HistoryIsPast
    <3>5. RevertProgress'
      BY <3>1, <3>2 DEF RevertProgress, Undone
    <3> QED
      BY <3>3, <3>4, <3>5
  <2>2. LogExplainsRows' /\ LogExplainsDisk'
    BY <1>15 DEF vars, RewindInv, LogExplainsRows, LogExplainsDisk, Explains, OldestAfter
  <2>3. UnsavedIsLogged' /\ IdsSaved' /\ NoRowBeyondCount'
    BY <1>15 DEF vars, RewindInv, UnsavedIsLogged, IdsSaved, NoRowBeyondCount
  <2> QED
    BY <2>1, <2>2, <2>3 DEF RewindInv
<1>16. CASE CrashDamaging
  <2>1. /\ rows' = disk.rows /\ rowCount' = disk.rowCount /\ ~saving'
        /\ stmt'.op = "damaged" /\ \A t \in Time : timeline'[t] = Lost
        /\ UNCHANGED <<log, disk, clock, savedAt>>
    BY <1>16 DEF CrashDamaging
  <2>2. LogOrdered' /\ HistoryIsPast' /\ RevertProgress'
    BY <2>1 DEF RewindInv, LogOrdered, HistoryIsPast, RevertProgress
  <2>3. LogExplainsRows' /\ LogExplainsDisk'
    BY <2>1 DEF LogExplainsRows, LogExplainsDisk
  <2>4. UnsavedIsLogged' /\ IdsSaved' /\ NoRowBeyondCount'
    BY <2>1 DEF RewindInv, UnsavedIsLogged, IdsSaved, NoRowBeyondCount, TypeOK
  <2> QED
    BY <2>2, <2>3, <2>4 DEF RewindInv
<1> QED
  BY <1>1, <1>2, <1>3, <1>4, <1>5, <1>6, <1>7, <1>8, <1>9, <1>10, <1>11,
     <1>12, <1>13, <1>14, <1>15, <1>16 DEF Next

LEMMA RewindCorrect == Spec => []RewindInv
<1>1. Init => RewindInv
  BY InitRewind
<1>2. TypeOK /\ RewindInv /\ [Next]_vars => RewindInv'
  BY NextRewind
<1> QED
  BY <1>1, <1>2, TypeCorrect, PTL DEF Spec

\* The log accounts for every change of the table: undoing the records newer
\* than t gives the rows the table held at t.
THEOREM LogIsComplete == Spec => []LogExplainsRows
<1>1. RewindInv => LogExplainsRows
  BY DEF RewindInv
<1> QED
  BY <1>1, RewindCorrect, PTL

\* A crash that leaves an image costs nothing older than the last saveMetadata.
THEOREM DiskIsRewindable == Spec => []LogExplainsDisk
<1>1. RewindInv => LogExplainsDisk
  BY DEF RewindInv
<1> QED
  BY <1>1, RewindCorrect, PTL

\* What the disk does not hold, the log does.
THEOREM UnsavedRowsAreLogged == Spec => []UnsavedIsLogged
<1>1. RewindInv => UnsavedIsLogged
  BY DEF RewindInv
<1> QED
  BY <1>1, RewindCorrect, PTL

\* Every row is below row_count, in memory and on disk.
THEOREM ScansSeeEveryRow == Spec => []NoRowBeyondCount
<1>1. RewindInv => NoRowBeyondCount
  BY DEF RewindInv
<1> QED
  BY <1>1, RewindCorrect, PTL

\* A REVERT that ends leaves the rows of its target.
LEMMA FinishRestores ==
  ASSUME TypeOK, RewindInv, FinishRevert, timeline[stmt.target] # Lost
  PROVE  rows' = timeline[stmt.target]
<1> DEFINE target == stmt.target
<1>1. Truncating /\ rows' = rows /\ stmt.left \in 0 .. stmt.left /\ target \in Time
      /\ \A k \in (stmt.left + 1) .. stmt.left : FALSE
  BY DEF FinishRevert, Truncating, TypeOK, Stmt
<1>2. target <= target
  BY <1>1 DEF Time
<1>3. \A k \in 1 .. stmt.left : log[k].ts <= target
  <2>1. PICK n \in 0 .. Len(log) : Keeps(n, target)
    BY DEF FinishRevert
  <2>2. n = stmt.left
    BY <1>1, <2>1, KeptAreNotUndone
  <2> QED
    BY <2>1, <2>2 DEF Keeps
<1>4. Explains(rows, target)
  BY <1>1 DEF RewindInv, LogExplainsRows
<1>5. rows \in Image /\ timeline[target] \in Image
  BY <1>1 DEF TypeOK
<1> HIDE DEF TypeOK, RewindInv, target
<1>6. ASSUME NEW i \in RowIds PROVE rows[i] = timeline[target][i]
  BY <1>1, <1>2, <1>3, <1>4, TruncatedExplains DEF target
<1> QED
  BY <1>1, <1>5, <1>6 DEF Image, target

\* REVERT gives back the table of the target instant, however the statements,
\* the clock, the saves and the crashes before it interleaved.
THEOREM RevertIsExact == Spec => RevertRestores
<1>1. TypeOK /\ RewindInv /\ [Next]_vars
        => [FinishRevert /\ timeline[stmt.target] # Lost
              => rows' = timeline[stmt.target]]_vars
  BY FinishRestores
<1> QED
  BY <1>1, TypeCorrect, RewindCorrect, PTL DEF Spec, RevertRestores

=============================================================================
