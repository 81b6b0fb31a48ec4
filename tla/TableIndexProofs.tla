------------------------- MODULE TableIndexProofs --------------------------
(***************************************************************************)
(* The unique indexes of Table, as long as nobody issues REVERT.  (With    *)
(* REVERT they go wrong: the undo of an INSERT or an UPDATE leaves them as *)
(* they are.)                                                              *)
(***************************************************************************)
EXTENDS TableProofs

\* Every row of an image has a value in each INDEXED column.
Keyed(image) ==
  \A i \in RowIds : image[i] # NoRow => \A c \in Indexed : image[i][c] \in Values

IndexInv ==
  /\ stmt.op # "revert" /\ RebuildNeverThrows
  /\ IndexExact
  /\ Keyed(rows) /\ Keyed(disk.rows)
  /\ ~HasDuplicate(rows) /\ ~HasDuplicate(disk.rows)

-----------------------------------------------------------------------------
LEMMA InitIndex == Init => IndexInv
<1> SUFFICES ASSUME Init PROVE IndexInv
  OBVIOUS
<1>1. \A i \in RowIds : rows[i] = NoRow /\ disk.rows[i] = NoRow
  BY DEF Init
<1>2. \A c \in Indexed, v \in Values : uniq[c][v] = NoId
  BY DEF Init, EmptyIndexes
<1>3. stmt.op = "idle"
  BY DEF Init, Idle
<1> QED
  BY <1>1, <1>2, <1>3, ConstantsAssumption
  DEF IndexInv, RebuildNeverThrows, IndexExact, Alive, Keyed, HasDuplicate, Carries

\* A step that leaves the rows, the disk and the indexes of a live process alone.
LEMMA IndexQuiet ==
  ASSUME IndexInv, UNCHANGED <<rows, uniq, disk>>,
         Alive, stmt'.op \notin {"revert", "refused"}
  PROVE  IndexInv'
BY DEF IndexInv, RebuildNeverThrows, IndexExact, Alive, Keyed, HasDuplicate, Carries

\* A step that gives row id a new version, or removes it, and brings the indexes
\* up to date with it.
LEMMA IndexStep ==
  ASSUME TypeOK, IndexInv, NEW id \in RowIds, NEW new \in Slot,
         rows' = [rows EXCEPT ![id] = new], disk' = disk,
         new # NoRow => \A c \in Indexed : new[c] \in Values /\ uniq[c][new[c]] \in {NoId, id},
         \A c \in Indexed, v \in Values :
           uniq'[c][v] = IF new # NoRow /\ new[c] = v THEN id
                         ELSE IF Carries(rows, id, c, v) THEN NoId ELSE uniq[c][v],
         Alive, stmt'.op \notin {"revert", "refused"}
  PROVE  IndexInv'
<1>1. \A i \in RowIds : rows'[i] = IF i = id THEN new ELSE rows[i]
  BY DEF TypeOK, Image
<1>2. \A c \in Indexed, v \in Values, i \in RowIds : uniq[c][v] = i <=> Carries(rows, i, c, v)
  BY DEF IndexInv, IndexExact
<1>3. ASSUME NEW c \in Indexed, NEW v \in Values, NEW i \in RowIds
      PROVE  uniq'[c][v] = i <=> Carries(rows', i, c, v)
  <2>1. CASE new # NoRow /\ new[c] = v
    <3>1. uniq'[c][v] = id /\ uniq[c][v] \in {NoId, id}
      BY <2>1
    <3>2. CASE i = id
      BY <1>1, <2>1, <3>1, <3>2 DEF Carries
    <3>3. CASE i # id
      <4>1. uniq[c][v] # i
        BY <3>1, <3>3, ConstantsAssumption
      <4> QED
        BY <1>1, <1>2, <3>1, <3>3, <4>1 DEF Carries
    <3> QED
      BY <3>2, <3>3
  <2>2. CASE ~(new # NoRow /\ new[c] = v) /\ Carries(rows, id, c, v)
    <3>1. uniq'[c][v] = NoId /\ uniq[c][v] = id
      BY <1>2, <2>2
    <3>2. uniq'[c][v] # i
      BY <3>1, ConstantsAssumption
    <3>3. CASE i = id
      BY <1>1, <2>2, <3>2, <3>3 DEF Carries
    <3>4. CASE i # id
      BY <1>1, <1>2, <3>1, <3>2, <3>4 DEF Carries
    <3> QED
      BY <3>3, <3>4
  <2>3. CASE ~(new # NoRow /\ new[c] = v) /\ ~Carries(rows, id, c, v)
    <3>1. uniq'[c][v] = uniq[c][v]
      BY <2>3
    <3>2. CASE i = id
      BY <1>1, <1>2, <2>3, <3>1, <3>2 DEF Carries
    <3>3. CASE i # id
      BY <1>1, <1>2, <3>1, <3>3 DEF Carries
    <3> QED
      BY <3>2, <3>3
  <2> QED
    BY <2>1, <2>2, <2>3
<1>4. IndexExact'
  BY <1>3 DEF IndexExact, Alive, Carries
<1>5. ~HasDuplicate(rows')
  <2> SUFFICES ASSUME NEW c \in Indexed, NEW v \in Values,
                      NEW i \in RowIds, NEW j \in RowIds, i # j,
                      Carries(rows', i, c, v), Carries(rows', j, c, v)
               PROVE  FALSE
    BY DEF HasDuplicate, Carries
  <2>1. uniq'[c][v] = i /\ uniq'[c][v] = j
    BY <1>3 DEF Carries
  <2> QED
    BY <2>1
<1>6. Keyed(rows')
  BY <1>1 DEF Keyed, IndexInv
<1> QED
  BY <1>4, <1>5, <1>6
  DEF IndexInv, RebuildNeverThrows, Keyed, HasDuplicate, Carries

\* What checkUniqueConstraints lets pass.
LEMMA CheckedRow ==
  ASSUME TypeOK, NEW row \in Row, NEW id, CheckUnique(row, id)
  PROVE  \A c \in Indexed : row[c] \in Values /\ uniq[c][row[c]] \in {NoId, id}
BY DEF CheckUnique, Row, Value, Indexed

-----------------------------------------------------------------------------
LEMMA NextIndex ==
  ASSUME ~RevertAllowed, TypeOK, RewindInv, IndexInv, [Next]_vars
  PROVE  IndexInv'
<1>1. ASSUME NEW given \in Given, InsertRow(given) PROVE IndexInv'
  <2>1. PICK row \in Row : row = NormalizeRow(given)
    BY NormalizeType
  <2>2. /\ rows' = [rows EXCEPT ![rowCount] = row] /\ disk' = disk
        /\ uniq' = InsertIntoUnique(uniq, row, rowCount)
        /\ CheckUnique(row, NoId) /\ rowCount < MaxRows
        /\ stmt.op = "idle" /\ stmt' = stmt
    BY <1>1, <2>1 DEF InsertRow, Ready, Idle
  <2>3. rowCount \in RowIds /\ rowCount \in Nat
    BY <2>2, Bounds DEF TypeOK, RowIds
  <2>4. rows[rowCount] = NoRow
    BY <2>3 DEF RewindInv, NoRowBeyondCount
  <2>5. row \in Slot /\ row # NoRow
    BY ConstantsAssumption DEF Slot
  <2>6. \A c \in Indexed : row[c] \in Values /\ uniq[c][row[c]] \in {NoId, rowCount}
    BY <2>2, CheckedRow
  <2>7. \A c \in Indexed, v \in Values :
          uniq'[c][v] = IF row[c] = v THEN rowCount ELSE uniq[c][v]
    BY <2>2 DEF InsertIntoUnique, TypeOK
  <2>8. \A c \in Indexed, v \in Values : ~Carries(rows, rowCount, c, v)
    BY <2>4 DEF Carries
  <2>9. Alive /\ stmt'.op \notin {"revert", "refused"}
    BY <2>2 DEF Alive
  <2> HIDE DEF TypeOK, IndexInv
  <2> QED
    BY <2>9, <2>2, <2>3, <2>5, <2>6, <2>7, <2>8, IndexStep
<1>2. ASSUME NEW cond \in Conditions, BeginDelete(cond) PROVE IndexInv'
  BY <1>2, IndexQuiet DEF Alive, BeginDelete, Ready, Idle
<1>3. ASSUME NEW cond \in Conditions, NEW set \in Assignments, BeginUpdate(cond, set)
      PROVE IndexInv'
  BY <1>3, IndexQuiet DEF Alive, BeginUpdate, Ready, Idle
<1>4. ASSUME NEW i \in RowIds, DeleteRow(i) PROVE IndexInv'
  <2>1. /\ rows' = [rows EXCEPT ![i] = NoRow] /\ disk' = disk
        /\ uniq' = RemoveFromUnique(uniq, rows[i])
        /\ rows[i] # NoRow /\ stmt.op = "delete"
    BY <1>4 DEF DeleteRow, NextTouched, Touched
  <2>2. stmt'.op = "delete"
    BY <1>4 DEF DeleteRow, TypeOK, Stmt
  <2>3. \A c \in Indexed, v \in Values :
          uniq'[c][v] = IF Carries(rows, i, c, v) THEN NoId ELSE uniq[c][v]
    BY <2>1 DEF RemoveFromUnique, TypeOK, Carries
  <2>4. NoRow \in Slot
    BY DEF Slot
  <2>5. Alive /\ stmt'.op \notin {"revert", "refused"}
    BY <2>1, <2>2 DEF Alive
  <2> HIDE DEF TypeOK, IndexInv
  <2> QED
    BY <2>1, <2>3, <2>4, <2>5, IndexStep
<1>5. ASSUME NEW i \in RowIds, UpdateRow(i) PROVE IndexInv'
  <2>1. rows[i] \in Row /\ rows[i] # NoRow /\ stmt.set \in Assignments
    BY <1>5 DEF UpdateRow, NextTouched, Touched, TypeOK, Stmt, Image, Slot
  <2>2. PICK new \in Row : new = Assigned(rows[i], stmt.set)
    BY <2>1, AssignedType
  <2>3. /\ rows' = [rows EXCEPT ![i] = new] /\ disk' = disk
        /\ uniq' = InsertIntoUnique(RemoveFromUnique(uniq, rows[i]), new, i)
        /\ CheckUnique(new, i) /\ stmt.op = "update"
    BY <1>5, <2>2 DEF UpdateRow, NextTouched, Touched
  <2>4. stmt'.op = "update"
    BY <1>5 DEF UpdateRow, TypeOK, Stmt
  <2>5. \A c \in Indexed : new[c] \in Values /\ uniq[c][new[c]] \in {NoId, i}
    BY <2>3, CheckedRow
  <2>6. \A c \in Indexed, v \in Values :
          uniq'[c][v] = IF new[c] = v THEN i
                        ELSE IF rows[i][c] = v THEN NoId ELSE uniq[c][v]
    BY <2>3 DEF InsertIntoUnique, RemoveFromUnique, TypeOK
  <2>7. \A c \in Indexed, v \in Values : Carries(rows, i, c, v) <=> rows[i][c] = v
    BY <2>1 DEF Carries
  <2>8. new \in Slot /\ new # NoRow
    BY ConstantsAssumption DEF Slot
  <2>9. \A c \in Indexed, v \in Values :
          uniq'[c][v] = IF new # NoRow /\ new[c] = v THEN i
                        ELSE IF Carries(rows, i, c, v) THEN NoId ELSE uniq[c][v]
    BY <2>6, <2>7, <2>8
  <2>10. new # NoRow =>
           \A c \in Indexed : new[c] \in Values /\ uniq[c][new[c]] \in {NoId, i}
    BY <2>5
  <2>11. Alive /\ stmt'.op \notin {"revert", "refused"}
    BY <2>3, <2>4 DEF Alive
  <2>12. rows' = [rows EXCEPT ![i] = new] /\ disk' = disk
    BY <2>3
  <2> HIDE DEF TypeOK, IndexInv
  <2> QED
    BY <2>8, <2>9, <2>10, <2>11, <2>12, IndexStep
<1>6. CASE EndScan
  BY <1>6, IndexQuiet DEF Alive, EndScan, Idle
<1>7. ASSUME NEW target \in Time, BeginRevert(target) PROVE IndexInv'
  BY <1>7 DEF Alive, BeginRevert
<1>8. CASE UndoRecord
  BY <1>8 DEF UndoRecord, UndoPending, IndexInv
<1>9. CASE FinishRevert
  BY <1>9 DEF FinishRevert, Truncating, IndexInv
<1>10. CASE FinishSave
  <2>1. /\ rows' = rows /\ disk'.rows = rows
        /\ \/ stmt'.op = "down"
           \/ stmt' = stmt /\ uniq' = uniq
    BY <1>10 DEF FinishSave, Memory, Down
  <2> QED
    BY <2>1 DEF IndexInv, RebuildNeverThrows, IndexExact, Alive, Keyed, HasDuplicate, Carries
<1>11. CASE Close
  BY <1>11, IndexQuiet DEF Alive, Close, Ready, Idle
<1>12. ASSUME NEW image \in {disk, Memory}, NEW len \in 0 .. Len(log), Crash(image, len)
       PROVE IndexInv'
  <2>1. /\ rows' = image.rows /\ disk' = image /\ stmt'.op = "down"
        /\ image.rows = rows \/ image.rows = disk.rows
    BY <1>12 DEF Crash, Down, Memory
  <2> QED
    BY <2>1 DEF IndexInv, RebuildNeverThrows, IndexExact, Alive, Keyed, HasDuplicate, Carries
<1>13. CASE Open
  <2>1. /\ stmt'.op = "idle" /\ uniq' = Rebuilt(rows)
        /\ UNCHANGED <<rows, disk>>
    BY <1>13 DEF Open, Idle, IndexInv
  <2>2. ASSUME NEW c \in Indexed, NEW v \in Values, NEW i \in RowIds
        PROVE  uniq'[c][v] = i <=> Carries(rows, i, c, v)
    <3>1. uniq'[c][v] = IF \E j \in RowIds : Carries(rows, j, c, v)
                        THEN CHOOSE j \in RowIds : Carries(rows, j, c, v)
                        ELSE NoId
      BY <2>1 DEF Rebuilt
    <3>2. CASE \E j \in RowIds : Carries(rows, j, c, v)
      <4>1. PICK j \in RowIds : uniq'[c][v] = j /\ Carries(rows, j, c, v)
        BY <3>1, <3>2
      <4> QED
        BY <4>1 DEF IndexInv, HasDuplicate
    <3>3. CASE ~\E j \in RowIds : Carries(rows, j, c, v)
      BY <3>1, <3>3, ConstantsAssumption
    <3> QED
      BY <3>2, <3>3
  <2>3. IndexExact'
    BY <2>1, <2>2 DEF IndexExact, Alive, Carries
  <2> QED
    BY <2>1, <2>3 DEF IndexInv, RebuildNeverThrows, Keyed, HasDuplicate, Carries
<1>14. CASE Tick
  BY <1>14 DEF Tick, IndexInv, RebuildNeverThrows, IndexExact, Alive, Keyed, HasDuplicate, Carries
<1>15. CASE UNCHANGED vars
  BY <1>15 DEF vars, IndexInv, RebuildNeverThrows, IndexExact, Alive, Keyed, HasDuplicate, Carries
<1>16. CASE CrashDamaging
  BY <1>16 DEF CrashDamaging, Alive, IndexInv, RebuildNeverThrows, IndexExact,
               Keyed, HasDuplicate, Carries
<1> QED
  BY <1>1, <1>2, <1>3, <1>4, <1>5, <1>6, <1>7, <1>8, <1>9, <1>10, <1>11,
     <1>12, <1>13, <1>14, <1>15, <1>16 DEF Next

LEMMA IndexCorrect == ASSUME ~RevertAllowed PROVE Spec => []IndexInv
<1>1. Init => IndexInv
  BY InitIndex
<1>2. TypeOK /\ RewindInv /\ IndexInv /\ [Next]_vars => IndexInv'
  BY NextIndex
<1> QED
  BY <1>1, <1>2, TypeCorrect, RewindCorrect, PTL DEF Spec

\* Without REVERT the unique indexes are exact at every step.
THEOREM IndexesAreExact == ASSUME ~RevertAllowed PROVE Spec => []IndexExact
<1>1. IndexInv => IndexExact
  BY DEF IndexInv
<1> QED
  BY <1>1, IndexCorrect, PTL

\* Without REVERT no image a crash leaves makes the next start throw.
THEOREM NodeReopens == ASSUME ~RevertAllowed PROVE Spec => []RebuildNeverThrows
<1>1. IndexInv => RebuildNeverThrows
  BY DEF IndexInv
<1> QED
  BY <1>1, IndexCorrect, PTL

=============================================================================
