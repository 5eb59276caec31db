----------------------------- MODULE FfldbProofs -----------------------------
(***************************************************************************)
(* Proofs about Ffldb, for any sets of blocks, keys and values, any file   *)
(* size and any number of transactions, failures and crashes: no stored    *)
(* block is lost, openDB never finds the files behind the metadata, and    *)
(* the database implements DurableStore.  The crashes are those of the     *)
(* process; of the machine, which loses what was not synced, as long as    *)
(* the blocks are in one file.                                             *)
(***************************************************************************)
EXTENDS FfldbSteps

(***************************************************************************)
(* The transaction and the open file, step by step.                        *)
(***************************************************************************)
\* The file for the next record is there, and nothing before the cursor changed.
LEMMA OpenWriteFileKeeps ==
    ASSUME TypeInv, TypeInv', openWriteFile, Reaches(files, cursor)
    PROVE  /\ KeepsTo(files, files', cursor)
           /\ files'[cursor'.file] # None /\ Reaches(files', cursor')
<1>1. /\ cursor \in Location /\ cursor' \in Location /\ cursor' = NextFile
      /\ AtMost(cursor, cursor')
      /\ cursor' = cursor \/ (cursor.off > 0 /\ cursor' = [file |-> cursor.file + 1, off |-> 0])
    BY NextFileLocation, Zenon DEF TypeInv, openWriteFile
<1>2. /\ cursor.file \in FileNum /\ cursor'.file \in FileNum /\ cursor'.file >= cursor.file
      /\ cursor.off \in Nat
    BY <1>1, Locations, Sizes DEF AtMost, Before
<1>3. /\ \A n \in FileNum : n # cursor'.file => files'[n] = files[n]
      /\ files[cursor'.file] # None => files' = files
      /\ files'[cursor'.file] # None
    BY <1>2, FileTypes, Zenon DEF openWriteFile, TypeInv, FilesOk, Files
<1>4. /\ \A n \in FileNum : n < cursor.file => files'[n] = files[n]
      /\ files[cursor.file] # None => files'[cursor.file] = files[cursor.file]
    BY <1>2, <1>3, Sizes
<1>5. KeepsTo(files, files', cursor)
    BY <1>4, Zenon DEF KeepsTo
<1>6. Reaches(files', cursor')
  <2>1. files' \in Files
      BY Zenon DEF TypeInv, FilesOk
  <2>2. CASE cursor' = cursor
      BY <2>1, <2>2, <1>1, <1>5, KeepsReach, Order, Zenon
  <2>3. CASE cursor.off > 0 /\ cursor' = [file |-> cursor.file + 1, off |-> 0]
    <3>1. \A n \in 0..cursor.file : files[n] # None
        BY <2>3, <1>2 DEF Reaches
    <3>2. \A n \in 0..cursor'.file : n \in FileNum /\ (n = cursor'.file \/ n \in 0..cursor.file)
        BY <2>3, <1>2, Sizes
    <3>3. \A n \in 0..cursor'.file : files'[n] # None
        BY <3>1, <3>2, <1>3, Zenon
    <3>4. Len(files'[cursor'.file]) \in Nat /\ cursor'.off = 0
        BY <2>1, <2>3, <1>2, <1>3, FileTypes
    <3> QED
        BY <3>3, <3>4 DEF Reaches
  <2> QED
      BY <2>2, <2>3, <1>1, Zenon
<1> QED
    BY <1>3, <1>5, <1>6, Zenon

\* The last cell of a record completes it; the first leaves it started.
LEMMA RecordCells ==
    ASSUME TypeInv, TypeInv', TxInv, OpenInv, writeData
    PROVE  /\ Reaches(files', cursor')
           /\ part = 0 => CellAt(files'[cursor.file], RecordStart.off + 1) = <<blocks[written + 1], 1>>
           /\ part = 1 => Holds(files', blocks[written + 1], RecordStart)
<1>1. /\ cursor.file \in FileNum /\ cursor.off \in Nat /\ part \in 0..1
      /\ cursor.off >= part
      /\ cursor' = [file |-> cursor.file, off |-> cursor.off + 1]
      /\ RecordStart.file = cursor.file /\ RecordStart.off = cursor.off - part
    BY WriteDataFiles, Zenon
<1>2. /\ KeepsTo(files, files', cursor)
      /\ CellAt(files'[cursor.file], cursor.off + 1) = <<blocks[written + 1], part + 1>>
      /\ cursor.off + 1 <= Len(files'[cursor.file]) /\ files'[cursor.file] # None
      /\ \A n \in FileNum : n # cursor.file => files'[n] = files[n]
    BY WriteDataKeeps, Zenon
<1>3. /\ Reaches(files, cursor) /\ files[cursor.file] # None
      /\ \A i \in 1..part : CellAt(files[cursor.file], RecordStart.off + i)
                                = <<blocks[written + 1], i>>
    BY Zenon DEF writeData, TxInv, OpenInv, Writing
<1>4. Reaches(files', cursor')
  <2>1. \A n \in 0..cursor.file : n = cursor.file \/ files[n] # None
      BY <1>1, <1>3, Sizes DEF Reaches
  <2>2. \A n \in 0..cursor.file : files'[n] # None
      BY <2>1, <1>1, <1>2, Sizes
  <2>3. cursor'.file = cursor.file /\ cursor'.off = cursor.off + 1
      BY <1>1, Zenon
  <2> QED
      BY <2>2, <2>3, <1>2, Zenon DEF Reaches
<1>5. CASE part = 0
    BY <1>1, <1>2, <1>4, <1>5
<1>6. CASE part = 1
  <2>1. CellAt(files[cursor.file], cursor.off) = <<blocks[written + 1], 1>>
    <3>1. RecordStart.off + 1 = cursor.off /\ 1 \in 1..part
        BY <1>1, <1>6
    <3> QED
        BY <3>1, <1>3, Zenon
  <2>2. CellAt(files'[cursor.file], cursor.off) = <<blocks[written + 1], 1>>
    <3>1. cursor.off \in 1..cursor.off
        BY <1>1, <1>6
    <3> QED
        BY <3>1, <2>1, <1>2, <1>3, Zenon DEF KeepsTo
  <2>3. /\ CellAt(files'[cursor.file], RecordStart.off + 1) = <<blocks[written + 1], 1>>
        /\ CellAt(files'[cursor.file], RecordStart.off + 2) = <<blocks[written + 1], 2>>
    <3>1. /\ RecordStart.off + 1 = cursor.off /\ RecordStart.off + 2 = cursor.off + 1
          /\ part + 1 = 2
        BY <1>1, <1>6
    <3> QED
        BY <3>1, <2>2, <1>2, Zenon
  <2>4. \A i \in 1..RecordLen : i = 1 \/ i = 2
      BY Sizes
  <2>5. Holds(files', blocks[written + 1], RecordStart)
      BY <2>3, <2>4, <1>1, <1>2, Zenon DEF Holds
  <2> QED
      BY <2>5, <1>4, <1>6
<1> QED
    BY <1>1, <1>5, <1>6

\* A transaction's rows locate the records written so far.
LEMMA TxStep ==
    ASSUME StoreInv, TypeInv', PhaseInv', [Next]_vars
    PROVE  TxInv'
<1> USE DEF Writing, Flushing
<1>0. /\ TypeInv /\ PhaseInv /\ TxInv /\ OpenInv
      /\ keys \in Meta /\ cursor \in Location /\ rollbackLoc \in Location
      /\ FilesOk(files) /\ files' \in Files
    BY Zenon DEF StoreInv, TypeInv, FilesOk
<1>1. ASSUME CloseTx
      PROVE  TxInv'
    BY <1>1, CloseTxTypes, Zenon DEF TxInv
<1>2. ASSUME pc' \in {"rollback", "undo", "undosync"}
      PROVE  TxInv'
    BY <1>2, Zenon DEF TxInv
<1>3. ASSUME UNCHANGED <<files, cursor, isOpen, state, keys, blocks, written, part, rollbackLoc>>,
             pc' = pc \/ (Flushing /\ Flushing')
      PROVE  TxInv'
    BY <1>0, <1>3, Zenon DEF TxInv, RowsWritten, RecordStart
<1>4. CASE UNCHANGED vars
    BY <1>3, <1>4, Zenon DEF vars, fileVars, txVars
<1>5. CASE BeginUpdate
    BY <1>0, <1>5, Zenon DEF BeginUpdate, TxInv, txVars
<1>6. ASSUME NEW k \in Key, NEW v, putKey(k, v) \/ deleteKey(k)
      PROVE  TxInv'
  <2>1. \A b \in Block : keys'[b] = keys[b]
      BY <1>0, <1>6, Keys, MetaTypes, Zenon DEF putKey, deleteKey
  <2>2. pc = "tx" /\ pc' = "tx" /\ written' = written /\ part' = part
      BY <1>6, Zenon DEF putKey, deleteKey
  <2> QED
      BY <2>1, <2>2, <1>0, Zenon DEF TxInv
<1>7. ASSUME NEW b \in Block, StoreBlock(b)
      PROVE  TxInv'
    BY <1>0, <1>7, Zenon DEF StoreBlock, TxInv
<1>8. CASE Rollback \/ CommitToCache \/ CommitDirect \/ CommitDirectFails \/ Crash
    BY <1>1, <1>8, Zenon DEF Rollback, CommitToCache, CommitDirect, CommitDirectFails, Crash
<1>9. CASE Commit
  <2>1. /\ pc = "tx" /\ pc' = "write" /\ rollbackLoc' = cursor /\ cursor' = cursor
        /\ files' = files /\ keys' = keys /\ written' = written /\ part' = part
        /\ blocks' = blocks
      BY <1>9, Zenon DEF Commit, fileVars
  <2>2. written = 0 /\ part = 0 /\ \A b \in Block : keys[b] = None
      BY <2>1, <1>0, Zenon DEF TxInv
  <2>3. Reaches(files, cursor)
    <3>1. Up
        BY <2>1, <1>0, Zenon DEF PhaseInv, Up
    <3> QED
        BY <3>1, <2>1, Zenon DEF StoreInv, CacheInv, Kept, RollingBack
  <2>4. RecordStart' = cursor
      BY <2>1, <2>2, <1>0, Locations DEF RecordStart
  <2>5. RowsWritten'
      BY <2>1, <2>2 DEF RowsWritten
  <2>6. RowsBy(files', keys', RecordStart')
      BY <2>1, <2>2, NoRows, Zenon
  <2>7. written' <= Len(blocks')
      BY <2>1, <2>2, <1>0 DEF TypeInv
  <2> QED
      BY <2>1, <2>2, <2>3, <2>4, <2>5, <2>6, <2>7, <1>0, Order, Zenon DEF TxInv
<1>10. CASE openWriteFile
  <2>1. /\ pc = "write" /\ pc' = "record" /\ written < Len(blocks) /\ isOpen' = TRUE
        /\ cursor' = NextFile /\ keys' = keys /\ written' = written /\ part' = part
        /\ blocks' = blocks /\ rollbackLoc' = rollbackLoc
      BY <1>10, Zenon DEF openWriteFile, MoreBlocks, txVars
  <2>2. /\ RowsWritten /\ RowsBy(files, keys, RecordStart) /\ part = 0 /\ Reaches(files, cursor)
        /\ AtMost(rollbackLoc, RecordStart) /\ written <= Len(blocks)
      BY <2>1, <1>0, Zenon DEF TxInv
  <2>3. RecordStart = cursor
      BY <2>2, <1>0, Locations DEF RecordStart
  <2>4. cursor' \in Location /\ AtMost(cursor, cursor') /\ cursor'.off + RecordLen <= MaxFileSize
      BY <2>1, <1>0, <1>10, NextFileLocation, Zenon DEF openWriteFile
  <2>5. RecordStart' = cursor'
      BY <2>1, <2>2, <2>4, Locations DEF RecordStart
  <2>6. KeepsTo(files, files', cursor) /\ Reaches(files', cursor')
      BY <2>2, <1>0, <1>10, OpenWriteFileKeeps, Zenon
  <2>7. RowsBy(files', keys, cursor)
      BY <2>2, <2>3, <2>6, <1>0, KeepsRows, Order, Zenon
  <2>8. RowsBy(files', keys', RecordStart')
      BY <2>1, <2>4, <2>5, <2>7, <1>0, RowsLater, Zenon
  <2>9. AtMost(rollbackLoc', RecordStart')
      BY <2>1, <2>2, <2>3, <2>4, <2>5, <1>0, Order, Zenon
  <2>10. RowsWritten'
      BY <2>1, <2>2, Zenon DEF RowsWritten
  <2>11. 1..part' = {}
      BY <2>1, <2>2
  <2> QED
      BY <2>1, <2>2, <2>4, <2>5, <2>6, <2>8, <2>9, <2>10, <2>11, Zenon DEF TxInv
<1>11. CASE openWriteFileFails \/ writeDataFails \/ RollbackStarts \/ RollbackDelete \/ RollbackTruncate
    BY <1>2, <1>11, Zenon
       DEF openWriteFileFails, writeDataFails, RollbackStarts, RollbackDelete, RollbackTruncate
<1>12. CASE writeData
  <2> DEFINE b == blocks[written + 1]
  <2>1. /\ cursor.file \in FileNum /\ cursor.off \in Nat /\ part \in 0..1 /\ b \in Block
        /\ cursor.off >= part /\ cursor' \in Location
        /\ written + 1 \in 1..Len(blocks)
        /\ cursor' = [file |-> cursor.file, off |-> cursor.off + 1]
        /\ RecordStart \in Location /\ RecordStart.file = cursor.file
        /\ RecordStart.off = cursor.off - part
      BY <1>0, <1>12, WriteDataFiles, Zenon
  <2>2. /\ pc = "record" /\ blocks' = blocks /\ rollbackLoc' = rollbackLoc /\ isOpen' = isOpen
      BY <1>12, Zenon DEF writeData
  <2>3. /\ RowsWritten /\ RowsBy(files, keys, RecordStart) /\ Reaches(files, cursor)
        /\ AtMost(rollbackLoc, RecordStart) /\ isOpen /\ written < Len(blocks)
        /\ RecordStart.off + RecordLen <= MaxFileSize
      BY <2>2, <1>0, Zenon DEF TxInv
  <2>4. /\ Reaches(files', cursor') /\ KeepsTo(files, files', cursor)
        /\ part = 0 => CellAt(files'[cursor.file], RecordStart.off + 1) = <<b, 1>>
        /\ part = 1 => Holds(files', b, RecordStart)
      BY <1>0, <1>12, RecordCells, WriteDataKeeps, Zenon
  <2>5. RowsBy(files', keys, RecordStart)
    <3>1. AtMost(RecordStart, cursor)
        BY <2>1, Sizes DEF AtMost, Before
    <3> QED
        BY <3>1, <2>1, <2>3, <2>4, <1>0, KeepsRows, Zenon
  <2>6. written \in Nat /\ Len(blocks) \in Nat /\ blocks \in Seq(Block)
      BY <1>0 DEF TypeInv
  <2>7. CASE part = 0
    <3>1. /\ part' = 1 /\ written' = written /\ keys' = keys /\ pc' = "record"
        BY <2>7, <1>12, Sizes DEF writeData
    <3>2. RecordStart' = RecordStart
      <4>1. RecordStart' = [file |-> cursor'.file, off |-> cursor'.off - 1]
          BY <3>1, Zenon DEF RecordStart
      <4>2. RecordStart = [file |-> cursor.file, off |-> cursor.off]
          BY <2>1, <2>7, Locations
      <4> QED
          BY <4>1, <4>2, <2>1
    <3>3. RowsWritten' /\ RowsBy(files', keys', RecordStart')
        BY <3>1, <3>2, <2>2, <2>3, <2>5, Zenon DEF RowsWritten
    <3>4. ASSUME NEW i \in 1..part'
          PROVE  CellAt(files'[cursor'.file], RecordStart'.off + i) = <<blocks'[written' + 1], i>>
      <4>1. i = 1 /\ cursor'.file = cursor.file
          BY <3>1, <2>1
      <4> QED
          BY <4>1, <3>1, <3>2, <2>2, <2>4, <2>7, Zenon
    <3>5. written' <= Len(blocks') /\ written' < Len(blocks')
        BY <3>1, <2>2, <2>3, <2>6
    <3> QED
        BY <3>1, <3>2, <3>3, <3>4, <3>5, <2>1, <2>2, <2>3, <2>4, Zenon DEF TxInv
  <2>8. CASE part = 1
    <3>1. /\ part' = 0 /\ written' = written + 1 /\ pc' = "write"
          /\ keys' = [keys EXCEPT ![b] = RecordStart]
        BY <2>8, <1>12, Sizes DEF writeData, RecordStart
    <3>2. RecordStart' = cursor'
        BY <3>1, <2>1 DEF RecordStart
    <3>3. /\ keys'[b] = RecordStart /\ \A c \in Block : c # b => keys'[c] = keys[c]
          /\ RecordStart # None
        BY <3>1, <2>1, <1>0, Keys, MetaTypes, Locations, Zenon
    <3>4. EndsBy(RecordStart, cursor') /\ AtMost(RecordStart, cursor')
      <4>1. cursor'.file = cursor.file /\ cursor'.off = cursor.off + 1
          BY <2>1, Zenon
      <4> QED
          BY <4>1, <2>1, <2>8, Sizes DEF EndsBy, AtMost, Before
    <3>5. RowsBy(files', keys, cursor')
        BY <3>4, <2>1, <2>5, <1>0, RowsLater, Zenon
    <3>6. RowsBy(files', keys', RecordStart')
      <4> SUFFICES ASSUME NEW c \in Block, keys'[c] # None
                   PROVE  Holds(files', c, keys'[c]) /\ EndsBy(keys'[c], cursor')
          BY <3>2, Zenon DEF RowsBy
      <4>1. CASE c = b
          BY <4>1, <3>3, <3>4, <2>4, <2>8, Zenon
      <4>2. CASE c # b
          BY <4>2, <3>3, <3>5, Zenon DEF RowsBy
      <4> QED
          BY <4>1, <4>2, Zenon
    <3>7. RowsWritten'
      <4> SUFFICES ASSUME NEW c \in Block
                   PROVE  keys'[c] # None <=> \E i \in 1..(written + 1) : blocks[i] = c
          BY <3>1, <2>2, Zenon DEF RowsWritten
      <4>1. keys[c] # None <=> \E i \in 1..written : blocks[i] = c
          BY <2>3, Zenon DEF RowsWritten
      <4>2. \A i : i \in 1..(written + 1) <=> i \in 1..written \/ i = written + 1
          BY <2>6
      <4>3. CASE c = b
          BY <4>2, <4>3, <3>3, Zenon
      <4>4. CASE c # b
          BY <4>1, <4>2, <4>4, <3>3, Zenon
      <4> QED
          BY <4>3, <4>4, Zenon
    <3>8. written' <= Len(blocks')
        BY <3>1, <2>2, <2>3, <2>6
    <3>9. AtMost(rollbackLoc', RecordStart')
        BY <3>2, <3>4, <2>1, <2>2, <2>3, <1>0, Order
    <3> QED
        BY <3>1, <3>2, <3>6, <3>7, <3>8, <3>9, <2>1, <2>4, Zenon DEF TxInv
  <2> QED
      BY <2>1, <2>7, <2>8
<1>13. CASE CommitThrough
  <2>1. /\ pc = "write" /\ written = Len(blocks) /\ pc' = "sync" /\ keys' = KeysWithCursor
        /\ UNCHANGED <<files, cursor, blocks, written, part>>
      BY <1>13, Zenon DEF CommitThrough, AllWritten, fileVars
  <2>2. RowsWritten /\ RowsBy(files, keys, RecordStart) /\ written <= Len(blocks) /\ part = 0
      BY <2>1, <1>0, Zenon DEF TxInv
  <2>3. /\ keys'[WriteLoc] = cursor /\ \A b \in Block : keys'[b] = keys[b]
      BY <2>1, <1>0, Keys, MetaTypes, Zenon DEF KeysWithCursor
  <2>4. RowsWritten'
      BY <2>1, <2>2, <2>3, Zenon DEF RowsWritten
  <2>5. RowsBy(files', keys', RecordStart')
      BY <2>1, <2>2, <2>3, Zenon DEF RowsBy, RecordStart
  <2> QED
      BY <2>1, <2>2, <2>3, <2>4, <2>5, Zenon DEF TxInv
<1>14. CASE syncBlocks \/ ClearCache
  <2>1. CASE CloseTx
      BY <2>1, <1>1, Zenon
  <2>2. CASE ~CloseTx
      BY <2>2, <1>3, <1>14, Zenon DEF syncBlocks, ClearCache, Flushed, txVars
  <2> QED
      BY <2>1, <2>2, Zenon
<1>15. CASE FlushTreaps
    BY <1>3, <1>15, Zenon DEF FlushTreaps, fileVars, txVars
<1>16. CASE FlushFails
    BY <1>1, <1>16, Zenon DEF FlushFails, Flushed
<1>17. CASE \/ RollbackNothing \/ RollbackDeleteFails \/ RollbackTruncateFails
            \/ RollbackSync \/ RollbackSyncFails
    BY <1>1, <1>17, ZenonT(30) DEF RollbackNothing, RollbackDeleteFails, RollbackTruncateFails,
                       RollbackSync, RollbackSyncFails, RolledBack
<1>18. CASE Close
    BY <1>18, Zenon DEF Close, TxInv
<1>19. CASE Open
  <2>1. CASE pc' = "rollback"
      BY <2>1, <1>2, Zenon
  <2>2. CASE pc' = pc
      BY <2>2, <1>0, <1>19, Zenon DEF Open, TxInv, PhaseInv
  <2> QED
      BY <2>1, <2>2, <1>19, Zenon DEF Open
<1>20. CASE ReadBegin \/ ReadCache \/ ReadEnd
    BY <1>3, <1>20, Zenon DEF ReadBegin, ReadCache, ReadEnd, fileVars, txVars
<1> QED
    BY <1>4, <1>5, <1>6, <1>7, <1>8, <1>9, <1>10, <1>11, <1>12, <1>13, <1>14, <1>15, <1>16,
       <1>17, <1>18, <1>19, <1>20, Zenon
    DEF Next, Body, Writer

\* The file at the cursor exists as long as it is open.
LEMMA OpenStep ==
    ASSUME StoreInv, TypeInv', [Next]_vars
    PROVE  OpenInv'
<1> USE DEF fileVars, txVars, Up
<1>0. /\ TypeInv /\ PhaseInv /\ TxInv /\ OpenInv
      /\ cursor \in Location /\ rollbackLoc \in Location
      /\ cursor.file \in FileNum /\ rollbackLoc.file \in FileNum
      /\ FilesOk(files)
    BY Locations, Sizes, Zenon DEF StoreInv, TypeInv
<1>1. ASSUME UNCHANGED <<files, isOpen, cursor>>,
             state' = state \/ state' \in {"open", "closing"},
             (pc' = pc /\ rollbackLoc' = rollbackLoc) \/ pc' \notin {"undo", "undosync"}
      PROVE  OpenInv'
    BY <1>0, <1>1, Zenon DEF OpenInv
<1>2. ASSUME ~isOpen', pc' # "undosync"
      PROVE  OpenInv'
    BY <1>2, Zenon DEF OpenInv
<1>3. CASE UNCHANGED vars
    BY <1>1, <1>3, Zenon DEF vars
<1>4. CASE \/ BeginUpdate \/ Rollback \/ Commit \/ Close \/ writeDataFails
           \/ \E k \in Key, v \in Value : putKey(k, v)
           \/ \E k \in Key : deleteKey(k)
           \/ \E b \in Block : StoreBlock(b)
    BY <1>1, <1>4, Zenon DEF BeginUpdate, Rollback, Commit, Close, writeDataFails, putKey, deleteKey,
                      StoreBlock, CloseTx
<1>5. CASE CommitToCache \/ CommitThrough \/ CommitDirect \/ CommitDirectFails \/ FlushTreaps
    BY <1>1, <1>5, Zenon DEF CommitToCache, CommitThrough, CommitDirect, CommitDirectFails, FlushTreaps,
                      CloseTx
<1>6. CASE openWriteFile
  <2>1. Reaches(files, cursor) /\ state = "open" /\ isOpen' = TRUE /\ pc' = "record" /\ state' = state
      BY <1>0, <1>6, Zenon DEF openWriteFile, MoreBlocks, TxInv, PhaseInv, Writing, RollingBack, Flushing
  <2>2. files'[cursor'.file] # None
      BY <2>1, <1>0, <1>6, OpenWriteFileKeeps, Zenon
  <2> QED
      BY <2>1, <2>2, Zenon DEF OpenInv
<1>7. CASE openWriteFileFails
    BY <1>2, <1>7, Zenon DEF openWriteFileFails
<1>8. CASE writeData
  <2>1. files'[cursor.file] # None /\ cursor'.file = cursor.file
      BY <1>0, <1>8, WriteDataKeeps, WriteDataFiles
  <2>2. isOpen' = isOpen /\ state' = state /\ pc' \in {"write", "record"}
      BY <1>8, Zenon DEF writeData
  <2> QED
      BY <2>1, <2>2, <1>0, Zenon DEF OpenInv
<1>9. CASE syncBlocks \/ ClearCache \/ FlushFails
  <2>1. CASE isOpen' = FALSE /\ CloseTx
      BY <2>1, <1>2, Zenon DEF CloseTx
  <2>2. CASE ~(isOpen' = FALSE /\ CloseTx)
      BY <2>2, <1>1, <1>9, Zenon DEF syncBlocks, ClearCache, FlushFails, Flushed, CloseTx
  <2> QED
      BY <2>1, <2>2, ZenonT(30)
<1>10. CASE RollbackNothing
    BY <1>1, <1>10, Zenon DEF RollbackNothing, RolledBack, CloseTx
<1>11. CASE RollbackStarts
    BY <1>0, <1>11, Zenon DEF RollbackStarts, OpenInv
<1>12. CASE RollbackDelete \/ RollbackDeleteFails
  <2>1. pc = "undo" /\ cursor.file # rollbackLoc.file
      BY <1>0, <1>12, Sizes DEF RollbackDelete, RollbackDeleteFails
  <2>2. ~isOpen
      BY <2>1, <1>0, Zenon DEF OpenInv
  <2>3. isOpen' = isOpen /\ pc' \in {"undo", "none"}
      BY <1>12, Zenon DEF RollbackDelete, RollbackDeleteFails, RolledBack, CloseTx
  <2> QED
      BY <2>2, <2>3, <1>2, Zenon
<1>13. CASE RollbackTruncate
  <2> DEFINE f == IF files[cursor.file] = None THEN <<>> ELSE files[cursor.file]
  <2>1. f \in Seq(Cell) /\ rollbackLoc.off \in Nat
      BY <1>0, FileTypes, Locations, Sizes DEF FilesOk
  <2>2. Truncate(f, rollbackLoc.off) # None
    <3> HIDE DEF f
    <3> QED
        BY <2>1, TruncateCells, FileTypes, Zenon
  <2>3. files' = [files EXCEPT ![cursor.file] = Truncate(f, rollbackLoc.off)]
      BY <1>13, Zenon DEF RollbackTruncate
  <2>4. files'[cursor.file] # None
    <3> HIDE DEF f
    <3> QED
        BY <2>2, <2>3, <1>0, Zenon DEF FilesOk, Files
  <2>5. state \in {"open", "opening"}
      BY <1>0, <1>13, Zenon DEF RollbackTruncate, PhaseInv
  <2> QED
      BY <2>4, <2>5, <1>13, Zenon DEF RollbackTruncate, OpenInv
<1>14. CASE RollbackTruncateFails
  <2>1. /\ cursor' = rollbackLoc /\ cursor.file = rollbackLoc.file /\ state' = "open" /\ pc' = "none"
        /\ isOpen' \in {isOpen, TRUE}
        /\ files' = IF isOpen' /\ files[cursor.file] = None
                    THEN [files EXCEPT ![cursor.file] = <<>>] ELSE files
      BY <1>14, Zenon DEF RollbackTruncateFails, RolledBack, CloseTx
  <2>2. isOpen' => files'[cursor.file] # None
      BY <2>1, <1>0, FileTypes, ZenonT(30) DEF FilesOk, Files
  <2> QED
      BY <2>1, <2>2, Zenon DEF OpenInv
<1>15. CASE RollbackSync \/ RollbackSyncFails
  <2>1. isOpen /\ cursor.file = rollbackLoc.file /\ files[cursor.file] # None
      BY <1>0, <1>15, Zenon DEF RollbackSync, RollbackSyncFails, OpenInv
  <2>2. cursor' = rollbackLoc /\ state' = "open" /\ pc' = "none" /\ files' = files
      BY <1>15, Zenon DEF RollbackSync, RollbackSyncFails, RolledBack, CloseTx
  <2> QED
      BY <2>1, <2>2, Zenon DEF OpenInv
<1>16. CASE Open
  <2>1. ~isOpen /\ isOpen' = isOpen /\ pc = "none"
      BY <1>0, <1>16, Zenon DEF Open, OpenInv, PhaseInv
  <2>2. pc' # "undosync"
      BY <2>1, <1>16, Zenon DEF Open
  <2> QED
      BY <2>1, <2>2, <1>2, Zenon
<1>17. CASE Crash
    BY <1>2, <1>17, Zenon DEF Crash, CloseTx
<1>18. CASE ReadBegin \/ ReadCache \/ ReadEnd
    BY <1>1, <1>18, Zenon DEF ReadBegin, ReadCache, ReadEnd
<1> QED
    BY <1>3, <1>4, <1>5, <1>6, <1>7, <1>8, <1>9, <1>10, <1>11, <1>12, <1>13, <1>14, <1>15, <1>16,
       <1>17, <1>18, SMTT(30)
    DEF Next, Body, Writer

(***************************************************************************)
(* What is synced.                                                         *)
(***************************************************************************)
\* What was synced is not changed by changes behind it.
LEMMA SyncedKept ==
    ASSUME NEW ss, NEW fs, NEW gs, NEW l \in Location, NEW m \in Location,
           SyncedTo(ss, fs, m), KeepsTo(fs, gs, l), Reaches(fs, l), AtMost(m, l)
    PROVE  SyncedTo(ss, gs, m)
<1>1. /\ l.file \in 0..MaxFile /\ m.file \in 0..MaxFile /\ m.off \in Nat /\ l.off \in Nat
      /\ m.file < l.file \/ (m.file = l.file /\ m.off <= l.off)
    BY Locations, Sizes DEF AtMost, Before
<1>2. CASE m.file < l.file
    BY <1>1, <1>2, Sizes, Zenon DEF KeepsTo, SyncedTo
<1>3. CASE m.file = l.file /\ m.off <= l.off
  <2>1. CASE l.file = 0 /\ l.off = 0
    <3>1. 1..m.off = {}
        BY <2>1, <1>1, <1>3
    <3> QED
        BY <3>1, Zenon DEF SyncedTo
  <2>2. CASE fs[l.file] # None
    <3>1. \A i \in 1..m.off : i \in 1..l.off
        BY <1>1, <1>3
    <3>2. \A i \in 1..m.off : CellAt(gs[m.file], i) = CellAt(fs[m.file], i)
        BY <3>1, <2>2, <1>3, ZenonT(30) DEF KeepsTo
    <3> QED
        BY <3>2, ZenonT(30) DEF SyncedTo
  <2> QED
      BY <2>1, <2>2, <1>1 DEF Reaches
<1> QED
    BY <1>1, <1>2, <1>3, Zenon

\* With one file, what is synced up to a location is synced up to an earlier one.
LEMMA SyncedLess ==
    ASSUME MaxFile = 0, NEW ss, SyncedOk(ss), NEW fs, NEW l \in Location, NEW m \in Location,
           SyncedTo(ss, fs, l), AtMost(m, l)
    PROVE  SyncedTo(ss, fs, m)
<1>1. l.file = 0 /\ m.file = 0 /\ m.off \in Nat /\ l.off \in Nat /\ m.off <= l.off
    BY Locations, Sizes DEF AtMost, Before
<1>2. ss[0] \in Seq(Cell)
    BY Sizes DEF SyncedOk
<1>3. m.off <= Len(ss[0]) /\ \A i \in 1..m.off : i \in 1..l.off
    BY <1>1, <1>2 DEF SyncedTo
<1> QED
    BY <1>1, <1>3, Zenon DEF SyncedTo

\* With one file, a sync of it is a sync of everything.
LEMMA SyncedAll ==
    ASSUME MaxFile = 0, NEW ss, SyncedOk(ss), NEW fs, NEW l \in Location, ss[0] = fs[0], Reaches(fs, l)
    PROVE  SyncedTo(ss, fs, l)
<1>1. l.file = 0 /\ l.off \in Nat
    BY Locations, Sizes
<1>2. ss[0] \in Seq(Cell)
    BY Sizes DEF SyncedOk
<1>3. l.off <= Len(ss[0])
    BY <1>1, <1>2 DEF Reaches
<1> QED
    BY <1>1, <1>3, Zenon DEF SyncedTo

\* The steps that sync or delete a file.
LEMMA SyncedWritten ==
    ASSUME [Next]_vars
    PROVE  synced' = synced \/ syncBlocks \/ RollbackDelete \/ RollbackSync \/ Crash
BY ZenonT(30) DEF Next, Body, Writer, vars, fileVars, BeginUpdate, putKey, deleteKey, StoreBlock, Rollback,
       Commit, openWriteFile, openWriteFileFails, writeData, writeDataFails, CommitToCache,
       CommitThrough, CommitDirect, CommitDirectFails, FlushTreaps, ClearCache, FlushFails,
       RollbackNothing, RollbackStarts, RollbackDeleteFails, RollbackTruncate,
       RollbackTruncateFails, RollbackSyncFails, Close, Open, ReadBegin, ReadCache, ReadEnd

\* With one file: a sync of the open file, a rollback without files to delete.
LEMMA OneFile ==
    ASSUME MaxFile = 0, StoreInv
    PROVE  /\ cursor.file = 0 /\ rollbackLoc.file = 0
           /\ ~RollbackDelete /\ ~RollbackDeleteFails
           /\ (syncBlocks /\ isOpen) \/ RollbackSync =>
                 files' = files /\ isOpen /\ synced'[0] = files'[0]
<1>1. cursor.file = 0 /\ rollbackLoc.file = 0
    BY Locations, Sizes DEF StoreInv, TypeInv
<1>2. ~RollbackDelete /\ ~RollbackDeleteFails
    BY <1>1 DEF RollbackDelete, RollbackDeleteFails
<1>3. 0 \in DOMAIN synced
    BY Sizes DEF StoreInv, TypeInv, SyncedOk
<1>4. ASSUME syncBlocks, isOpen
      PROVE  files' = files /\ isOpen /\ synced'[0] = files'[0]
    BY <1>1, <1>3, <1>4, Zenon DEF syncBlocks
<1>5. ASSUME RollbackSync
      PROVE  files' = files /\ isOpen /\ synced'[0] = files'[0]
    BY <1>1, <1>3, <1>5, Zenon DEF RollbackSync, StoreInv, OpenInv
<1> QED
    BY <1>1, <1>2, <1>4, <1>5, Zenon

\* What leveldb locates is synced.
LEMMA LdbSynced ==
    ASSUME PowerLoss, MaxFile = 0, StoreInv, TypeInv', LdbInv', [Next]_vars
    PROVE  SyncedTo(synced', files', ldb'[WriteLoc])
<1>0. /\ TypeInv /\ PhaseInv /\ LdbInv /\ SyncInv /\ SyncedOk(synced) /\ SyncedOk(synced')
      /\ ldb[WriteLoc] \in Location /\ ldb'[WriteLoc] \in Location /\ Kept \in Location
      /\ cursor \in Location
      /\ SyncedTo(synced, files, ldb[WriteLoc]) /\ Reaches(files', ldb'[WriteLoc])
  <2>1. TypeInv /\ PhaseInv /\ LdbInv /\ SyncInv
      BY Zenon DEF StoreInv
  <2>2. /\ ldb'[WriteLoc] \in Location /\ Reaches(files', ldb'[WriteLoc])
      BY MetaTypes, Zenon DEF TypeInv, LdbInv
  <2> QED
      BY <2>1, <2>2, Places, Zenon DEF TypeInv, SyncInv
<1>1. CASE Crash
  <2>1. ldb' = ldb /\ SyncedTo(synced', files', ldb[WriteLoc])
      BY <1>0, <1>1, CrashKeeps, ZenonT(30) DEF Crash
  <2> QED
      BY <2>1, Zenon
<1>2. CASE RollbackSync \/ (syncBlocks /\ isOpen)
    BY <1>0, <1>2, OneFile, SyncedAll, ZenonT(30)
<1>3. CASE ~Crash /\ ~RollbackSync /\ ~(syncBlocks /\ isOpen)
  <2>1. synced' = synced
      BY <1>3, SyncedWritten, OneFile, Zenon DEF syncBlocks
  <2>2. CASE FlushTreaps \/ CommitDirect
    <3>1. SyncedTo(synced, files, cursor) /\ Kept = cursor /\ Up /\ files' = files
        BY <2>2, <1>0, ZenonT(30) DEF FlushTreaps, CommitDirect, SyncInv, Kept, Writing, RollingBack, Up,
                          PhaseInv, fileVars
    <3>2. AtMost(ldb'[WriteLoc], cursor)
        BY <3>1, <2>2, <1>0, FlushWrites, DirectWrites, Order, Zenon
    <3> QED
        BY <3>1, <3>2, <2>1, <1>0, SyncedLess, Zenon
  <2>3. CASE ldb' = ldb /\ Up /\ Up'
    <3>1. KeepsTo(files, files', Kept) /\ Reaches(files, Kept) /\ AtMost(ldb[WriteLoc], Kept)
        BY <2>3, FileStep, Zenon DEF StoreInv, CacheInv
    <3> QED
        BY <3>1, <2>1, <2>3, <1>0, SyncedKept, Zenon
  <2>4. CASE ldb' = ldb /\ files' = files
      BY <2>1, <2>4, <1>0, Zenon
  <2>5. UNCHANGED vars \/ Open => files' = files
      BY Zenon DEF Open, vars, fileVars
  <2> QED
      BY <2>2, <2>3, <2>4, <2>5, <1>0, <1>3, LdbWritten, UpSteps, Zenon
<1> QED
    BY <1>1, <1>2, <1>3, Zenon

\* What a closed file holds is synced, and so is everything when the metadata is
\* about to be written.
LEMMA SyncStep ==
    ASSUME ~PowerLoss \/ MaxFile = 0, StoreInv, TypeInv', PhaseInv', LdbInv', [Next]_vars
    PROVE  SyncInv'
<1> USE DEF fileVars, txVars
<1> DEFINE L == IF RollingBack THEN rollbackLoc ELSE cursor
           B == Up /\ ~isOpen => SyncedTo(synced, files, L)
           C == pc \in {"flush", "clear", "direct"} => SyncedTo(synced, files, cursor)
<1> SUFFICES ASSUME PowerLoss, MaxFile = 0
             PROVE  B' /\ C'
    BY LdbSynced, Zenon DEF SyncInv
<1>0. /\ TypeInv /\ PhaseInv /\ LdbInv /\ TxInv /\ OpenInv /\ SyncedOk(synced) /\ SyncedOk(synced')
      /\ ldb[WriteLoc] \in Location /\ cursor \in Location /\ rollbackLoc \in Location
      /\ cursor' \in Location
    BY Places, Zenon DEF StoreInv, TypeInv
<1>1. B /\ C /\ SyncedTo(synced, files, ldb[WriteLoc])
    BY Zenon DEF StoreInv, SyncInv
<1>2. ASSUME UNCHANGED <<files, synced, cursor, isOpen>>, Up' => Up,
             rollbackLoc' = rollbackLoc \/ ~RollingBack',
             RollingBack' => RollingBack,
             RollingBack => RollingBack' \/ cursor = rollbackLoc,
             pc' = pc \/ pc' \notin {"flush", "clear", "direct"}
      PROVE  B' /\ C'
    BY <1>1, <1>2, Zenon
<1>3. ASSUME isOpen' \/ ~Up', pc' \notin {"flush", "clear", "direct"}
      PROVE  B' /\ C'
    BY <1>3, Zenon
<1>4. CASE UNCHANGED vars
    BY <1>2, <1>4, Zenon DEF vars, RollingBack, Up
<1>5. CASE \/ BeginUpdate \/ Rollback \/ Commit \/ Close
           \/ \E k \in Key, v \in Value : putKey(k, v)
           \/ \E k \in Key : deleteKey(k)
           \/ \E b \in Block : StoreBlock(b)
    BY <1>2, <1>5, Zenon DEF BeginUpdate, Rollback, Commit, Close, putKey, deleteKey, StoreBlock, CloseTx,
                      RollingBack, Up
<1>6. CASE CommitToCache \/ CommitThrough \/ CommitDirect \/ CommitDirectFails
    BY <1>2, <1>6, Zenon DEF CommitToCache, CommitThrough, CommitDirect, CommitDirectFails, AllWritten,
                      CloseTx, RollingBack, Up
<1>7. CASE openWriteFile
    BY <1>3, <1>7, Zenon DEF openWriteFile
<1>8. CASE openWriteFileFails
  <2>1. /\ pc = "write" /\ pc' = "rollback" /\ rollbackLoc' = rollbackLoc /\ synced' = synced
        /\ files' = files /\ ~StillOpen /\ NextFile.file \in FileNum /\ Up
      BY <1>0, <1>8, Zenon DEF openWriteFileFails, MoreBlocks, PhaseInv, Up
  <2>2. NextFile = cursor
    <3>1. NextFile.file = 0 /\ cursor.file = 0
        BY <2>1, Sizes, OneFile
    <3>2. [file |-> cursor.file + 1, off |-> 0].file = 1
        BY <3>1, SMTT(30)
    <3> QED
        BY <3>1, <3>2, SMTT(30) DEF NextFile
  <2>3. SyncedTo(synced, files, cursor)
      BY <2>1, <2>2, <1>1, Zenon DEF StillOpen, RollingBack
  <2>4. AtMost(rollbackLoc, RecordStart) /\ RecordStart = cursor
      BY <2>1, <1>0, Locations DEF TxInv, RecordStart, Writing
  <2>5. SyncedTo(synced', files', rollbackLoc')
      BY <2>1, <2>3, <2>4, <1>0, SyncedLess, Zenon
  <2> QED
      BY <2>1, <2>5, Zenon DEF RollingBack
<1>9. CASE writeData \/ writeDataFails
  <2>1. pc = "record" /\ isOpen' = isOpen /\ pc' \in {"write", "record", "rollback"}
      BY <1>9, Zenon DEF writeData, writeDataFails
  <2>2. isOpen
      BY <2>1, <1>0, Zenon DEF TxInv
  <2> QED
      BY <2>1, <2>2, <1>3, Zenon
<1>10. CASE syncBlocks
  <2>1. /\ pc = "sync" /\ Up /\ files' = files /\ Kept = cursor
        /\ \/ pc' \in {"flush", "direct"} /\ isOpen' = isOpen /\ cursor' = cursor
           \/ ~Up' /\ pc' = "none"
      BY <1>0, <1>10, Zenon DEF syncBlocks, Flushed, CloseTx, PhaseInv, Up, Kept, Writing, RollingBack
  <2>2. CASE isOpen
    <3>1. Reaches(files', cursor)
        BY <2>1, Zenon DEF StoreInv, CacheInv
    <3>2. SyncedTo(synced', files', cursor)
        BY <3>1, <2>2, <1>0, <1>10, OneFile, SyncedAll, Zenon
    <3> QED
        BY <3>2, <2>1, <2>2, ZenonT(30)
  <2>3. CASE ~isOpen
    <3>1. synced' = synced /\ SyncedTo(synced, files, cursor)
        BY <2>1, <2>3, <1>1, <1>10, Zenon DEF syncBlocks, RollingBack
    <3> QED
        BY <3>1, <2>1, Zenon DEF RollingBack
  <2> QED
      BY <2>2, <2>3, Zenon
<1>11. CASE FlushTreaps \/ ClearCache
  <2>1. /\ pc \in {"flush", "clear"} /\ files' = files /\ synced' = synced
        /\ \/ pc' \in {"clear", "direct"} /\ cursor' = cursor
           \/ ~Up' /\ pc' = "none"
      BY <1>11, Zenon DEF FlushTreaps, ClearCache, Flushed, CloseTx, Up
  <2> QED
      BY <2>1, <1>1, Zenon DEF RollingBack
<1>12. CASE FlushFails
  <2>1. CASE state = "closing"
      BY <2>1, <1>3, <1>12, Zenon DEF FlushFails, Flushed, CloseTx, Up
  <2>2. CASE state # "closing"
      BY <2>2, <1>2, <1>12, Zenon DEF FlushFails, CloseTx, RollingBack, Up
  <2> QED
      BY <2>1, <2>2, Zenon
<1>13. CASE RollbackNothing \/ RollbackStarts
  <2>1. Up /\ cursor.file = rollbackLoc.file
      BY <1>0, <1>13, OneFile, Zenon DEF RollbackNothing, RollbackStarts, PhaseInv, Up
  <2>2. isOpen \in BOOLEAN
      BY <1>0, Zenon DEF TypeInv
  <2> QED
      BY <2>1, <2>2, <1>2, <1>13, Zenon DEF RollbackNothing, RollbackStarts, RolledBack, CloseTx, RollingBack
<1>14. CASE RollbackDelete \/ RollbackDeleteFails
    BY <1>14, OneFile, Zenon
<1>15. CASE RollbackTruncate
    BY <1>3, <1>15, Zenon DEF RollbackTruncate
<1>16. CASE RollbackTruncateFails
  <2>1. /\ pc = "undo" /\ Up /\ pc' = "none" /\ cursor' = rollbackLoc /\ synced' = synced
        /\ isOpen' \in {isOpen, TRUE} /\ (isOpen' \/ files' = files)
      BY <1>0, <1>16, Zenon
         DEF RollbackTruncateFails, RolledBack, CloseTx, PhaseInv, Up
  <2>2. CASE isOpen'
      BY <2>1, <2>2, <1>3, Zenon
  <2>3. CASE ~isOpen'
      BY <2>1, <2>3, <1>1, ZenonT(30) DEF RollingBack
  <2> QED
      BY <2>2, <2>3, Zenon
<1>17. CASE RollbackSync \/ RollbackSyncFails
  <2>1. isOpen /\ isOpen' = isOpen /\ pc' = "none"
      BY <1>0, <1>17, Zenon DEF RollbackSync, RollbackSyncFails, RolledBack, CloseTx, OpenInv
  <2> QED
      BY <2>1, <1>3, Zenon
<1>18. CASE Open
  <2>1. /\ files' = files /\ synced' = synced /\ pc = "none"
        /\ \/ pc' = "rollback" /\ rollbackLoc' = ldb[WriteLoc]
           \/ pc' = "none" /\ ~Before(ldb[WriteLoc], cursor')
      BY <1>0, <1>18, Zenon DEF Open, PhaseInv
  <2>2. CASE pc' = "rollback" /\ rollbackLoc' = ldb[WriteLoc]
      BY <2>1, <2>2, <1>1, Zenon DEF RollingBack
  <2>3. CASE pc' = "none" /\ ~Before(ldb[WriteLoc], cursor')
    <3>1. SyncedTo(synced, files, cursor')
        BY <2>3, <1>0, <1>1, SyncedLess, Zenon DEF AtMost
    <3> QED
        BY <3>1, <2>1, <2>3, Zenon DEF RollingBack
  <2> QED
      BY <2>1, <2>2, <2>3, Zenon
<1>19. CASE Crash
    BY <1>3, <1>19, Zenon DEF Crash, CloseTx, Up
<1>20. CASE ReadBegin \/ ReadCache \/ ReadEnd
    BY <1>2, <1>20, Zenon DEF ReadBegin, ReadCache, ReadEnd, RollingBack, Up
<1> QED
    BY <1>4, <1>5, <1>6, <1>7, <1>8, <1>9, <1>10, <1>11, <1>12, <1>13, <1>14, <1>15, <1>16,
       <1>17, <1>18, <1>19, <1>20, ZenonT(30)
    DEF Next, Body, Writer

(***************************************************************************)
(* The invariant.                                                          *)
(***************************************************************************)
LEMMA InitInv ==
    ASSUME Init
    PROVE  StoreInv
<1> DEFINE zero == [file |-> 0, off |-> 0]
<1>1. /\ zero \in Location /\ Empty \in Meta /\ \A k \in MetaKey : Empty[k] = None
      /\ 0 \in FileNum
    BY Locations, EmptyMeta, Sizes, Zenon
<1>2. /\ ldb \in Meta /\ ldb[WriteLoc] = zero /\ \A b \in Block : ldb[b] = None
  <2>1. ldb = [Empty EXCEPT ![WriteLoc] = zero] /\ WriteLoc \in MetaKey \ Key
      BY Keys, Zenon DEF Init
  <2>2. ldb \in Meta
      BY <2>1, <1>1, SetRow, Zenon
  <2> QED
      BY <2>1, <2>2, <1>1, Keys, MetaTypes, Zenon
<1>3. FilesOk(files) /\ SyncedOk(synced) /\ Len(synced[0]) = 0
    BY <1>1, FileTypes, Sizes, SMTT(30) DEF Init, FilesOk, Files, SyncedOk
<1>4. TypeInv
  <2>1. cachedKeys \in Meta /\ keys \in Meta /\ snapshot \in Meta
      BY <1>1, Zenon DEF Init
  <2>2. cursor \in Location /\ rollbackLoc \in Location
      BY <1>1, Zenon DEF Init
  <2>3. /\ cachedRemove \subseteq Key /\ remove \subseteq Key /\ isOpen \in BOOLEAN
        /\ blocks \in Seq(Block) /\ written \in Nat /\ part \in 0..(RecordLen - 1)
      BY Sizes DEF Init
  <2> QED
      BY <2>1, <2>2, <2>3, <1>2, <1>3, Zenon DEF TypeInv
<1>5. PhaseInv
    BY Zenon DEF PhaseInv, Init
<1>6. Reaches(files, zero) /\ AtMost(zero, zero)
    BY <1>1, Order, Zenon DEF Reaches
<1>7. LdbInv
    BY <1>1, <1>2, <1>6, NoRows, Locations, Zenon DEF LdbInv
<1>8. CacheInv
    BY <1>1, <1>2, <1>6, Keys, Zenon DEF CacheInv, Kept, Init
<1>9. FlushInv /\ TxInv /\ OpenInv
    BY <1>1, Keys, Zenon DEF FlushInv, TxInv, OpenInv, Init, Writing, Flushing
<1>10. SyncInv
  <2>1. SyncedTo(synced, files, zero)
      BY <1>3, SMTT(30) DEF SyncedTo
  <2> QED
      BY <2>1, <1>2, Zenon DEF SyncInv, Init
<1> QED
    BY <1>4, <1>5, <1>7, <1>8, <1>9, <1>10, Zenon DEF StoreInv

LEMMA InvStep ==
    ASSUME ~PowerLoss \/ MaxFile = 0, StoreInv, [Next]_vars
    PROVE  StoreInv'
<1>1. TypeInv' /\ PhaseInv'
    BY TypeStep, PhaseStep, Zenon
<1>2. LdbInv'
    BY <1>1, LdbStep, Zenon
<1>3. Up' => CacheInv'
    BY <1>1, <1>2, CacheStep, Zenon
<1>4. FlushInv' /\ TxInv' /\ OpenInv' /\ SyncInv'
    BY <1>1, <1>2, FlushStep, TxStep, OpenStep, SyncStep, Zenon
<1> QED
    BY <1>1, <1>2, <1>3, <1>4, Zenon DEF StoreInv

\* The inductive invariant of the database: whatever commits, rollbacks, failed
\* operations and crashes leave behind, leveldb, the cache and the transaction
\* locate whole records, and the files reach to leveldb's write cursor.
THEOREM StoreInvariant ==
    ASSUME ~PowerLoss \/ MaxFile = 0
    PROVE  Spec => []StoreInv
<1>1. Init => StoreInv
    BY InitInv, Zenon
<1>2. StoreInv /\ [Next]_vars => StoreInv'
    BY InvStep, Zenon
<1> QED
    BY <1>1, <1>2, PTL DEF Spec

\* Every row one can see locates its record.
LEMMA RowsReadable ==
    ASSUME StoreInv
    PROVE  /\ Committed \in Meta
           /\ \A b \in Block :
                 /\ ldb[b] # None => Readable(b, ldb[b])
                 /\ Committed[b] # None => Readable(b, Committed[b])
                 /\ reader # "none" /\ snapshot[b] # None => Readable(b, snapshot[b])
<1>1. /\ TypeInv /\ PhaseInv /\ LdbInv /\ FlushInv /\ ldb \in Meta /\ cachedKeys \in Meta
      /\ cachedRemove \in SUBSET Key /\ ldb[WriteLoc] \in Location /\ Kept \in Location
    BY Places, Zenon DEF StoreInv, TypeInv
<1>2. PICK l \in Location : RowsBy(files, ldb, l) /\ RowsBy(files, cachedKeys, l)
  <2>1. CASE Up
    <3>1. CacheInv
        BY <2>1, Zenon DEF StoreInv
    <3>2. RowsBy(files, ldb, Kept)
        BY <3>1, <1>1, RowsLater, Zenon DEF LdbInv, CacheInv
    <3>3. CASE cachedKeys[WriteLoc] = None
        BY <3>1, <3>2, <3>3, <1>1, NoRows, Zenon DEF CacheInv
    <3>4. CASE cachedKeys[WriteLoc] # None
      <4>1. /\ RowsBy(files, cachedKeys, cachedKeys[WriteLoc]) /\ AtMost(cachedKeys[WriteLoc], Kept)
            /\ cachedKeys[WriteLoc] \in Location
          BY <3>1, <3>4, <1>1, Places, Zenon DEF CacheInv
      <4>2. RowsBy(files, cachedKeys, Kept)
          BY <4>1, <1>1, RowsLater, Zenon
      <4> QED
          BY <4>2, <3>2, <1>1, Zenon
    <3> QED
        BY <3>3, <3>4, Zenon
  <2>2. CASE ~Up
    <3>1. cachedKeys = Empty
        BY <2>2, <1>1, Zenon DEF PhaseInv, Up, FlushInv
    <3>2. \A b \in Block : cachedKeys[b] = None
        BY <3>1, EmptyMeta, Keys, Zenon
    <3> QED
        BY <3>2, <1>1, NoRows, Zenon DEF LdbInv
  <2> QED
      BY <2>1, <2>2, Zenon
<1>3. Committed \in Meta /\ RowsBy(files, Committed, l)
    BY <1>1, <1>2, ViewMeta, ViewRows, Zenon DEF Committed
<1>4. reader # "none" => RowsBy(files, snapshot, Kept)
    BY <1>1, Zenon DEF PhaseInv, Up, StoreInv, CacheInv
<1>5. \A b, loc : Holds(files, b, loc) => Readable(b, loc)
    BY Zenon DEF Holds, Readable
<1> QED
    BY <1>2, <1>3, <1>4, <1>5, ZenonT(30) DEF RowsBy

\* No stored block is lost and openDB never reports corruption, for any blocks, keys,
\* file size and number of transactions, failures and crashes: a row of leveldb, of the
\* cache or of a reader's snapshot always locates the whole record of its block.
THEOREM StoreIntactAlways ==
    ASSUME ~PowerLoss \/ MaxFile = 0
    PROVE  Spec => []StoreIntact
<1>1. StoreInv => StoreIntact
  <2> SUFFICES ASSUME StoreInv
               PROVE  StoreIntact
      BY Zenon
  <2>1. NeverCorrupt
      BY Zenon DEF StoreInv, PhaseInv, NeverCorrupt
  <2>2. BlocksReadable
      BY RowsReadable, Zenon DEF BlocksReadable
  <2> QED
      BY <2>1, <2>2, Zenon DEF StoreIntact
<1> QED
    BY <1>1, StoreInvariant, PTL

\* No more blocks are written than the transaction stores.
WrittenInv == written <= Len(blocks)

LEMMA WrittenStep ==
    ASSUME StoreInv, WrittenInv, [Next]_vars
    PROVE  WrittenInv'
<1> USE DEF WrittenInv
<1>1. blocks \in Seq(Block) /\ written \in Nat
    BY Zenon DEF StoreInv, TypeInv
<1>2. CASE UNCHANGED <<blocks, written>>
    BY <1>2, Zenon
<1>3. CASE CloseTx
    BY <1>3 DEF CloseTx
<1>4. CASE \E b \in Block : StoreBlock(b)
    BY <1>1, <1>4 DEF StoreBlock
<1>5. CASE writeData
  <2>1. written + 1 \in 1..Len(blocks) /\ blocks' = blocks /\ written' \in {written, written + 1}
      BY <1>5, WriteDataFiles, Zenon DEF StoreInv, writeData
  <2> QED
      BY <2>1, <1>1
<1> QED
    BY <1>2, <1>3, <1>4, <1>5, ZenonT(30)
    DEF Next, Body, Writer, vars, txVars, BeginUpdate, putKey, deleteKey, Rollback, Commit,
        openWriteFile, openWriteFileFails, writeDataFails, CommitToCache, CommitThrough,
        CommitDirect, CommitDirectFails, syncBlocks, FlushTreaps, ClearCache, FlushFails, Flushed,
        RollbackNothing, RollbackStarts, RollbackDelete, RollbackDeleteFails, RollbackTruncate,
        RollbackTruncateFails, RollbackSync, RollbackSyncFails, RolledBack, Close, Open, Crash,
        ReadBegin, ReadCache, ReadEnd

\* Every variable keeps its type; no file and no location passes maxBlockFileSize.
THEOREM TypesAlways ==
    ASSUME ~PowerLoss \/ MaxFile = 0
    PROVE  Spec => []TypeOK
<1>1. StoreInv /\ WrittenInv => TypeOK
  <2> SUFFICES ASSUME StoreInv, WrittenInv
               PROVE  TypeOK
      BY Zenon
  <2>1. TypeInv /\ PhaseInv /\ TxInv
      BY Zenon DEF StoreInv
  <2>2. \A m \in Meta : IsMeta(m)
      BY Zenon DEF Meta
  <2>3. \A n \in FileNum : IsFile(files[n]) /\ IsFile(synced[n])
      BY <2>1 DEF TypeInv, FilesOk, Files, SyncedOk, IsFile
  <2>4. written \in 0..Len(blocks)
      BY <2>1 DEF TypeInv, WrittenInv
  <2>5. /\ state \in {"open", "closing", "closed", "opening", "corrupt"}
        /\ pc \in {"none", "tx", "write", "record", "sync", "flush", "clear", "direct", "rollback",
                   "undo", "undosync"}
        /\ reader \in {"none", "begin", "read"}
      BY <2>1, Zenon DEF PhaseInv, Writing, Flushing, RollingBack
  <2> QED
      BY <2>1, <2>2, <2>3, <2>4, <2>5, Zenon DEF TypeInv, TypeOK
<1>2. Init => WrittenInv
    BY DEF Init, WrittenInv
<1>3. StoreInv /\ WrittenInv /\ [Next]_vars => WrittenInv'
    BY WrittenStep, Zenon
<1> QED
    BY <1>1, <1>2, <1>3, StoreInvariant, PTL DEF Spec

(***************************************************************************)
(* Refinement: the database implements DurableStore.                       *)
(***************************************************************************)
\* What is stored, of rows that are all readable.
StoredAs(m) == [i \in Block \cup Key |-> IF i \in Key \/ m[i] = None THEN m[i] ELSE i]

AllStored == Stored(ldb) = StoredAs(ldb) /\ Stored(Committed) = StoredAs(Committed)

LEMMA StoredRows ==
    StoreInv => AllStored
<1> SUFFICES ASSUME StoreInv
             PROVE  AllStored
    BY Zenon
<1>1. \A i \in Block \cup Key : i \notin Key /\ ldb[i] # None => Readable(i, ldb[i])
    BY RowsReadable, Zenon
<1>2. \A i \in Block \cup Key : i \notin Key /\ Committed[i] # None => Readable(i, Committed[i])
    BY RowsReadable, Zenon
<1>3. Stored(ldb) = StoredAs(ldb)
    BY <1>1, Zenon DEF Stored, StoredAs
<1>4. Stored(Committed) = StoredAs(Committed)
    BY <1>2, Zenon DEF Stored, StoredAs
<1> QED
    BY <1>3, <1>4, Zenon DEF AllStored

\* An empty cache shows leveldb, and a flush does not change what one sees.
LEMMA ViewEmpty ==
    ASSUME NEW db \in Meta
    PROVE  View(db, Empty, {}) = db
<1>1. Empty \in Meta /\ {} \in SUBSET Key
    BY EmptyMeta, Zenon
<1>2. View(db, Empty, {}) \in [MetaKey -> Value \cup Location \cup {None}]
    BY <1>1, ViewMeta, MetaTypes, Zenon
<1>3. db \in [MetaKey -> Value \cup Location \cup {None}]
    BY MetaTypes, Zenon
<1>4. \A k \in MetaKey : View(db, Empty, {})[k] = db[k]
    BY <1>1, ViewMeta, EmptyMeta
<1> HIDE DEF View
<1> QED
    BY <1>2, <1>3, <1>4

LEMMA ViewFlushed ==
    ASSUME NEW db \in Meta, NEW ks \in Meta, NEW rm \in SUBSET Key
    PROVE  View(View(db, ks, rm), ks, rm) = View(db, ks, rm)
<1> DEFINE v == View(db, ks, rm)
<1>1. /\ v \in Meta
      /\ \A k \in MetaKey : v[k] = IF k \in rm THEN None ELSE IF ks[k] # None THEN ks[k] ELSE db[k]
    BY ViewMeta, SMTT(30)
<1> HIDE DEF v
<1>2. /\ View(v, ks, rm) \in Meta
      /\ \A k \in MetaKey : View(v, ks, rm)[k] =
            IF k \in rm THEN None ELSE IF ks[k] # None THEN ks[k] ELSE v[k]
    BY <1>1, ViewMeta
<1>3. \A k \in MetaKey : View(v, ks, rm)[k] = v[k]
    BY <1>1, <1>2, Zenon
<1>4. /\ View(v, ks, rm) \in [MetaKey -> Value \cup Location \cup {None}]
      /\ v \in [MetaKey -> Value \cup Location \cup {None}]
    BY <1>1, <1>2, MetaTypes, Zenon
<1>5. View(v, ks, rm) = v
    BY <1>3, <1>4, SMTT(30)
<1> QED
    BY <1>5, Zenon DEF v

\* A transaction whose blocks are all written is applied as a whole.
LEMMA CommitStored ==
    ASSUME NEW m \in Meta, NEW w, keys \in Meta, remove \in SUBSET Key, blocks \in Seq(Block),
           \A b \in Block : keys[b] # None <=> \E n \in 1..Len(blocks) : blocks[n] = b,
           \A i \in Block \cup Key : w[i] = View(m, keys, remove)[i]
    PROVE  StoredAs(w) = Store!Update(StoredAs(m), Pending)
<1> SUFFICES ASSUME NEW i \in Block \cup Key
             PROVE  (IF i \in Key \/ w[i] = None THEN w[i] ELSE i)
                      = (IF Pending[i] = Keep THEN StoredAs(m)[i] ELSE Pending[i])
    BY Zenon DEF StoredAs, Store!Update
<1>1. /\ i \in MetaKey
      /\ w[i] = IF i \in remove THEN None ELSE IF keys[i] # None THEN keys[i] ELSE m[i]
    BY ViewMeta, Keys, SMTT(30)
<1>2. Keep \notin Block \cup Value \cup {None} /\ Block \cap Key = {}
    BY StoreAssumption, Zenon
<1>3. StoredAs(m)[i] = IF i \in Key \/ m[i] = None THEN m[i] ELSE i
    BY Zenon DEF StoredAs
<1>4. CASE i \in Key
  <2>1. ~\E n \in 1..Len(blocks) : blocks[n] = i
      BY <1>2, <1>4, SMTT(30)
  <2>2. Pending[i] = IF i \in remove THEN None ELSE IF keys[i] # None THEN keys[i] ELSE Keep
      BY <2>1, <1>4, Zenon DEF Pending
  <2>3. keys[i] # None => keys[i] \in Value
      BY <1>4, MetaTypes, Zenon
  <2> QED
      BY <2>2, <2>3, <1>1, <1>2, <1>3, <1>4, Zenon
<1>5. CASE i \in Block /\ i \notin Key
  <2>1. i \notin remove
      BY <1>5, Zenon
  <2>2. Pending[i] = IF keys[i] # None THEN i ELSE Keep
      BY <2>1, <1>5, Zenon DEF Pending
  <2> QED
      BY <2>1, <2>2, <1>1, <1>2, <1>3, <1>5, SMTT(30)
<1> QED
    BY <1>4, <1>5, Zenon

\* What a transaction would change is what its blocks, keys and removals say.
LEMMA PendingKept ==
    ASSUME UNCHANGED <<blocks, remove>>, \A k \in Key : keys'[k] = keys[k]
    PROVE  Pending' = Pending
BY Zenon DEF Pending

LEMMA PendingClosed ==
    ASSUME CloseTx
    PROVE  Pending' = Store!Nothing
<1>1. \A k \in Key : keys'[k] = None
    BY EmptyMeta, Keys, Zenon DEF CloseTx
<1>2. /\ remove' = {} /\ ~\E n \in 1..Len(blocks') : TRUE
    BY DEF CloseTx
<1> QED
    BY <1>1, <1>2, Zenon DEF Pending, Store!Nothing

\* Every step of the database is a step of DurableStore or changes nothing of it.
LEMMA RefinesStep ==
    ASSUME StoreInv, StoreInv', [Next]_vars
    PROVE  [Store!Next]_(Store!vars)
<1> USE DEF cacheVars, txVars
<1> DEFINE Same == UNCHANGED <<Stored(Committed), Stored(ldb)>>
           SameUp == UNCHANGED (state \notin {"closed", "corrupt"})
<1>0. /\ TypeInv /\ PhaseInv /\ FlushInv /\ TxInv
      /\ ldb \in Meta /\ cachedKeys \in Meta /\ cachedRemove \in SUBSET Key
      /\ keys \in Meta /\ remove \in SUBSET Key /\ blocks \in Seq(Block)
    BY Zenon DEF StoreInv, TypeInv
<1>1. /\ Stored(ldb) = StoredAs(ldb) /\ Stored(Committed) = StoredAs(Committed)
      /\ Stored(ldb)' = StoredAs(ldb') /\ Stored(Committed)' = StoredAs(Committed')
      /\ Committed \in Meta
  <2>1. AllStored'
      BY StoredRows, PTL
  <2> QED
      BY <2>1, StoredRows, RowsReadable, Zenon DEF AllStored
<1>2. ASSUME ldb' = ldb, UNCHANGED cacheVars
      PROVE  Same
    BY <1>1, <1>2, Zenon DEF Committed
<1>3. ASSUME Same, SameUp, UNCHANGED <<blocks, remove>>, \A k \in Key : keys'[k] = keys[k]
      PROVE  UNCHANGED Store!vars
    BY <1>3, PendingKept, Zenon DEF Store!vars
<1>4. ASSUME Same, SameUp, Up, CloseTx
      PROVE  Store!Abort
    BY <1>4, PendingClosed, Zenon DEF Store!Abort, Up
<1>5. ASSUME Up, state' = "closed", ldb' = ldb, CloseTx, cachedKeys' = Empty, cachedRemove' = {}
      PROVE  Store!Stop
  <2>1. Committed' = ldb
      BY <1>0, <1>5, ViewEmpty, Zenon DEF Committed
  <2> QED
      BY <2>1, <1>1, <1>5, PendingClosed, Zenon DEF Store!Stop, Up
<1>6. CASE UNCHANGED vars
    BY <1>2, <1>3, <1>6, Zenon DEF vars
<1>7. CASE BeginUpdate \/ Commit \/ Close \/ ReadBegin \/ ReadCache \/ ReadEnd
    BY <1>2, <1>3, <1>7, Zenon DEF BeginUpdate, Commit, Close, ReadBegin, ReadCache, ReadEnd
<1>8. CASE \/ openWriteFile \/ openWriteFileFails \/ writeDataFails
           \/ RollbackStarts \/ RollbackDelete \/ RollbackTruncate
    BY <1>2, <1>3, <1>8, Zenon
       DEF openWriteFile, openWriteFileFails, writeDataFails, RollbackStarts, RollbackDelete,
           RollbackTruncate
<1>9. CASE writeData
  <2>1. blocks[written + 1] \in Block
      BY <1>9, WriteDataFiles, Zenon DEF StoreInv
  <2>2. \A k \in Key : keys'[k] = keys[k]
      BY <2>1, <1>0, <1>9, Keys, MetaTypes, Zenon DEF writeData
  <2>3. remove' = remove
      BY <2>1, <1>0, <1>9, Keys, Zenon DEF writeData
  <2> QED
      BY <2>2, <2>3, <1>2, <1>3, <1>9, Zenon DEF writeData
<1>10. CASE CommitThrough
  <2>1. \A k \in Key : keys'[k] = keys[k]
      BY <1>0, <1>10, Keys, MetaTypes, Zenon DEF CommitThrough, KeysWithCursor
  <2> QED
      BY <2>1, <1>2, <1>3, <1>10, ZenonT(30) DEF CommitThrough
<1>11. ASSUME NEW i \in Block \cup Key, NEW d \in Block \cup Value \cup {None},
              ldb' = ldb, UNCHANGED cacheVars, state' = state, pc = "tx",
              Pending' = [Pending EXCEPT ![i] = d]
       PROVE  Store!Next
  <2>1. state = "open"
      BY <1>0, <1>11, Zenon DEF PhaseInv, Writing, RollingBack, Flushing
  <2>2. Store!Write(i, d)
      BY <2>1, <1>2, <1>11, Zenon DEF Store!Write
  <2> QED
      BY <2>2, <1>11, Zenon DEF Store!Next
<1>12. ASSUME NEW k \in Key, NEW v \in Value, putKey(k, v)
       PROVE  Store!Next
  <2>1. /\ keys'[k] = v /\ \A i \in Key : i # k => keys'[i] = keys[i]
        /\ v # None /\ k \notin Block
      BY <1>0, <1>12, Keys, MetaTypes, StoreAssumption, Zenon DEF putKey
  <2>2. /\ remove' = remove \ {k} /\ blocks' = blocks
        /\ ~\E n \in 1..Len(blocks) : blocks[n] = k
      BY <2>1, <1>0, <1>12, SMTT(30) DEF putKey
  <2>3. Pending' = [Pending EXCEPT ![k] = v]
      BY <2>1, <2>2, Zenon DEF Pending
  <2> QED
      BY <2>3, <1>11, <1>12, ZenonT(30) DEF putKey
<1>13. ASSUME NEW k \in Key, deleteKey(k)
       PROVE  Store!Next
  <2>1. /\ \A i \in Key : i # k => keys'[i] = keys[i]
        /\ k \notin Block
      BY <1>0, <1>13, Keys, MetaTypes, ZenonT(30) DEF deleteKey
  <2>2. /\ remove' = remove \cup {k} /\ blocks' = blocks
        /\ ~\E n \in 1..Len(blocks) : blocks[n] = k
      BY <2>1, <1>0, <1>13, SMTT(30) DEF deleteKey
  <2>3. Pending' = [Pending EXCEPT ![k] = None]
      BY <2>1, <2>2, Zenon DEF Pending
  <2> QED
      BY <2>3, <1>11, <1>13, Zenon DEF deleteKey
<1>14. ASSUME NEW b \in Block, StoreBlock(b)
       PROVE  Store!Next
  <2>1. \A i : (\E n \in 1..Len(blocks') : blocks'[n] = i)
                  <=> i = b \/ \E n \in 1..Len(blocks) : blocks[n] = i
    <3>1. /\ blocks' = Append(blocks, b) /\ Len(blocks') = Len(blocks) + 1
          /\ Len(blocks) \in Nat /\ blocks'[Len(blocks) + 1] = b
          /\ \A n \in 1..Len(blocks) : blocks'[n] = blocks[n]
        BY <1>0, <1>14, SMTT(30) DEF StoreBlock
    <3>2. \A n : n \in 1..Len(blocks') <=> n \in 1..Len(blocks) \/ n = Len(blocks) + 1
        BY <3>1
    <3> QED
        BY <3>1, <3>2, Zenon
  <2>2. keys' = keys /\ remove' = remove
      BY <1>14, Zenon DEF StoreBlock
  <2>3. Pending' = [Pending EXCEPT ![b] = b]
      BY <2>1, <2>2, Zenon DEF Pending
  <2> QED
      BY <2>3, <1>11, <1>14, ZenonT(30) DEF StoreBlock
<1>15. ASSUME \/ Rollback \/ CommitDirectFails
              \/ RollbackNothing \/ RollbackDeleteFails \/ RollbackTruncateFails
              \/ RollbackSync \/ RollbackSyncFails
       PROVE  Store!Abort
  <2>1. Up
      BY <1>0, <1>15, ZenonT(30)
         DEF PhaseInv, Up, Rollback, CommitDirectFails, RollbackNothing, RollbackDeleteFails,
             RollbackTruncateFails, RollbackSync, RollbackSyncFails
  <2>2. /\ CloseTx /\ ldb' = ldb /\ UNCHANGED cacheVars
        /\ state' = state \/ state' = "open"
      BY <1>15, Zenon
         DEF Rollback, CommitDirectFails, RollbackNothing, RollbackDeleteFails,
             RollbackTruncateFails, RollbackSync, RollbackSyncFails, RolledBack
  <2>3. SameUp
      BY <2>1, <2>2, Zenon DEF Up
  <2> QED
      BY <2>1, <2>2, <2>3, <1>2, <1>4, Zenon
<1>16. ASSUME CommitToCache
       PROVE  Store!Commit
  <2>1. /\ pc = "write" /\ written = Len(blocks) /\ ldb' = ldb /\ state' = state /\ CloseTx
        /\ cachedRemove' = (cachedRemove \ {k \in MetaKey : KeysWithCursor[k] # None}) \cup remove
        /\ cachedKeys' = [k \in MetaKey |-> IF k \in remove THEN None
                                            ELSE IF KeysWithCursor[k] # None THEN KeysWithCursor[k]
                                            ELSE cachedKeys[k]]
      BY <1>16, ZenonT(30) DEF CommitToCache, AllWritten
  <2>2. state = "open"
      BY <2>1, <1>0, Zenon DEF PhaseInv, RollingBack
  <2>3. \A b \in Block : keys[b] # None <=> \E n \in 1..Len(blocks) : blocks[n] = b
      BY <2>1, <1>0, ZenonT(30) DEF TxInv, Writing, RowsWritten
  <2>4. \A i \in Block \cup Key : i \in MetaKey /\ KeysWithCursor[i] = keys[i]
      BY <1>0, Keys, MetaTypes, Zenon DEF KeysWithCursor
  <2>5. ASSUME NEW i \in Block \cup Key
        PROVE  Committed'[i] = View(Committed, keys, remove)[i]
    <3>1. Committed'[i] = IF i \in cachedRemove' THEN None
                          ELSE IF cachedKeys'[i] # None THEN cachedKeys'[i] ELSE ldb'[i]
        BY <2>4, Zenon DEF Committed, View
    <3>2. Committed[i] = IF i \in cachedRemove THEN None
                         ELSE IF cachedKeys[i] # None THEN cachedKeys[i] ELSE ldb[i]
        BY <2>4, Zenon DEF Committed, View
    <3>3. View(Committed, keys, remove)[i] =
             IF i \in remove THEN None ELSE IF keys[i] # None THEN keys[i] ELSE Committed[i]
        BY <2>4, Zenon DEF View
    <3>4. /\ i \in cachedRemove' <=> (i \in cachedRemove /\ keys[i] = None) \/ i \in remove
          /\ cachedKeys'[i] = IF i \in remove THEN None ELSE IF keys[i] # None THEN keys[i]
                              ELSE cachedKeys[i]
        BY <2>1, <2>4, Zenon
    <3> QED
        BY <3>1, <3>2, <3>3, <3>4, <2>1
  <2>6. StoredAs(Committed') = Store!Update(StoredAs(Committed), Pending)
      BY <2>3, <2>5, <1>0, <1>1, CommitStored, ZenonT(30)
  <2> QED
      BY <2>1, <2>2, <2>6, <1>1, PendingClosed, ZenonT(30) DEF Store!Commit
<1>17. ASSUME CommitDirect
       PROVE  Store!CommitThrough
  <2>1. /\ pc = "direct" /\ state' = state /\ CloseTx /\ UNCHANGED cacheVars
        /\ ldb' = View(ldb, keys, remove)
      BY <1>0, <1>17, ViewMeta, Zenon DEF CommitDirect
  <2>2. cachedKeys = Empty /\ cachedRemove = {} /\ state = "open"
      BY <2>1, <1>0, Zenon DEF FlushInv, PhaseInv, RollingBack
  <2>3. Committed = ldb /\ Committed' = ldb'
      BY <2>1, <2>2, <1>0, ViewMeta, ViewEmpty, Zenon DEF Committed
  <2>4. \A b \in Block : keys[b] # None <=> \E n \in 1..Len(blocks) : blocks[n] = b
      BY <2>1, <2>2, <1>0, ZenonT(30) DEF TxInv, Flushing, RowsWritten
  <2>5. StoredAs(ldb') = Store!Update(StoredAs(ldb), Pending)
      BY <2>1, <2>4, <1>0, CommitStored, ZenonT(30)
  <2> QED
      BY <2>1, <2>2, <2>3, <2>5, <1>1, PendingClosed, Zenon DEF Store!CommitThrough
<1>18. ASSUME FlushTreaps
       PROVE  Store!Flush
  <2>1. /\ ldb' = Committed /\ UNCHANGED cacheVars /\ state' = state /\ UNCHANGED txVars
      BY <1>0, <1>18, ViewMeta, Zenon DEF FlushTreaps, Committed
  <2>2. Committed' = Committed
      BY <2>1, <1>0, ViewFlushed, Zenon DEF Committed
  <2>3. Up
      BY <1>0, <1>18, Zenon DEF FlushTreaps, PhaseInv, Up
  <2>4. Pending' = Pending
      BY <2>1, PendingKept, Zenon
  <2> QED
      BY <2>1, <2>2, <2>3, <2>4, <1>1, Zenon DEF Store!Flush, Up
<1>19. CASE ClearCache
  <2>1. /\ pc = "clear" /\ ldb' = ldb /\ cachedKeys' = Empty /\ cachedRemove' = {} /\ Flushed /\ Up
      BY <1>0, <1>19, Zenon DEF ClearCache, PhaseInv, Up
  <2>2. Committed' = ldb
      BY <2>1, <1>0, ViewEmpty, Zenon DEF Committed
  <2>3. Committed = ldb
    <3>1. \A k \in MetaKey : Committed[k] = ldb[k]
        BY <2>1, <1>0, ViewMeta, SMTT(30) DEF FlushInv, Committed
    <3> QED
        BY <3>1, <1>0, <1>1, MetaTypes, SMTT(30)
  <2>4. CASE state = "closing"
      BY <2>1, <2>4, <1>5, Zenon DEF Flushed, Store!Next
  <2>5. CASE state = "open"
    <3>1. Same
        BY <2>1, <2>2, <2>3, <1>1, Zenon
    <3> QED
        BY <3>1, <2>1, <2>5, <1>3, Zenon DEF Flushed
  <2> QED
      BY <2>1, <2>4, <2>5, Zenon DEF Flushed
<1>20. CASE syncBlocks
  <2>1. /\ pc = "sync" /\ ldb' = ldb /\ UNCHANGED cacheVars /\ Up
      BY <1>0, <1>20, Zenon DEF syncBlocks, PhaseInv, Up
  <2>2. CASE UNCHANGED <<state, txVars>>
      BY <2>1, <2>2, <1>2, <1>3, Zenon
  <2>3. CASE state' = "closed" /\ CloseTx /\ cachedKeys = Empty /\ cachedRemove = {}
      BY <2>1, <2>3, <1>5, Zenon DEF Store!Next
  <2> QED
      BY <2>2, <2>3, <1>20, Zenon DEF syncBlocks, Flushed
<1>21. CASE FlushFails
  <2>1. Up /\ ldb' = ldb
      BY <1>0, <1>21, Zenon DEF FlushFails, PhaseInv, Up
  <2>2. CASE state = "closing"
      BY <2>1, <2>2, <1>5, <1>21, Zenon DEF FlushFails, Flushed, Store!Next
  <2>3. CASE state # "closing"
      BY <2>1, <2>3, <1>2, <1>4, <1>21, Zenon DEF FlushFails, Store!Next
  <2> QED
      BY <2>2, <2>3, Zenon
<1>22. CASE Open
  <2>1. /\ state = "closed" /\ ldb' = ldb /\ UNCHANGED cacheVars /\ UNCHANGED <<keys, remove, blocks>>
      BY <1>22, Zenon DEF Open
  <2>2. state' \notin {"closed", "corrupt"}
      BY <1>22, Zenon DEF Open, StoreInv, PhaseInv
  <2>3. Store!Start
      BY <2>1, <2>2, <1>2, PendingKept, Zenon DEF Store!Start
  <2> QED
      BY <2>3, Zenon DEF Store!Next
<1>23. CASE Crash
  <2>1. Store!Stop
      BY <1>0, <1>5, <1>23, Zenon DEF Crash, PhaseInv, Up
  <2> QED
      BY <2>1, Zenon DEF Store!Next
<1> QED
  <2>1. CASE Body
      BY <2>1, <1>7, <1>12, <1>13, <1>14, Zenon DEF Body
  <2>2. CASE Writer
      BY <2>2, <1>8, <1>9, <1>10, <1>15, <1>16, <1>17, <1>18, <1>19, <1>20, <1>21, Zenon
         DEF Writer, Store!Next
  <2>3. CASE Rollback
      BY <2>3, <1>15, Zenon DEF Store!Next
  <2> QED
      BY <2>1, <2>2, <2>3, <1>6, <1>7, <1>22, <1>23, Zenon DEF Next

\* The initial database maps to the empty store.
LEMMA RefinesInit ==
    ASSUME Init
    PROVE  Store!Init
<1>1. /\ Stored(ldb) = StoredAs(ldb) /\ Stored(Committed) = StoredAs(Committed)
      /\ ldb \in Meta
    BY InitInv, StoredRows, Zenon DEF AllStored, StoreInv, TypeInv
<1>2. Committed = ldb
    BY <1>1, ViewEmpty, Zenon DEF Init, Committed
<1>3. \A i \in Block \cup Key : ldb[i] = None
    BY EmptyMeta, Keys, MetaTypes, Zenon DEF Init
<1>4. StoredAs(ldb) = [i \in Block \cup Key |-> None]
    BY <1>3, Zenon DEF StoredAs
<1>5. Pending = Store!Nothing
  <2>1. /\ remove = {} /\ \A k \in Key : keys[k] = None
        /\ ~\E n \in 1..Len(blocks) : TRUE
      BY EmptyMeta, Keys DEF Init
  <2> QED
      BY <2>1, Zenon DEF Pending, Store!Nothing
<1> QED
    BY <1>1, <1>2, <1>4, <1>5, Zenon DEF Init, Store!Init

\* The database keeps the promise of DurableStore: a transaction, its blocks included, is
\* applied as a whole or not at all, and only a crash or a failed Close goes back, to the
\* state of the last flush.
THEOREM DurableStoreImplemented ==
    ASSUME ~PowerLoss \/ MaxFile = 0
    PROVE  Spec => ImplementsDurableStore
<1>1. Init => Store!Init
    BY RefinesInit, Zenon
<1>2. StoreInv /\ StoreInv' /\ [Next]_vars => [Store!Next]_(Store!vars)
    BY RefinesStep, Zenon
<1> QED
    BY <1>1, <1>2, StoreInvariant, PTL DEF Spec, ImplementsDurableStore, Store!Spec

=============================================================================
