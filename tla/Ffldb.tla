-------------------------------- MODULE Ffldb --------------------------------
(***************************************************************************)
(* The database of package database/ffldb: block data in numbered flat      *)
(* files (blockio.go), metadata in leveldb behind a write cache             *)
(* (dbcache.go), transactions over both (db.go), and the reconciliation of  *)
(* the two when the database is opened (reconcile.go).                      *)
(*                                                                          *)
(* One writer at a time holds writeLock, so its transaction is a sequence   *)
(* of steps; a reader, which takes no lock but closeLock, interleaves with  *)
(* it, and so do crashes.  A block record takes RecordLen cells of a file,  *)
(* written one after the other, so that a crash or a failed write can leave *)
(* a part of one.  Buckets are prefixes of keys and are left out.           *)
(***************************************************************************)
EXTENDS Integers, Sequences

CONSTANTS
    Block,          \* blocks that may be stored
    Key,            \* keys of the metadata other than those of blocks
    Value,          \* the values of those keys
    None,           \* an absent key, file or value
    Keep,           \* see DurableStore
    MaxFileSize,    \* maxBlockFileSize, in cells
    MaxFile,        \* bound on file numbers, more than a run needs
    PowerLoss,      \* whether a crash may lose file data that was not synced
    MaxTx,          \* bound on write transactions
    MaxFaults,      \* bound on failed file and leveldb operations
    MaxCrashes      \* bound on crashes

RecordLen == 2

ASSUME SizeAssumption == MaxFileSize \in Nat /\ MaxFileSize >= RecordLen

(* The metadata: a row with its location for every block, the other keys,   *)
(* and writeLocKeyName, the write cursor as of the last transaction.        *)
WriteLoc == "writeloc"
MetaKey == Block \cup Key \cup {WriteLoc}
FileNum == 0..MaxFile
Location == [file : FileNum, off : 0..MaxFileSize]
Cell == (Block \X (1..RecordLen)) \cup {None}

(* Blocks, the other keys and the write row are different keys, and what marks *)
(* an absent value or an untouched key is none of the values.                  *)
ASSUME StoreAssumption ==
    /\ MaxFile \in Nat
    /\ PowerLoss \in BOOLEAN
    /\ Block \cap Key = {}
    /\ WriteLoc \notin Block \cup Key
    /\ None \notin Block \cup Value
    /\ None \notin Location
    /\ None \notin Seq(Cell)
    /\ Keep \notin Block \cup Value \cup {None}

VARIABLES
    ldb,            \* leveldb: [MetaKey -> value or None]
    cachedKeys,     \* dbCache.cachedKeys: [MetaKey -> value or None]
    cachedRemove,   \* dbCache.cachedRemove
    files,          \* the flat files: [FileNum -> Seq(Cell) or None]
    synced,         \* what of each file was last synced
    cursor,         \* writeCursor.curFileNum and curOffset
    isOpen,         \* writeCursor.curFile.file is not nil
    state,          \* "open", "closing", "closed", "opening" or "corrupt"
    pc,             \* what the holder of writeLock does next
    keys,           \* transaction.pendingKeys: [MetaKey -> value or None]
    remove,         \* transaction.pendingRemove
    blocks,         \* transaction.pendingBlockData
    written,        \* how many of those are in a file
    part,           \* how many cells of the next one are
    rollbackLoc,    \* oldBlkFileNum and oldBlkOffset
    reader,         \* the reader: "none", "begin" or "read"
    snapshot,       \* the reader's view, leveldb's part of it while it begins
    seen,           \* every state committed since the reader began
    txs, faults, crashes

cacheVars == <<cachedKeys, cachedRemove>>
fileVars == <<files, synced, cursor, isOpen>>
txVars == <<keys, remove, blocks, written, part, rollbackLoc>>
readVars == <<reader, snapshot>>
boundVars == <<txs, faults, crashes>>
vars == <<ldb, cacheVars, fileVars, state, pc, txVars, readVars, seen, boundVars>>

-----------------------------------------------------------------------------
(* Metadata *)

Empty == [k \in MetaKey |-> None]

(* dbCacheSnapshot.Get: the cache before leveldb. *)
View(db, ks, rm) ==
    [k \in MetaKey |-> IF k \in rm THEN None ELSE IF ks[k] # None THEN ks[k] ELSE db[k]]

Committed == View(ldb, cachedKeys, cachedRemove)

(* commitTreaps: the puts, then the deletes, in one atomic leveldb           *)
(* transaction.                                                              *)
commitTreaps(db, ks, rm) ==
    LET put == [k \in MetaKey |-> IF ks[k] # None THEN ks[k] ELSE db[k]]
    IN  [k \in MetaKey |-> IF k \in rm THEN None ELSE put[k]]

(* transaction.hasBlock *)
hasBlock(b) ==
    \/ \E i \in 1..Len(blocks) : blocks[i] = b
    \/ View(Committed, keys, remove)[b] # None

-----------------------------------------------------------------------------
(* Files *)

(* WriteAt and Truncate leave zeros, written None, in a hole. *)
CellAt(file, i) == IF i <= Len(file) THEN file[i] ELSE None

WriteAt(file, off, cell) ==
    [i \in 1..(IF off < Len(file) THEN Len(file) ELSE off + 1) |->
        IF i = off + 1 THEN cell ELSE CellAt(file, i)]

Truncate(file, off) == [i \in 1..off |-> CellAt(file, i)]

Before(l, m) == l.file < m.file \/ (l.file = m.file /\ l.off < m.off)

(* scanBlockFiles: the end of the last file of those numbered from 0 on. *)
scanBlockFiles ==
    IF files[0] = None
    THEN [file |-> 0, off |-> 0]
    ELSE LET last == CHOOSE n \in FileNum : /\ \A m \in 0..n : files[m] # None
                                            /\ n + 1 \in FileNum => files[n + 1] = None
         IN  [file |-> last, off |-> Len(files[last])]

(* How much of file n is as it was at the last sync. *)
SyncedLen(n) ==
    CHOOSE m \in 0..Len(synced[n]) :
        /\ m <= Len(files[n])
        /\ \A i \in 1..m : synced[n][i] = files[n][i]
        /\ m < Len(synced[n]) /\ m < Len(files[n]) => synced[n][m + 1] # files[n][m + 1]

(* What a crash may leave of file n: everything, or, when the machine loses *)
(* power, the file as synced or with some of what was written since.        *)
Survivors(n) ==
    IF files[n] = None \/ ~PowerLoss
    THEN {files[n]}
    ELSE {synced[n]} \cup {SubSeq(files[n], 1, m) : m \in SyncedLen(n)..Len(files[n])}

(* The record at a location is the block's: its checksum would match. *)
Readable(b, loc) ==
    /\ files[loc.file] # None
    /\ \A i \in 1..RecordLen : CellAt(files[loc.file], loc.off + i) = <<b, i>>

-----------------------------------------------------------------------------
(* Creation: initDB on an empty directory. *)

Init ==
    /\ ldb = [Empty EXCEPT ![WriteLoc] = [file |-> 0, off |-> 0]]
    /\ cachedKeys = Empty
    /\ cachedRemove = {}
    /\ files = [n \in FileNum |-> None]
    /\ synced = [n \in FileNum |-> <<>>]
    /\ cursor = [file |-> 0, off |-> 0]
    /\ isOpen = FALSE
    /\ state = "open"
    /\ pc = "none"
    /\ keys = Empty
    /\ remove = {}
    /\ blocks = <<>>
    /\ written = 0
    /\ part = 0
    /\ rollbackLoc = cursor
    /\ reader = "none"
    /\ snapshot = Empty
    /\ seen = {}
    /\ txs = 0
    /\ faults = 0
    /\ crashes = 0

-----------------------------------------------------------------------------
(* A transaction: begin, its operations, its end. *)

(* transaction.close, and with it the end of Commit or Rollback. *)
CloseTx ==
    /\ pc' = "none"
    /\ keys' = Empty
    /\ remove' = {}
    /\ blocks' = <<>>
    /\ written' = 0
    /\ part' = 0
    /\ rollbackLoc' = [file |-> 0, off |-> 0]

(* begin(true): the writer holds writeLock, so its snapshot is what is       *)
(* committed until it commits itself.                                        *)
BeginUpdate ==
    /\ state = "open"
    /\ pc = "none"
    /\ txs < MaxTx
    /\ txs' = txs + 1
    /\ pc' = "tx"
    /\ UNCHANGED <<ldb, cacheVars, fileVars, state, txVars, readVars, seen, faults, crashes>>

putKey(k, v) ==
    /\ pc = "tx"
    /\ remove' = remove \ {k}
    /\ keys' = [keys EXCEPT ![k] = v]
    /\ UNCHANGED <<ldb, cacheVars, fileVars, state, pc, blocks, written, part, rollbackLoc,
                   readVars, seen, boundVars>>

deleteKey(k) ==
    /\ pc = "tx"
    /\ keys' = [keys EXCEPT ![k] = None]
    /\ remove' = remove \cup {k}
    /\ UNCHANGED <<ldb, cacheVars, fileVars, state, pc, blocks, written, part, rollbackLoc,
                   readVars, seen, boundVars>>

StoreBlock(b) ==
    /\ pc = "tx"
    /\ ~hasBlock(b)
    /\ blocks' = Append(blocks, b)
    /\ UNCHANGED <<ldb, cacheVars, fileVars, state, pc, keys, remove, written, part,
                   rollbackLoc, readVars, seen, boundVars>>

(* The function passed to Update returns an error. *)
Rollback ==
    /\ pc = "tx"
    /\ CloseTx
    /\ UNCHANGED <<ldb, cacheVars, fileVars, state, readVars, seen, boundVars>>

Commit ==
    /\ pc = "tx"
    /\ pc' = "write"
    /\ rollbackLoc' = cursor
    /\ UNCHANGED <<ldb, cacheVars, fileVars, state, keys, remove, blocks, written, part,
                   readVars, seen, boundVars>>

(* A file or leveldb operation fails. *)
Fault ==
    /\ faults < MaxFaults
    /\ faults' = faults + 1
    /\ UNCHANGED <<txs, crashes>>

-----------------------------------------------------------------------------
(* writePendingAndCommit: writeBlock for every pending block. *)

(* The file the next record goes to. *)
NextFile ==
    IF cursor.off + RecordLen > MaxFileSize
    THEN [file |-> cursor.file + 1, off |-> 0]
    ELSE cursor

(* There is a block to write, and a file number left for it. *)
MoreBlocks == pc = "write" /\ written < Len(blocks) /\ NextFile.file \in FileNum

StillOpen == isOpen /\ NextFile = cursor

openWriteFile ==
    /\ MoreBlocks
    /\ cursor' = NextFile
    /\ isOpen' = TRUE
    /\ files' = IF files[cursor'.file] = None THEN [files EXCEPT ![cursor'.file] = <<>>] ELSE files
    /\ pc' = "record"
    /\ UNCHANGED <<ldb, cacheVars, synced, state, txVars, readVars, seen, boundVars>>

openWriteFileFails ==
    /\ MoreBlocks
    /\ ~StillOpen
    /\ Fault
    /\ cursor' = NextFile
    /\ isOpen' = FALSE
    /\ pc' = "rollback"
    /\ UNCHANGED <<ldb, cacheVars, files, synced, state, txVars, readVars, seen>>

(* Mutant: the row holds the cursor as it is after the write. *)
writeDataLocatesEnd ==
    LET b == blocks[written + 1]
        last == part + 1 = RecordLen
    IN  /\ pc = "record"
        /\ files' = [files EXCEPT ![cursor.file] = WriteAt(@, cursor.off, <<b, part + 1>>)]
        /\ cursor' = [cursor EXCEPT !.off = @ + 1]
        /\ part' = IF last THEN 0 ELSE part + 1
        /\ written' = IF last THEN written + 1 ELSE written
        /\ keys' = IF last THEN [keys EXCEPT ![b] = [file |-> cursor.file, off |-> cursor.off]]
                           ELSE keys
        /\ remove' = IF last THEN remove \ {b} ELSE remove
        /\ pc' = IF last THEN "write" ELSE "record"
        /\ UNCHANGED <<ldb, cacheVars, synced, isOpen, state, blocks, rollbackLoc, readVars,
                       seen, boundVars>>

(* One WriteAt of a record; the last one is followed by the block's row,     *)
(* which locates the start of the record.                                    *)
writeData ==
    LET b == blocks[written + 1]
        last == part + 1 = RecordLen
    IN  /\ pc = "record"
        /\ files' = [files EXCEPT ![cursor.file] = WriteAt(@, cursor.off, <<b, part + 1>>)]
        /\ cursor' = [cursor EXCEPT !.off = @ + 1]
        /\ part' = IF last THEN 0 ELSE part + 1
        /\ written' = IF last THEN written + 1 ELSE written
        /\ keys' = IF last
                   THEN [keys EXCEPT ![b] = [file |-> cursor.file, off |-> cursor.off - part]]
                   ELSE keys
        /\ remove' = IF last THEN remove \ {b} ELSE remove
        /\ pc' = IF last THEN "write" ELSE "record"
        /\ UNCHANGED <<ldb, cacheVars, synced, isOpen, state, blocks, rollbackLoc, readVars,
                       seen, boundVars>>

writeDataFails ==
    /\ pc = "record"
    /\ Fault
    /\ pc' = "rollback"
    /\ UNCHANGED <<ldb, cacheVars, fileVars, state, txVars, readVars, seen>>

AllWritten == pc = "write" /\ written = Len(blocks)

(* The keys with the write row. *)
KeysWithCursor == [keys EXCEPT ![WriteLoc] = cursor]

-----------------------------------------------------------------------------
(* commitTx *)

Witnessed == IF reader = "begin" THEN seen \cup {Committed'} ELSE seen

(* Mutant: a key put again stays in cachedRemove. *)
CommitToCacheStaysRemoved ==
    /\ AllWritten
    /\ cachedKeys' = [k \in MetaKey |-> IF k \in remove THEN None
                                        ELSE IF KeysWithCursor[k] # None THEN KeysWithCursor[k]
                                        ELSE cachedKeys[k]]
    /\ cachedRemove' = cachedRemove \cup remove
    /\ CloseTx
    /\ UNCHANGED <<ldb, fileVars, state, readVars, boundVars>>
    /\ seen' = Witnessed

(* needsFlush says no: the transaction goes to the cache. *)
CommitToCache ==
    /\ AllWritten
    /\ cachedKeys' = [k \in MetaKey |-> IF k \in remove THEN None
                                        ELSE IF KeysWithCursor[k] # None THEN KeysWithCursor[k]
                                        ELSE cachedKeys[k]]
    /\ cachedRemove' = (cachedRemove \ {k \in MetaKey : KeysWithCursor[k] # None}) \cup remove
    /\ CloseTx
    /\ UNCHANGED <<ldb, fileVars, state, readVars, boundVars>>
    /\ seen' = Witnessed

(* needsFlush says yes: flush, then the transaction goes to leveldb. *)
CommitThrough ==
    /\ AllWritten
    /\ keys' = KeysWithCursor
    /\ pc' = "sync"
    /\ UNCHANGED <<ldb, cacheVars, fileVars, state, remove, blocks, written, part, rollbackLoc,
                   readVars, seen, boundVars>>

CommitDirect ==
    /\ pc = "direct"
    /\ ldb' = commitTreaps(ldb, keys, remove)
    /\ CloseTx
    /\ UNCHANGED <<cacheVars, fileVars, state, readVars, boundVars>>
    /\ seen' = Witnessed

CommitDirectFails ==
    /\ pc = "direct"
    /\ Fault
    /\ CloseTx
    /\ UNCHANGED <<ldb, cacheVars, fileVars, state, readVars, seen>>

-----------------------------------------------------------------------------
(* flush, called by commitTx and by Close *)

(* What follows a flush: the transaction's own write, or the end of Close,   *)
(* which drops the cache and closes the files whether or not it failed.      *)
Flushed ==
    \/ /\ state = "open"
       /\ pc' = "direct"
       /\ UNCHANGED <<state, isOpen, cursor, txVars>>
    \/ /\ state = "closing"
       /\ state' = "closed"
       /\ isOpen' = FALSE
       /\ cursor' = [file |-> 0, off |-> 0]
       /\ CloseTx

(* Mutant: the metadata is written without syncing the blocks. *)
syncBlocksSkipped ==
    /\ pc = "sync"
    /\ synced' = synced
    /\ IF cachedKeys = Empty /\ cachedRemove = {}
       THEN Flushed
       ELSE /\ pc' = "flush"
            /\ UNCHANGED <<state, isOpen, cursor, txVars>>
    /\ UNCHANGED <<ldb, cacheVars, files, readVars, seen, boundVars>>

syncBlocks ==
    /\ pc = "sync"
    /\ synced' = IF isOpen THEN [synced EXCEPT ![cursor.file] = files[cursor.file]] ELSE synced
    /\ IF cachedKeys = Empty /\ cachedRemove = {}
       THEN Flushed
       ELSE /\ pc' = "flush"
            /\ UNCHANGED <<state, isOpen, cursor, txVars>>
    /\ UNCHANGED <<ldb, cacheVars, files, readVars, seen, boundVars>>

FlushTreaps ==
    /\ pc = "flush"
    /\ ldb' = commitTreaps(ldb, cachedKeys, cachedRemove)
    /\ pc' = "clear"
    /\ UNCHANGED <<cacheVars, fileVars, state, txVars, readVars, seen, boundVars>>

ClearCache ==
    /\ pc = "clear"
    /\ cachedKeys' = Empty
    /\ cachedRemove' = {}
    /\ Flushed
    /\ UNCHANGED <<ldb, files, synced, readVars, seen, boundVars>>

(* The sync or the leveldb transaction fails: the error is returned. *)
FlushFails ==
    /\ \/ pc = "sync" /\ isOpen
       \/ pc = "flush"
    /\ Fault
    /\ IF state = "closing"
       THEN /\ cachedKeys' = Empty
            /\ cachedRemove' = {}
            /\ Flushed
       ELSE /\ CloseTx
            /\ UNCHANGED <<cacheVars, state, isOpen, cursor>>
    /\ UNCHANGED <<ldb, files, synced, readVars, seen>>

-----------------------------------------------------------------------------
(* handleRollback, called by writePendingAndCommit and by reconcileDB *)

(* Its deferred part, and the return to its caller. *)
RolledBack ==
    /\ cursor' = rollbackLoc
    /\ CloseTx
    /\ state' = "open"

RollbackNothing ==
    /\ pc = "rollback"
    /\ cursor = rollbackLoc
    /\ RolledBack
    /\ UNCHANGED <<ldb, cacheVars, files, synced, isOpen, readVars, seen, boundVars>>

RollbackStarts ==
    /\ pc = "rollback"
    /\ cursor # rollbackLoc
    /\ isOpen' = (isOpen /\ cursor.file = rollbackLoc.file)
    /\ pc' = "undo"
    /\ UNCHANGED <<ldb, cacheVars, files, synced, cursor, state, txVars, readVars, seen, boundVars>>

RollbackDelete ==
    /\ pc = "undo"
    /\ cursor.file > rollbackLoc.file
    /\ files[cursor.file] # None
    /\ files' = [files EXCEPT ![cursor.file] = None]
    /\ synced' = [synced EXCEPT ![cursor.file] = <<>>]
    /\ cursor' = [cursor EXCEPT !.file = @ - 1]
    /\ UNCHANGED <<ldb, cacheVars, isOpen, state, pc, txVars, readVars, seen, boundVars>>

(* Mutant: the deletion is tried again until it succeeds. *)
RollbackDeleteRetries ==
    /\ pc = "undo"
    /\ cursor.file > rollbackLoc.file
    /\ files[cursor.file] # None
    /\ Fault
    /\ UNCHANGED <<ldb, cacheVars, fileVars, state, pc, txVars, readVars, seen>>

(* A file that was never created cannot be deleted. *)
RollbackDeleteFails ==
    /\ pc = "undo"
    /\ cursor.file > rollbackLoc.file
    /\ IF files[cursor.file] = None THEN UNCHANGED boundVars ELSE Fault
    /\ RolledBack
    /\ UNCHANGED <<ldb, cacheVars, files, synced, isOpen, readVars, seen>>

(* Mutant: the file is emptied. *)
RollbackTruncateAll ==
    /\ pc = "undo"
    /\ cursor.file = rollbackLoc.file
    /\ files' = [files EXCEPT ![cursor.file] =
                    Truncate(IF @ = None THEN <<>> ELSE @, 0)]
    /\ isOpen' = TRUE
    /\ pc' = "undosync"
    /\ UNCHANGED <<ldb, cacheVars, synced, cursor, state, txVars, readVars, seen, boundVars>>

RollbackTruncate ==
    /\ pc = "undo"
    /\ cursor.file = rollbackLoc.file
    /\ files' = [files EXCEPT ![cursor.file] =
                    Truncate(IF @ = None THEN <<>> ELSE @, rollbackLoc.off)]
    /\ isOpen' = TRUE
    /\ pc' = "undosync"
    /\ UNCHANGED <<ldb, cacheVars, synced, cursor, state, txVars, readVars, seen, boundVars>>

(* The file cannot be opened, or is opened and not truncated. *)
RollbackTruncateFails ==
    /\ pc = "undo"
    /\ cursor.file = rollbackLoc.file
    /\ Fault
    /\ isOpen' \in {isOpen, TRUE}
    /\ files' = IF isOpen' /\ files[cursor.file] = None
                THEN [files EXCEPT ![cursor.file] = <<>>]
                ELSE files
    /\ RolledBack
    /\ UNCHANGED <<ldb, cacheVars, synced, readVars, seen>>

RollbackSync ==
    /\ pc = "undosync"
    /\ synced' = [synced EXCEPT ![cursor.file] = files[cursor.file]]
    /\ RolledBack
    /\ UNCHANGED <<ldb, cacheVars, files, isOpen, readVars, seen, boundVars>>

RollbackSyncFails ==
    /\ pc = "undosync"
    /\ Fault
    /\ RolledBack
    /\ UNCHANGED <<ldb, cacheVars, files, synced, isOpen, readVars, seen>>

-----------------------------------------------------------------------------
(* Close, crash, open *)

(* closeLock waits for every transaction, the reader's included. *)
Close ==
    /\ state = "open"
    /\ pc = "none"
    /\ reader = "none"
    /\ state' = "closing"
    /\ pc' = "sync"
    /\ UNCHANGED <<ldb, cacheVars, fileVars, txVars, readVars, seen, boundVars>>

(* openDB: scanBlockFiles and reconcileDB. *)
Open ==
    /\ state = "closed"
    /\ cursor' = scanBlockFiles
    /\ IF Before(ldb[WriteLoc], cursor')
       THEN /\ state' = "opening"
            /\ pc' = "rollback"
            /\ rollbackLoc' = ldb[WriteLoc]
       ELSE /\ state' = IF Before(cursor', ldb[WriteLoc]) THEN "corrupt" ELSE "open"
            /\ UNCHANGED <<pc, rollbackLoc>>
    /\ UNCHANGED <<ldb, cacheVars, files, synced, isOpen, keys, remove, blocks, written, part,
                   readVars, seen, boundVars>>

(* The process dies, or the machine does: memory is lost. *)
Crash ==
    /\ state \notin {"closed", "corrupt"}
    /\ crashes < MaxCrashes
    /\ crashes' = crashes + 1
    /\ files' \in {f \in [FileNum -> UNION {Survivors(n) : n \in FileNum}] :
                      \A n \in FileNum : f[n] \in Survivors(n)}
    /\ synced' = [n \in FileNum |-> IF PowerLoss /\ files'[n] # None THEN files'[n] ELSE synced[n]]
    /\ state' = "closed"
    /\ cachedKeys' = Empty
    /\ cachedRemove' = {}
    /\ cursor' = [file |-> 0, off |-> 0]
    /\ isOpen' = FALSE
    /\ CloseTx
    /\ reader' = "none"
    /\ snapshot' = Empty
    /\ seen' = {}
    /\ UNCHANGED <<ldb, txs, faults>>

-----------------------------------------------------------------------------
(* A reader: begin(false), whose Snapshot takes leveldb's snapshot first and *)
(* the roots of the cache after it, and the end of the transaction.          *)

ReadBegin ==
    /\ state = "open"
    /\ reader = "none"
    /\ reader' = "begin"
    /\ snapshot' = ldb
    /\ seen' = {Committed}
    /\ UNCHANGED <<ldb, cacheVars, fileVars, state, pc, txVars, boundVars>>

ReadCache ==
    /\ reader = "begin"
    /\ reader' = "read"
    /\ snapshot' = View(snapshot, cachedKeys, cachedRemove)
    /\ UNCHANGED <<ldb, cacheVars, fileVars, state, pc, txVars, seen, boundVars>>

ReadEnd ==
    /\ reader = "read"
    /\ reader' = "none"
    /\ snapshot' = Empty
    /\ seen' = {}
    /\ UNCHANGED <<ldb, cacheVars, fileVars, state, pc, txVars, boundVars>>

Body ==
    \/ BeginUpdate
    \/ \E k \in Key, v \in Value : putKey(k, v)
    \/ \E k \in Key : deleteKey(k)
    \/ \E b \in Block : StoreBlock(b)

(* The steps of Commit, Rollback and Close. *)
Writer ==
    \/ openWriteFile \/ openWriteFileFails
    \/ writeData \/ writeDataFails
    \/ CommitToCache \/ CommitThrough
    \/ CommitDirect \/ CommitDirectFails
    \/ syncBlocks \/ FlushTreaps \/ ClearCache \/ FlushFails
    \/ RollbackNothing \/ RollbackStarts
    \/ RollbackDelete \/ RollbackDeleteFails
    \/ RollbackTruncate \/ RollbackTruncateFails
    \/ RollbackSync \/ RollbackSyncFails

Next ==
    \/ Body
    \/ Rollback
    \/ Commit
    \/ Writer
    \/ Close \/ Open \/ Crash
    \/ ReadBegin \/ ReadCache \/ ReadEnd

Spec == Init /\ [][Next]_vars

(* A goroutine inside Commit or Close waits for nobody. *)
FairSpec == Spec /\ WF_vars(Writer)

-----------------------------------------------------------------------------
(* Properties *)

IsMeta(m) ==
    /\ DOMAIN m = MetaKey
    /\ \A k \in Key : m[k] \in Value \cup {None}
    /\ \A k \in MetaKey \ Key : m[k] \in Location \cup {None}

IsFile(f) == f = None \/ (Len(f) <= MaxFileSize /\ \A i \in 1..Len(f) : f[i] \in Cell)

(* Every variable has its type.  The bound on offsets is writeBlock's: no    *)
(* file grows past maxBlockFileSize and no location lies past it.            *)
TypeOK ==
    /\ IsMeta(ldb) /\ IsMeta(cachedKeys) /\ IsMeta(keys) /\ IsMeta(snapshot)
    /\ cachedRemove \subseteq Key /\ remove \subseteq Key
    /\ \A n \in FileNum : IsFile(files[n]) /\ IsFile(synced[n])
    /\ cursor \in Location
    /\ rollbackLoc \in Location
    /\ isOpen \in BOOLEAN
    /\ state \in {"open", "closing", "closed", "opening", "corrupt"}
    /\ pc \in {"none", "tx", "write", "record", "sync", "flush", "clear", "direct", "rollback",
               "undo", "undosync"}
    /\ written \in 0..Len(blocks)
    /\ part \in 0..(RecordLen - 1)
    /\ reader \in {"none", "begin", "read"}

(* Every row of a block, in leveldb, in the cache or in a reader's snapshot, *)
(* locates a whole record of that block: rollbacks, failed writes, crashes   *)
(* and the files that writeBlock moves on from never take it away.           *)
BlocksReadable ==
    \A b \in Block, m \in {ldb, Committed} \cup (IF reader = "read" THEN {snapshot} ELSE {}) :
        m[b] # None => Readable(b, m[b])

(* reconcileDB never reports corruption: whatever a crash interrupts, the    *)
(* block files reach at least to the write cursor in the metadata.           *)
NeverCorrupt == state # "corrupt"

(* What was stored can be read, whatever a rollback, a failure or a crash    *)
(* left behind: no row is without its record, and openDB does not refuse the *)
(* files.                                                                    *)
StoreIntact == BlocksReadable /\ NeverCorrupt

(* Every Commit, Rollback and Close that started comes to its end, also when *)
(* handleRollback meets files it cannot delete, open or truncate.            *)
TransactionEnds == pc \notin {"none", "tx"} ~> pc = "none"

(* A Snapshot is the state of the database "at a particular point in time"   *)
(* while the reader began: dbCache.Snapshot takes leveldb's snapshot before, *)
(* and not together with, the roots of the cache.                            *)
SnapshotAtOnePoint == reader = "read" => snapshot \in seen

(* The metadata on disk never "contains information about a block which       *)
(* actually hasn't been written yet in unexpected shutdown scenarios": flush  *)
(* syncs the current file for that, and writeBlock closes the earlier ones    *)
(* without a sync.                                                            *)
FlushedBlocksWritten == \A b \in Block : ldb[b] # None => Readable(b, ldb[b])

-----------------------------------------------------------------------------
(* What the database promises *)

Stored(db) ==
    [i \in Block \cup Key |->
        IF i \in Key \/ db[i] = None THEN db[i] ELSE IF Readable(i, db[i]) THEN i ELSE "unreadable"]

Pending ==
    [i \in Block \cup Key |->
        IF \E n \in 1..Len(blocks) : blocks[n] = i THEN i
        ELSE IF i \in remove THEN None
        ELSE IF i \in Key /\ keys[i] # None THEN keys[i]
        ELSE Keep]

Store == INSTANCE DurableStore WITH
            Item <- Block \cup Key,
            Datum <- Block \cup Value,
            committed <- Stored(Committed),
            durable <- Stored(ldb),
            pending <- Pending,
            up <- state \notin {"closed", "corrupt"}

(* A transaction of ffldb, its blocks included, is applied as a whole or not *)
(* at all, and only a crash or a failed Close goes back to the last flush.   *)
ImplementsDurableStore == Store!Spec
=============================================================================
