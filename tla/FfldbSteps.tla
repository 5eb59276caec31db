----------------------------- MODULE FfldbSteps ------------------------------
(***************************************************************************)
(* What the theorems about Ffldb rest on: the inductive invariant StoreInv *)
(* and what it is made of; facts about locations, metadata and files; and  *)
(* that every action keeps the types and the phases, what the files hold   *)
(* up to the cursor, and what leveldb, the cache and a flush have of it.   *)
(***************************************************************************)
EXTENDS Ffldb, TLAPS, WellFoundedInduction

(***************************************************************************)
(* The inductive invariant.                                                *)
(***************************************************************************)
Up == state \in {"open", "closing", "opening"}
RollingBack == pc \in {"rollback", "undo", "undosync"}
Writing == pc \in {"write", "record"}
Flushing == pc \in {"sync", "flush", "clear", "direct"}

\* The first location does not lie after the second.
AtMost(l, m) == ~Before(m, l)

\* The record at the first location ends at or before the second.
EndsBy(l, m) == l.file < m.file \/ (l.file = m.file /\ l.off + RecordLen <= m.off)

\* The files up to a location exist and the last of them is that long; the
\* beginning needs no file.
Reaches(fs, l) ==
    \/ l.file = 0 /\ l.off = 0
    \/ (\A n \in 0..l.file : fs[n] # None) /\ l.off <= Len(fs[l.file])

\* Readable, of any files.
Holds(fs, b, l) ==
    fs[l.file] # None /\ \A i \in 1..RecordLen : CellAt(fs[l.file], l.off + i) = <<b, i>>

\* Every row of a block locates its record, and the record ends by the location.
RowsBy(fs, m, l) == \A b \in Block : m[b] # None => Holds(fs, b, m[b]) /\ EndsBy(m[b], l)

\* What was synced of a file agrees with the file up to a location.
SyncedTo(ss, fs, l) ==
    /\ l.off <= Len(ss[l.file])
    /\ \A i \in 1..l.off : CellAt(ss[l.file], i) = CellAt(fs[l.file], i)

\* Files that are changed behind a location only.
KeepsTo(fs, gs, l) ==
    /\ \A n \in FileNum : n < l.file => gs[n] = fs[n]
    /\ fs[l.file] # None =>
          /\ gs[l.file] # None
          /\ l.off <= Len(fs[l.file]) => l.off <= Len(gs[l.file])
          /\ \A i \in 1..l.off : CellAt(gs[l.file], i) = CellAt(fs[l.file], i)

\* Where a rollback would return to: no record that a row locates lies after it.
Kept == IF Writing \/ RollingBack THEN rollbackLoc ELSE cursor

\* Where the record that is being written starts.
RecordStart == [file |-> cursor.file, off |-> cursor.off - part]

\* The files and what was synced of them, none longer than the limit.
Files == [FileNum -> Seq(Cell) \cup {None}]
FilesOk(fs) == fs \in Files /\ \A n \in FileNum : fs[n] # None => Len(fs[n]) <= MaxFileSize
SyncedOk(ss) == ss \in [FileNum -> Seq(Cell)] /\ \A n \in FileNum : Len(ss[n]) <= MaxFileSize

\* What the metadata may hold.
Meta == {m \in [MetaKey -> Value \cup Location \cup {None}] : IsMeta(m)}

TypeInv ==
    /\ ldb \in Meta /\ cachedKeys \in Meta /\ keys \in Meta /\ snapshot \in Meta
    /\ cachedRemove \subseteq Key /\ remove \subseteq Key
    /\ FilesOk(files) /\ SyncedOk(synced)
    /\ cursor \in Location /\ rollbackLoc \in Location
    /\ isOpen \in BOOLEAN
    /\ blocks \in Seq(Block) /\ written \in Nat /\ part \in 0..(RecordLen - 1)

\* Which steps the holder of writeLock may be at, and where a reader may be.
PhaseInv ==
    /\ state \in {"open", "closing", "closed", "opening"}
    /\ state = "open" => pc \in {"none", "tx"} \/ Writing \/ RollingBack \/ Flushing
    /\ state = "closing" => pc \in {"sync", "flush", "clear"}
    /\ state = "opening" => RollingBack
    /\ state = "closed" => pc = "none"
    /\ reader \in {"none", "begin", "read"}
    /\ reader # "none" => state = "open"

\* leveldb: the files reach to its write cursor, and the cursor is past every
\* record that leveldb locates.
LdbInv ==
    /\ ldb[WriteLoc] # None
    /\ Reaches(files, ldb[WriteLoc])
    /\ RowsBy(files, ldb, ldb[WriteLoc])

\* The cache, while the database is up: it is ahead of leveldb and not ahead of
\* what a rollback returns to.
CacheInv ==
    /\ Reaches(files, Kept)
    /\ AtMost(ldb[WriteLoc], Kept)
    /\ IF cachedKeys[WriteLoc] = None
       THEN \A b \in Block : cachedKeys[b] = None
       ELSE /\ Reaches(files, cachedKeys[WriteLoc])
            /\ AtMost(ldb[WriteLoc], cachedKeys[WriteLoc])
            /\ AtMost(cachedKeys[WriteLoc], Kept)
            /\ RowsBy(files, cachedKeys, cachedKeys[WriteLoc])
    /\ reader # "none" => RowsBy(files, snapshot, Kept)

\* A flush in progress, or done: what is left in the cache is in leveldb already.
FlushInv ==
    /\ pc = "direct" \/ state = "closed" => cachedKeys = Empty /\ cachedRemove = {}
    /\ pc = "clear" => \A k \in MetaKey :
          /\ k \in cachedRemove => ldb[k] = None
          /\ k \notin cachedRemove /\ cachedKeys[k] # None => ldb[k] = cachedKeys[k]

\* The transaction: its rows are those of the blocks written so far.
RowsWritten == \A b \in Block : keys[b] # None <=> \E i \in 1..written : blocks[i] = b

TxInv ==
    /\ pc \in {"none", "tx"} => written = 0 /\ part = 0 /\ \A b \in Block : keys[b] = None
    /\ Writing \/ (Flushing /\ state = "open") =>
          /\ RowsWritten /\ RowsBy(files, keys, RecordStart)
          /\ written <= Len(blocks)
          /\ pc # "record" => part = 0
    /\ Writing => /\ Reaches(files, cursor)
                  /\ RecordStart \in Location /\ AtMost(rollbackLoc, RecordStart)
    /\ Flushing /\ state = "open" => keys[WriteLoc] = cursor /\ written = Len(blocks)
    /\ pc = "record" =>
          /\ isOpen
          /\ written < Len(blocks)
          /\ RecordStart.off + RecordLen <= MaxFileSize
          /\ \A i \in 1..part : CellAt(files[cursor.file], RecordStart.off + i)
                                    = <<blocks[written + 1], i>>

\* The file that is open for writing is the one at the cursor.
OpenInv ==
    /\ isOpen => Up /\ files[cursor.file] # None
    /\ pc = "undo" /\ isOpen => cursor.file = rollbackLoc.file
    /\ pc = "undosync" => isOpen /\ cursor.file = rollbackLoc.file

\* With one file: everything up to leveldb's write cursor is synced, everything up
\* to the cursor is when the file is not open or the metadata is about to be written.
SyncInv ==
    PowerLoss =>
       /\ SyncedTo(synced, files, ldb[WriteLoc])
       /\ Up /\ ~isOpen => SyncedTo(synced, files, IF RollingBack THEN rollbackLoc ELSE cursor)
       /\ pc \in {"flush", "clear", "direct"} => SyncedTo(synced, files, cursor)

StoreInv ==
    /\ TypeInv /\ PhaseInv /\ LdbInv
    /\ Up => CacheInv
    /\ FlushInv /\ TxInv /\ OpenInv /\ SyncInv

(***************************************************************************)
(* Constants, locations and metadata.                                      *)
(***************************************************************************)
\* The facts about the sizes.
LEMMA Sizes ==
    /\ MaxFileSize \in Nat /\ MaxFileSize >= 2 /\ MaxFile \in Nat
    /\ RecordLen = 2 /\ FileNum = 0..MaxFile
BY SizeAssumption, StoreAssumption, Zenon DEF RecordLen, FileNum

\* A location is a file number and an offset, and is given by them.
LEMMA Locations ==
    /\ \A l \in Location : l.file \in 0..MaxFile /\ l.off \in 0..MaxFileSize
    /\ \A l \in Location : l = [file |-> l.file, off |-> l.off]
    /\ \A f \in 0..MaxFile, o \in 0..MaxFileSize : [file |-> f, off |-> o] \in Location
    /\ [file |-> 0, off |-> 0] \in Location
    /\ None \notin Location
BY Sizes, StoreAssumption DEF Location

\* The keys of the metadata and what is at them.
LEMMA Keys ==
    /\ WriteLoc \in MetaKey /\ WriteLoc \notin Key
    /\ \A b \in Block : b \in MetaKey /\ b \notin Key /\ b # WriteLoc
    /\ \A k \in Key : k \in MetaKey /\ k # WriteLoc
    /\ \A k \in MetaKey : k \in Block \/ k \in Key \/ k = WriteLoc
BY StoreAssumption, Zenon DEF MetaKey

LEMMA MetaTypes ==
    /\ \A m \in Meta : /\ m \in [MetaKey -> Value \cup Location \cup {None}]
                       /\ m[WriteLoc] \in Location \cup {None}
                       /\ \A b \in Block : m[b] \in Location \cup {None}
                       /\ \A k \in Key : m[k] \in Value \cup {None}
    /\ \A m \in [MetaKey -> Value \cup Location \cup {None}] :
          /\ m[WriteLoc] \in Location \cup {None}
          /\ \A b \in Block : m[b] \in Location \cup {None}
          /\ \A k \in Key : m[k] \in Value \cup {None}
          => m \in Meta
<1>1. \A k \in MetaKey \ Key : k \in Block \/ k = WriteLoc
    BY Keys, Zenon
<1>2. \A b \in Block : b \in MetaKey \ Key
    BY Keys, Zenon
<1>3. WriteLoc \in MetaKey \ Key
    BY Keys, Zenon
<1> QED
    BY <1>1, <1>2, <1>3, Zenon DEF Meta, IsMeta

\* Nothing is stored in Empty.
LEMMA EmptyMeta ==
    Empty \in Meta /\ \A k \in MetaKey : Empty[k] = None
<1>1. \A k \in MetaKey : Empty[k] = None
    BY Zenon DEF Empty
<1>2. Empty \in [MetaKey -> Value \cup Location \cup {None}]
    BY Zenon DEF Empty
<1> QED
    BY <1>1, <1>2, MetaTypes, Keys, Zenon

\* Setting one key, to a value of its kind, leaves metadata metadata.
LEMMA SetRow ==
    ASSUME NEW m \in Meta, NEW k \in MetaKey \ Key, NEW l \in Location
    PROVE  [m EXCEPT ![k] = l] \in Meta
BY MetaTypes, Keys, Zenon

LEMMA SetKey ==
    ASSUME NEW m \in Meta, NEW k \in Key, NEW v \in Value \cup {None}
    PROVE  [m EXCEPT ![k] = v] \in Meta
BY MetaTypes, Keys, Zenon

\* So do reading through a cache and flushing one, which are the same thing.
LEMMA ViewMeta ==
    ASSUME NEW db \in Meta, NEW ks \in Meta, NEW rm \in SUBSET Key
    PROVE  /\ View(db, ks, rm) \in Meta
           /\ commitTreaps(db, ks, rm) = View(db, ks, rm)
           /\ \A k \in MetaKey : View(db, ks, rm)[k] =
                 IF k \in rm THEN None ELSE IF ks[k] # None THEN ks[k] ELSE db[k]
<1>1. \A k \in MetaKey : View(db, ks, rm)[k] =
         IF k \in rm THEN None ELSE IF ks[k] # None THEN ks[k] ELSE db[k]
    BY Zenon DEF View
<1>2. View(db, ks, rm) \in [MetaKey -> Value \cup Location \cup {None}]
    BY MetaTypes, Zenon DEF View
<1>3. View(db, ks, rm) \in Meta
    BY <1>1, <1>2, MetaTypes, Keys, Zenon
<1>4. commitTreaps(db, ks, rm) = View(db, ks, rm)
    BY Zenon DEF View, commitTreaps
<1> QED
    BY <1>1, <1>3, <1>4, Zenon

\* The order of locations.
LEMMA Order ==
    /\ \A l \in Location : AtMost(l, l)
    /\ \A l, m, n \in Location : AtMost(l, m) /\ AtMost(m, n) => AtMost(l, n)
    /\ \A l, m \in Location : AtMost(l, m) /\ AtMost(m, l) => l = m
    /\ \A l, m, n \in Location : EndsBy(l, m) /\ AtMost(m, n) => EndsBy(l, n)
BY Locations, Sizes DEF AtMost, Before, EndsBy

(***************************************************************************)
(* Files.                                                                  *)
(***************************************************************************)
\* None is no file's contents, and a cell past the end is empty.
LEMMA FileTypes ==
    /\ None \notin Seq(Cell) /\ <<>> \in Seq(Cell) /\ Len(<<>>) = 0 /\ None \in Cell
    /\ \A f \in Seq(Cell), i \in Nat \ {0} : CellAt(f, i) \in Cell
    /\ \A fs \in Files, n \in FileNum : fs[n] # None => fs[n] \in Seq(Cell)
    /\ \A b \in Block, i \in 1..RecordLen : <<b, i>> \in Cell
BY StoreAssumption DEF Files, CellAt, Cell

\* What WriteAt leaves: one cell written, nothing cut off.
LEMMA WriteAtCells ==
    ASSUME NEW f \in Seq(Cell), NEW off \in Nat, NEW c \in Cell, off <= Len(f)
    PROVE  /\ WriteAt(f, off, c) \in Seq(Cell)
           /\ Len(WriteAt(f, off, c)) = IF off < Len(f) THEN Len(f) ELSE off + 1
           /\ CellAt(WriteAt(f, off, c), off + 1) = c
           /\ \A i \in Nat \ {0} : i # off + 1 => CellAt(WriteAt(f, off, c), i) = CellAt(f, i)
<1> DEFINE n == IF off < Len(f) THEN Len(f) ELSE off + 1
<1>1. n \in Nat /\ n >= Len(f) /\ n >= off + 1
    OBVIOUS
<1>2. WriteAt(f, off, c) = [i \in 1..n |-> IF i = off + 1 THEN c ELSE CellAt(f, i)]
    BY Zenon DEF WriteAt
<1>3. \A i \in 1..n : CellAt(f, i) \in Cell
    BY <1>1, FileTypes
<1> HIDE DEF n
<1>4. WriteAt(f, off, c) \in Seq(Cell) /\ Len(WriteAt(f, off, c)) = n
    BY <1>1, <1>2, <1>3
<1>5. \A i \in 1..n : WriteAt(f, off, c)[i] = IF i = off + 1 THEN c ELSE CellAt(f, i)
    BY <1>2, Zenon
<1>6. ASSUME NEW i \in Nat \ {0}, i # off + 1
      PROVE  CellAt(WriteAt(f, off, c), i) = CellAt(f, i)
  <2>1. CASE i <= n
      BY <2>1, <1>1, <1>4, <1>5, <1>6 DEF CellAt
  <2>2. CASE ~(i <= n)
      BY <2>2, <1>1, <1>4 DEF CellAt
  <2> QED
      BY <2>1, <2>2, Zenon
<1>7. CellAt(WriteAt(f, off, c), off + 1) = c
    BY <1>1, <1>4, <1>5 DEF CellAt
<1> QED
    BY <1>4, <1>6, <1>7, Zenon DEF n

\* What Truncate leaves: the cells before the offset.
LEMMA TruncateCells ==
    ASSUME NEW f \in Seq(Cell), NEW off \in Nat
    PROVE  /\ Truncate(f, off) \in Seq(Cell) /\ Len(Truncate(f, off)) = off
           /\ \A i \in 1..off : CellAt(Truncate(f, off), i) = CellAt(f, i)
<1>1. \A i \in 1..off : CellAt(f, i) \in Cell
    BY FileTypes
<1>2. Truncate(f, off) \in Seq(Cell) /\ Len(Truncate(f, off)) = off
    BY <1>1 DEF Truncate
<1>3. \A i \in 1..off : Truncate(f, off)[i] = CellAt(f, i)
    BY Zenon DEF Truncate
<1> QED
    BY <1>2, <1>3 DEF CellAt

\* What a crash may leave of a file: a prefix.
LEMMA PrefixCells ==
    ASSUME NEW f \in Seq(Cell), NEW m \in 0..Len(f)
    PROVE  /\ SubSeq(f, 1, m) \in Seq(Cell) /\ Len(SubSeq(f, 1, m)) = m
           /\ \A i \in 1..m : CellAt(SubSeq(f, 1, m), i) = CellAt(f, i)
<1>1. SubSeq(f, 1, m) \in Seq(Cell) /\ Len(SubSeq(f, 1, m)) = m
    OBVIOUS
<1>2. \A i \in 1..m : SubSeq(f, 1, m)[i] = f[i]
    OBVIOUS
<1> QED
    BY <1>1, <1>2 DEF CellAt

\* What does not lie behind the location where the files change stays as it is.
LEMMA KeepsReach ==
    ASSUME NEW fs, NEW gs \in Files, NEW l \in Location, NEW m \in Location,
           KeepsTo(fs, gs, l), Reaches(fs, l), Reaches(fs, m), AtMost(m, l)
    PROVE  Reaches(gs, m)
<1> SUFFICES ASSUME ~(m.file = 0 /\ m.off = 0)
             PROVE  (\A n \in 0..m.file : gs[n] # None) /\ m.off <= Len(gs[m.file])
    BY Zenon DEF Reaches
<1>1. /\ l.file \in 0..MaxFile /\ m.file \in 0..MaxFile /\ m.off \in Nat /\ l.off \in Nat
      /\ m.file < l.file \/ (m.file = l.file /\ m.off <= l.off)
    BY Locations, Sizes DEF AtMost, Before
<1>2. (\A n \in 0..m.file : fs[n] # None) /\ m.off <= Len(fs[m.file])
    BY <1>1, Zenon DEF Reaches
<1>3. CASE m.file < l.file
    BY <1>1, <1>2, <1>3, Sizes DEF KeepsTo
<1>4. CASE m.file = l.file /\ m.off <= l.off
  <2>1. l.off <= Len(fs[l.file])
      BY <1>1, <1>4 DEF Reaches
  <2>2. \A n \in 0..m.file : gs[n] # None
      BY <1>1, <1>2, <1>4, Sizes DEF KeepsTo
  <2>3. l.off <= Len(gs[l.file]) /\ gs[l.file] \in Seq(Cell)
      BY <2>1, <2>2, <1>1, <1>2, <1>4, FileTypes, Sizes DEF KeepsTo
  <2> QED
      BY <2>2, <2>3, <1>1, <1>4
<1> QED
    BY <1>1, <1>3, <1>4, Zenon

LEMMA KeepsHolds ==
    ASSUME NEW fs, NEW gs, NEW l \in Location, NEW b, NEW m \in Location,
           KeepsTo(fs, gs, l), Holds(fs, b, m), EndsBy(m, l)
    PROVE  Holds(gs, b, m)
BY Locations, Sizes, SMTT(30) DEF KeepsTo, Holds, EndsBy

LEMMA KeepsRows ==
    ASSUME NEW fs, NEW gs, NEW l \in Location, NEW n \in Location, NEW m \in Meta,
           KeepsTo(fs, gs, l), RowsBy(fs, m, n), AtMost(n, l)
    PROVE  RowsBy(gs, m, n)
<1> SUFFICES ASSUME NEW b \in Block, m[b] # None
             PROVE  Holds(gs, b, m[b]) /\ EndsBy(m[b], n)
    BY Zenon DEF RowsBy
<1>1. m[b] \in Location
    BY MetaTypes, Zenon
<1>2. Holds(fs, b, m[b]) /\ EndsBy(m[b], n)
    BY Zenon DEF RowsBy
<1>3. EndsBy(m[b], l)
    BY <1>1, <1>2, Order, Zenon
<1> QED
    BY <1>1, <1>2, <1>3, KeepsHolds, Zenon

LEMMA KeepsSame ==
    ASSUME NEW fs, NEW l
    PROVE  KeepsTo(fs, fs, l)
BY Zenon DEF KeepsTo

LEMMA RowsLater ==
    ASSUME NEW fs, NEW m \in Meta, NEW l \in Location, NEW n \in Location,
           RowsBy(fs, m, l), AtMost(l, n)
    PROVE  RowsBy(fs, m, n)
BY Order, MetaTypes, Zenon DEF RowsBy

LEMMA NoRows ==
    ASSUME NEW fs, NEW m, NEW l, \A b \in Block : m[b] = None
    PROVE  RowsBy(fs, m, l)
BY Zenon DEF RowsBy

\* The rows one sees through a cache are rows of the cache or of what is behind it.
LEMMA ViewRows ==
    ASSUME NEW fs, NEW db \in Meta, NEW ks \in Meta, NEW rm \in SUBSET Key, NEW l,
           RowsBy(fs, db, l), RowsBy(fs, ks, l)
    PROVE  RowsBy(fs, View(db, ks, rm), l)
<1> SUFFICES ASSUME NEW b \in Block, View(db, ks, rm)[b] # None
             PROVE  Holds(fs, b, View(db, ks, rm)[b]) /\ EndsBy(View(db, ks, rm)[b], l)
    BY Zenon DEF RowsBy
<1>1. b \in MetaKey
    BY Keys, Zenon
<1>2. View(db, ks, rm)[b] = ks[b] \/ View(db, ks, rm)[b] = db[b]
    BY <1>1, ViewMeta
<1> QED
    BY <1>2, Zenon DEF RowsBy

\* A set of natural numbers has a least element.
LEMMA Smallest ==
    ASSUME NEW T \in SUBSET Nat, T # {}
    PROVE  \E x \in T : \A y \in T : x <= y
<1>1. PICK x \in T : \A y \in T : <<y, x>> \notin OpToRel(<, Nat)
    BY NatLessThanWellFounded, WFMin, Zenon
<1>2. \A y \in T : y < x => <<y, x>> \in OpToRel(<, Nat)
    BY Zenon DEF OpToRel
<1>3. \A y \in T : ~(y < x)
    BY <1>1, <1>2, Zenon
<1>4. \A y \in T : x <= y
    BY <1>3
<1> QED
    BY <1>4, Zenon

\* A bounded one has a greatest element.
LEMMA Largest ==
    ASSUME NEW N \in Nat, NEW T \in SUBSET (0..N), T # {}
    PROVE  \E x \in T : \A y \in T : y <= x
<1> DEFINE D == {d \in Nat : \E x \in T : d = N - x}
<1>1. PICK t \in T : TRUE
    BY Zenon
<1>2. N - t \in D
    OBVIOUS
<1>3. PICK d \in D : \A y \in D : d <= y
    BY <1>2, Smallest, Zenon
<1>4. PICK x \in T : d = N - x
    BY Zenon
<1>5. ASSUME NEW y \in T PROVE y <= x
  <2>1. N - y \in D
      OBVIOUS
  <2> QED
      BY <2>1, <1>3, <1>4
<1> QED
    BY <1>5, Zenon

\* scanBlockFiles finds a location, and none that the files reach lies after it.
LEMMA ScanReaches ==
    ASSUME TypeInv
    PROVE  /\ scanBlockFiles \in Location
           /\ \A l \in Location : Reaches(files, l) => AtMost(l, scanBlockFiles)
<1>1. CASE files[0] = None
  <2>1. scanBlockFiles = [file |-> 0, off |-> 0]
      BY <1>1, Zenon DEF scanBlockFiles
  <2>2. ASSUME NEW l \in Location, Reaches(files, l)
        PROVE  l.file = 0 /\ l.off = 0
    <3>1. 0 \in 0..l.file
        BY Locations
    <3> QED
        BY <3>1, <2>2, <1>1, Zenon DEF Reaches
  <2>3. \A l \in Location : l.file = 0 /\ l.off = 0 => AtMost(l, [file |-> 0, off |-> 0])
      BY Locations DEF AtMost, Before
  <2> QED
      BY <2>1, <2>2, <2>3, Locations, Zenon
<1>2. CASE files[0] # None
  <2> DEFINE Ok(n) == /\ \A m \in 0..n : files[m] # None
                      /\ n + 1 \in FileNum => files[n + 1] = None
             gone == {n \in FileNum : files[n] = None}
             last == CHOOSE n \in FileNum : Ok(n)
  <2>1. \E n \in FileNum : Ok(n)
    <3>1. CASE gone = {}
      <4>1. MaxFile \in FileNum /\ MaxFile + 1 \notin FileNum
          BY Sizes
      <4>2. \A m \in 0..MaxFile : files[m] # None
          BY <3>1, Sizes, Zenon
      <4> QED
          BY <4>1, <4>2, Zenon
    <3>2. CASE gone # {}
      <4>1. gone \in SUBSET Nat
          BY Sizes
      <4>2. PICK k \in gone : \A y \in gone : k <= y
          BY <4>1, <3>2, Smallest, Zenon
      <4>3. k \in FileNum /\ files[k] = None /\ k # 0
          BY <4>2, <1>2, Zenon
      <4>4. k - 1 \in FileNum /\ (k - 1) + 1 = k
          BY <4>3, Sizes
      <4>5. ASSUME NEW m \in 0..(k - 1), files[m] = None
            PROVE  FALSE
        <5>1. m \in gone /\ m < k
            BY <4>3, <4>5, Sizes
        <5> QED
            BY <5>1, <4>2, <4>3, Sizes
      <4> QED
          BY <4>3, <4>4, <4>5, Zenon
    <3> QED
        BY <3>1, <3>2, Zenon
  <2>2. last \in FileNum /\ Ok(last)
      BY <2>1, Zenon
  <2>3. scanBlockFiles = [file |-> last, off |-> Len(files[last])]
      BY <1>2, Zenon DEF scanBlockFiles
  <2> HIDE DEF last
  <2>4. last \in 0..MaxFile /\ files[last] # None /\ last \in 0..last
      BY <2>2, Sizes
  <2>5. files[last] \in Seq(Cell) /\ Len(files[last]) \in 0..MaxFileSize
    <3>1. files[last] \in Seq(Cell) /\ Len(files[last]) <= MaxFileSize
        BY <2>2, <2>4, FileTypes, Zenon DEF TypeInv, FilesOk, SyncedOk
    <3> QED
        BY <3>1, Sizes
  <2>6. scanBlockFiles \in Location
      BY <2>3, <2>4, <2>5, Locations, Zenon
  <2>7. ASSUME NEW l \in Location, Reaches(files, l)
        PROVE  AtMost(l, scanBlockFiles)
    <3>1. l.file \in 0..MaxFile /\ l.off \in 0..MaxFileSize
        BY Locations, Zenon
    <3>2. CASE l.file = 0 /\ l.off = 0
        BY <3>2, <2>3, <2>4, <2>5 DEF AtMost, Before
    <3>3. CASE (\A n \in 0..l.file : files[n] # None) /\ l.off <= Len(files[l.file])
      <4>1. ~(last < l.file)
        <5> SUFFICES ASSUME last < l.file
                     PROVE  FALSE
            BY Zenon
        <5>1. last + 1 \in FileNum /\ last + 1 \in 0..l.file
            BY <2>4, <3>1, Sizes
        <5> QED
            BY <5>1, <2>2, <3>3, Zenon
      <4>2. l.file = last => l.off <= Len(files[last])
          BY <3>3, Zenon
      <4> QED
          BY <4>1, <4>2, <2>3, <2>4, <2>5, <3>1 DEF AtMost, Before
    <3> QED
        BY <3>2, <3>3, <2>7, Zenon DEF Reaches
  <2> QED
      BY <2>6, <2>7, Zenon
<1> QED
    BY <1>1, <1>2, Zenon

\* SyncedLen is the length of a common prefix that cannot be extended.
LEMMA SyncedPrefix ==
    ASSUME TypeInv, NEW n \in FileNum, files[n] # None
    PROVE  /\ SyncedLen(n) \in 0..Len(synced[n]) /\ SyncedLen(n) <= Len(files[n])
           /\ \A l \in Location :
                 l.file = n /\ SyncedTo(synced, files, l) /\ l.off <= Len(files[n])
                 => l.off <= SyncedLen(n)
<1> DEFINE s == synced[n]
           f == files[n]
           Common(m) == m <= Len(f) /\ \A i \in 1..m : s[i] = f[i]
           Ends(m) == m < Len(s) /\ m < Len(f) => s[m + 1] # f[m + 1]
           T == {m \in 0..Len(s) : Common(m)}
           c == CHOOSE m \in 0..Len(s) : m <= Len(f) /\ (\A i \in 1..m : s[i] = f[i]) /\ Ends(m)
<1>1. s \in Seq(Cell) /\ f \in Seq(Cell) /\ Len(s) \in Nat /\ Len(f) \in Nat
    BY FileTypes DEF TypeInv, FilesOk, SyncedOk
<1>2. SyncedLen(n) = c
    BY Zenon DEF SyncedLen
<1> HIDE DEF s, f
<1>3. 0 \in T
    BY <1>1
<1>4. PICK m \in T : \A y \in T : y <= m
  <2>1. T \in SUBSET (0..Len(s)) /\ T # {}
      BY <1>3, Zenon
  <2> QED
      BY <2>1, <1>1, Largest, Zenon
<1>5. Ends(m)
  <2> SUFFICES ASSUME m < Len(s), m < Len(f), s[m + 1] = f[m + 1]
               PROVE  FALSE
      BY Zenon
  <2>1. m + 1 \in T
      BY <1>1
  <2> QED
      BY <2>1, <1>1, <1>4
<1>6. c \in 0..Len(s) /\ Common(c) /\ Ends(c)
    BY <1>4, <1>5, Zenon
<1> HIDE DEF c
<1>7. ASSUME NEW l \in Location, l.file = n, SyncedTo(synced, files, l), l.off <= Len(f), c < l.off
      PROVE  FALSE
  <2>1. c + 1 \in 1..l.off /\ l.off <= Len(s) /\ l.off \in Nat
      BY <1>6, <1>7, <1>1, Locations DEF SyncedTo, s
  <2>2. CellAt(s, c + 1) = CellAt(f, c + 1)
      BY <2>1, <1>7, Zenon DEF SyncedTo, s, f
  <2>3. s[c + 1] = f[c + 1]
      BY <2>1, <2>2, <1>1, <1>6, <1>7 DEF CellAt
  <2> QED
      BY <2>1, <2>3, <1>1, <1>6, <1>7
<1>8. \A l \in Location : l.file = n /\ SyncedTo(synced, files, l) /\ l.off <= Len(f)
                          => l.off <= c
    BY <1>1, <1>6, <1>7, Locations
<1> QED
    BY <1>1, <1>2, <1>6, <1>8, Zenon DEF s, f

(***************************************************************************)
(* What the steps do to the files.                                         *)
(***************************************************************************)
\* The file that the next record goes to.
LEMMA NextFileLocation ==
    ASSUME TypeInv, MoreBlocks
    PROVE  /\ NextFile \in Location /\ AtMost(cursor, NextFile)
           /\ NextFile.off + RecordLen <= MaxFileSize
           /\ NextFile = cursor \/ (cursor.off > 0 /\ NextFile = [file |-> cursor.file + 1, off |-> 0])
<1>1. cursor \in Location /\ cursor.file \in 0..MaxFile /\ cursor.off \in 0..MaxFileSize
    BY Locations, Zenon DEF TypeInv
<1>2. CASE cursor.off + RecordLen > MaxFileSize
  <2>1. NextFile = [file |-> cursor.file + 1, off |-> 0] /\ cursor.off > 0
      BY <1>1, <1>2, Sizes DEF NextFile
  <2>2. NextFile.file = cursor.file + 1 /\ NextFile.off = 0 /\ cursor.file + 1 \in 0..MaxFile
      BY <2>1, Sizes, Zenon DEF MoreBlocks
  <2>3. NextFile \in Location
      BY <2>1, <2>2, Sizes, Locations, Zenon
  <2> QED
      BY <2>1, <2>2, <2>3, <1>1, Sizes DEF AtMost, Before
<1>3. CASE ~(cursor.off + RecordLen > MaxFileSize)
  <2>1. NextFile = cursor
      BY <1>3, Zenon DEF NextFile
  <2> QED
      BY <2>1, <1>1, <1>3, Sizes, Order
<1> QED
    BY <1>2, <1>3, Zenon

\* Closing a transaction leaves its variables clear.
LEMMA CloseTxTypes ==
    ASSUME CloseTx
    PROVE  /\ pc' = "none" /\ keys' \in Meta /\ remove' \subseteq Key
           /\ blocks' \in Seq(Block) /\ written' = 0 /\ part' = 0
           /\ written' \in Nat /\ part' \in 0..(RecordLen - 1)
           /\ rollbackLoc' \in Location
           /\ \A b \in Block : keys'[b] = None
BY EmptyMeta, Locations, Keys, Sizes DEF CloseTx

\* A crash leaves the files as they are up to the write cursor in leveldb: all of
\* them when the process dies, what was synced when the machine does.
LEMMA CrashKeeps ==
    ASSUME ~PowerLoss \/ MaxFile = 0, TypeInv, LdbInv, SyncInv, Crash
    PROVE  /\ FilesOk(files') /\ SyncedOk(synced')
           /\ KeepsTo(files, files', ldb[WriteLoc])
           /\ PowerLoss => SyncedTo(synced', files', ldb[WriteLoc])
<1>1. /\ files \in Files /\ synced \in [FileNum -> Seq(Cell)]
      /\ \A n \in FileNum : /\ files[n] # None => Len(files[n]) <= MaxFileSize
                            /\ Len(synced[n]) <= MaxFileSize
    BY Zenon DEF TypeInv, FilesOk, SyncedOk
<1>2. /\ \E S : files' \in [FileNum -> S]
      /\ \A n \in FileNum : files'[n] \in Survivors(n)
      /\ synced' = [n \in FileNum |-> IF PowerLoss /\ files'[n] # None THEN files'[n] ELSE synced[n]]
    BY Zenon DEF Crash
<1>3. CASE ~PowerLoss
  <2>1. \A n \in FileNum : files'[n] = files[n]
      BY <1>2, <1>3, Zenon DEF Survivors
  <2>2. files' = files
      BY <2>1, <1>1, <1>2 DEF Files
  <2>3. synced' = synced
      BY <1>1, <1>2, <1>3, Zenon
  <2> QED
      BY <2>2, <2>3, <1>1, <1>3, KeepsSame, Zenon DEF FilesOk, SyncedOk
<1>4. CASE PowerLoss /\ MaxFile = 0
  <2> DEFINE l == ldb[WriteLoc]
  <2>1. l \in Location /\ l.file = 0 /\ l.off \in Nat /\ FileNum = {0}
      BY <1>4, MetaTypes, Locations, Sizes DEF LdbInv, TypeInv
  <2>2. SyncedTo(synced, files, l) /\ Reaches(files, l)
      BY <1>4, Zenon DEF SyncInv, LdbInv
  <2> HIDE DEF l
  <2>3. CASE files[0] = None
    <3>1. files' = files
      <4>1. files'[0] = files[0]
          BY <2>1, <2>3, <1>2, Zenon DEF Survivors
      <4> QED
          BY <4>1, <2>1, <1>1, <1>2 DEF Files
    <3>2. synced' = synced
        BY <3>1, <2>1, <2>3, <1>1, <1>2, Zenon
    <3> QED
        BY <3>1, <3>2, <2>2, <1>1, KeepsSame, Zenon DEF l, FilesOk, SyncedOk
  <2>4. CASE files[0] # None
    <3>1. files[0] \in Seq(Cell) /\ synced[0] \in Seq(Cell) /\ l.off <= Len(files[0])
      <4>1. files[0] \in Seq(Cell) /\ synced[0] \in Seq(Cell)
          BY <2>1, <2>4, <1>1, FileTypes, Zenon
      <4> QED
          BY <4>1, <2>1, <2>2 DEF Reaches
    <3>2. l.off <= SyncedLen(0) /\ SyncedLen(0) \in Nat
        BY <3>1, <2>1, <2>2, <2>4, SyncedPrefix
    <3>3. files'[0] = synced[0] \/ \E m \in SyncedLen(0)..Len(files[0]) : files'[0] = SubSeq(files[0], 1, m)
        BY <1>2, <1>4, <2>1, <2>4, Zenon DEF Survivors
    <3> DEFINE Good(f) == /\ f \in Seq(Cell) /\ Len(f) <= MaxFileSize /\ l.off <= Len(f)
                          /\ \A i \in 1..l.off : CellAt(f, i) = CellAt(files[0], i)
    <3>4. Good(files'[0])
      <4>1. CASE files'[0] = synced[0]
          BY <4>1, <3>1, <2>1, <2>2, <1>1, Zenon DEF SyncedTo
      <4>2. ASSUME NEW m \in SyncedLen(0)..Len(files[0]), files'[0] = SubSeq(files[0], 1, m)
            PROVE  Good(files'[0])
        <5>1. m \in 0..Len(files[0]) /\ l.off <= m
            BY <3>1, <3>2, <2>1
        <5>2. /\ SubSeq(files[0], 1, m) \in Seq(Cell) /\ Len(SubSeq(files[0], 1, m)) = m
              /\ \A i \in 1..m : CellAt(SubSeq(files[0], 1, m), i) = CellAt(files[0], i)
            BY <5>1, <3>1, PrefixCells, Zenon
        <5>3. Len(files[0]) <= MaxFileSize /\ Len(files[0]) \in Nat
            BY <1>1, <2>1, <2>4, <3>1
        <5> QED
            BY <5>1, <5>2, <5>3, <4>2, <2>1, Sizes
      <4> QED
          BY <3>3, <4>1, <4>2, Zenon
    <3>5. files'[0] # None
        BY <3>4, FileTypes, Zenon
    <3>6. files' \in Files
        BY <3>4, <2>1, <1>2, Zenon DEF Files
    <3>7. synced' \in [FileNum -> Seq(Cell)] /\ synced'[0] = files'[0]
        BY <3>4, <3>5, <2>1, <1>2, <1>4, Zenon
    <3>8. KeepsTo(files, files', l)
        BY <3>4, <3>5, <2>1 DEF KeepsTo
    <3>9. SyncedTo(synced', files', l)
        BY <3>4, <3>7, <2>1, Zenon DEF SyncedTo
    <3> QED
        BY <3>4, <3>6, <3>7, <3>8, <3>9, <2>1, Zenon DEF l, FilesOk, SyncedOk
  <2> QED
      BY <2>3, <2>4, Zenon
<1> QED
    BY <1>3, <1>4, Zenon

\* One file replaced by contents that fit.
LEMMA FileUpdate ==
    ASSUME NEW fs, FilesOk(fs), NEW n \in FileNum, NEW f \in Seq(Cell), Len(f) <= MaxFileSize
    PROVE  /\ FilesOk([fs EXCEPT ![n] = f])
           /\ [fs EXCEPT ![n] = f][n] = f /\ f # None
           /\ \A k \in FileNum : k # n => [fs EXCEPT ![n] = f][k] = fs[k]
<1>1. [fs EXCEPT ![n] = f][n] = f /\ f # None
    BY FileTypes, Zenon DEF FilesOk, Files
<1>2. \A k \in FileNum : k # n => [fs EXCEPT ![n] = f][k] = fs[k]
    BY Zenon DEF FilesOk, Files
<1>3. [fs EXCEPT ![n] = f] \in Files
    BY Zenon DEF FilesOk, Files
<1> QED
    BY <1>1, <1>2, <1>3, Zenon DEF FilesOk

\* The cell that writeData writes is in the current file, right after what is there.
LEMMA WriteDataFiles ==
    ASSUME TypeInv, TxInv, OpenInv, writeData
    PROVE  /\ cursor.file \in FileNum /\ cursor.off \in Nat /\ part \in 0..1
           /\ files[cursor.file] \in Seq(Cell) /\ cursor.off <= Len(files[cursor.file])
           /\ cursor.off + 1 <= MaxFileSize /\ cursor.off >= part
           /\ written + 1 \in 1..Len(blocks) /\ blocks[written + 1] \in Block
           /\ <<blocks[written + 1], part + 1>> \in Cell
           /\ files' = [files EXCEPT ![cursor.file] =
                           WriteAt(@, cursor.off, <<blocks[written + 1], part + 1>>)]
           /\ cursor' = [file |-> cursor.file, off |-> cursor.off + 1]
           /\ cursor' \in Location
           /\ RecordStart \in Location /\ RecordStart.file = cursor.file
           /\ RecordStart.off = cursor.off - part
<1>1. /\ pc = "record"
      /\ files' = [files EXCEPT ![cursor.file] =
                      WriteAt(@, cursor.off, <<blocks[written + 1], part + 1>>)]
      /\ cursor' = [cursor EXCEPT !.off = @ + 1]
    BY Zenon DEF writeData
<1>2. /\ cursor \in Location /\ part \in 0..1 /\ blocks \in Seq(Block) /\ written \in Nat
      /\ files \in Files
    BY Sizes DEF TypeInv, FilesOk
<1>3. cursor.file \in 0..MaxFile /\ cursor.off \in 0..MaxFileSize
      /\ cursor = [file |-> cursor.file, off |-> cursor.off]
    BY <1>2, Locations, Zenon
<1>4. /\ files[cursor.file] # None /\ written < Len(blocks) /\ Reaches(files, cursor)
      /\ RecordStart.off + RecordLen <= MaxFileSize /\ RecordStart \in Location
    BY <1>1, Zenon DEF TxInv, OpenInv, Writing
<1>5. RecordStart.off = cursor.off - part /\ RecordStart.file = cursor.file
    BY Zenon DEF RecordStart
<1>6. written + 1 \in 1..Len(blocks) /\ blocks[written + 1] \in Block
    BY <1>2, <1>4
<1>7. <<blocks[written + 1], part + 1>> \in Cell
    BY <1>2, <1>6, Sizes DEF Cell
<1>8. files[cursor.file] \in Seq(Cell) /\ cursor.file \in FileNum
    BY <1>2, <1>3, <1>4, FileTypes, Sizes, Zenon
<1>9. cursor.off <= Len(files[cursor.file])
    BY <1>3, <1>4, <1>8 DEF Reaches
<1>10. cursor.off + 1 <= MaxFileSize /\ cursor.off >= part
    BY <1>2, <1>3, <1>4, <1>5, Sizes, Locations
<1>11. cursor' = [file |-> cursor.file, off |-> cursor.off + 1]
    BY <1>1, <1>2, Zenon DEF Location
<1>12. cursor' \in Location
    BY <1>3, <1>10, <1>11, Sizes, Locations
<1> QED
    BY <1>1, <1>2, <1>3, <1>4, <1>5, <1>6, <1>7, <1>8, <1>9, <1>10, <1>11, <1>12

\* Every step leaves every variable in its type.
LEMMA TypeStep ==
    ASSUME ~PowerLoss \/ MaxFile = 0, StoreInv, [Next]_vars
    PROVE  TypeInv'
<1> USE DEF cacheVars, fileVars, txVars, readVars, boundVars
<1>0. /\ TypeInv /\ LdbInv /\ TxInv /\ OpenInv /\ SyncInv
      /\ [file |-> 0, off |-> 0] \in Location /\ Empty \in Meta /\ {} \subseteq Key
    BY EmptyMeta, Locations, Zenon DEF StoreInv
<1>1. CASE UNCHANGED vars
    BY <1>0, <1>1, Zenon DEF vars, TypeInv
<1>2. CASE BeginUpdate \/ writeDataFails \/ Close
    BY <1>0, <1>2, Zenon DEF TypeInv, BeginUpdate, writeDataFails, Close
<1>3. ASSUME NEW k \in Key, NEW v \in Value, putKey(k, v)
      PROVE  TypeInv'
  <2>1. keys' \in Meta
      BY <1>0, <1>3, SetKey, Zenon DEF TypeInv, putKey
  <2> QED
      BY <1>0, <1>3, <2>1, Zenon DEF TypeInv, putKey
<1>4. ASSUME NEW k \in Key, deleteKey(k)
      PROVE  TypeInv'
  <2>1. keys' \in Meta
      BY <1>0, <1>4, SetKey, Zenon DEF TypeInv, deleteKey
  <2> QED
      BY <1>0, <1>4, <2>1, Zenon DEF TypeInv, deleteKey
<1>5. ASSUME NEW b \in Block, StoreBlock(b)
      PROVE  TypeInv'
    BY <1>0, <1>5 DEF TypeInv, StoreBlock
<1>6. CASE Rollback \/ CommitDirectFails
    BY <1>0, <1>6, CloseTxTypes, Zenon DEF TypeInv, Rollback, CommitDirectFails
<1>7. CASE Commit
    BY <1>0, <1>7, Zenon DEF TypeInv, Commit
<1>8. CASE openWriteFile
  <2>1. cursor' \in Location /\ cursor'.file \in FileNum
      BY <1>0, <1>8, NextFileLocation, Locations, Sizes, Zenon DEF openWriteFile
  <2>2. FilesOk(files')
    <3>1. <<>> \in Seq(Cell) /\ Len(<<>>) <= MaxFileSize
        BY FileTypes, Sizes
    <3> QED
        BY <3>1, <2>1, <1>0, <1>8, FileUpdate, Zenon DEF TypeInv, openWriteFile
  <2> QED
      BY <2>1, <2>2, <1>0, <1>8, Zenon DEF TypeInv, openWriteFile
<1>9. CASE openWriteFileFails
    BY <1>0, <1>9, NextFileLocation, Zenon DEF TypeInv, openWriteFileFails
<1>10. CASE writeData
  <2> DEFINE w == WriteAt(files[cursor.file], cursor.off, <<blocks[written + 1], part + 1>>)
             b == blocks[written + 1]
  <2>1. /\ cursor.file \in FileNum /\ cursor.off \in Nat /\ part \in 0..1 /\ b \in Block
        /\ files[cursor.file] \in Seq(Cell) /\ cursor.off <= Len(files[cursor.file])
        /\ cursor.off + 1 <= MaxFileSize /\ cursor' \in Location
        /\ files' = [files EXCEPT ![cursor.file] = w]
        /\ <<blocks[written + 1], part + 1>> \in Cell
        /\ RecordStart \in Location
      BY <1>0, <1>10, WriteDataFiles, Zenon
  <2>2. w \in Seq(Cell) /\ Len(w) <= MaxFileSize
    <3>1. files[cursor.file] # None
        BY <2>1, FileTypes, Zenon
    <3>2. Len(files[cursor.file]) <= MaxFileSize
        BY <2>1, <3>1, <1>0, Zenon DEF TypeInv, FilesOk
    <3>3. w \in Seq(Cell) /\ Len(w) = IF cursor.off < Len(files[cursor.file])
                                      THEN Len(files[cursor.file]) ELSE cursor.off + 1
        BY <2>1, WriteAtCells, Zenon
    <3> QED
        BY <3>2, <3>3, <2>1, Zenon
  <2> HIDE DEF w
  <2>3. FilesOk(files')
      BY <2>1, <2>2, <1>0, FileUpdate, Zenon DEF TypeInv
  <2>4. keys' \in Meta
    <3>1. b \in MetaKey \ Key
        BY <2>1, Keys, Zenon
    <3>2. keys' = keys \/ keys' = [keys EXCEPT ![b] = RecordStart]
        BY <1>10, Zenon DEF writeData, RecordStart
    <3> QED
        BY <3>1, <3>2, <2>1, <1>0, SetRow DEF TypeInv
  <2>5. part' \in 0..(RecordLen - 1) /\ written' \in Nat /\ remove' \subseteq Key
      BY <2>1, <1>0, <1>10, Sizes, SMTT(30) DEF TypeInv, writeData
  <2> QED
      BY <2>1, <2>3, <2>4, <2>5, <1>0, <1>10, Zenon DEF TypeInv, writeData
<1>11. CASE CommitToCache
  <2>1. KeysWithCursor \in Meta
      BY <1>0, SetRow, Keys, Zenon DEF TypeInv, KeysWithCursor
  <2>2. cachedKeys' \in [MetaKey -> Value \cup Location \cup {None}]
      BY <2>1, <1>0, <1>11, MetaTypes, Zenon DEF TypeInv, CommitToCache
  <2>3. cachedKeys' \in Meta
    <3>1. \A k \in MetaKey : \/ cachedKeys'[k] = None
                             \/ cachedKeys'[k] = KeysWithCursor[k]
                             \/ cachedKeys'[k] = cachedKeys[k]
        BY <1>11, Zenon DEF CommitToCache
    <3>2. cachedKeys \in Meta
        BY <1>0, Zenon DEF TypeInv
    <3> QED
        BY <3>1, <3>2, <2>1, <2>2, MetaTypes, Keys, Zenon
  <2> QED
      BY <2>3, <1>0, <1>11, CloseTxTypes, Zenon DEF TypeInv, CommitToCache
<1>12. CASE CommitThrough
  <2>1. KeysWithCursor \in Meta
      BY <1>0, SetRow, Keys, Zenon DEF TypeInv, KeysWithCursor
  <2> QED
      BY <2>1, <1>0, <1>12, Zenon DEF TypeInv, CommitThrough
<1>13. CASE CommitDirect
  <2>1. ldb' \in Meta
      BY <1>0, <1>13, ViewMeta DEF TypeInv, CommitDirect
  <2> QED
      BY <2>1, <1>0, <1>13, CloseTxTypes, Zenon DEF TypeInv, CommitDirect
<1>14. ASSUME Flushed
       PROVE  /\ cursor' \in Location /\ isOpen' \in BOOLEAN /\ keys' \in Meta
              /\ remove' \subseteq Key /\ blocks' \in Seq(Block) /\ written' \in Nat
              /\ part' \in 0..(RecordLen - 1) /\ rollbackLoc' \in Location
  <2>1. CASE UNCHANGED <<state, isOpen, cursor, txVars>>
      BY <2>1, <1>0, Zenon DEF TypeInv
  <2>2. CASE isOpen' = FALSE /\ cursor' = [file |-> 0, off |-> 0] /\ CloseTx
      BY <2>2, CloseTxTypes, Locations, Zenon
  <2> QED
      BY <2>1, <2>2, <1>14, Zenon DEF Flushed
<1>15. /\ cursor.file \in FileNum /\ FilesOk(files)
       /\ isOpen => files[cursor.file] \in Seq(Cell) /\ Len(files[cursor.file]) <= MaxFileSize
    BY <1>0, FileTypes, Locations, Sizes, Zenon DEF TypeInv, FilesOk, OpenInv
<1>16. CASE syncBlocks
  <2>1. SyncedOk(synced')
    <3>1. CASE ~isOpen
        BY <3>1, <1>0, <1>16, Zenon DEF TypeInv, syncBlocks
    <3>2. CASE isOpen
        BY <3>2, <1>0, <1>16, <1>15, Zenon DEF TypeInv, syncBlocks, SyncedOk
    <3> QED
        BY <3>1, <3>2, <1>0, Zenon DEF TypeInv
  <2> QED
      BY <2>1, <1>0, <1>14, <1>16, Zenon DEF TypeInv, syncBlocks
<1>17. CASE FlushTreaps
  <2>1. ldb' \in Meta
      BY <1>0, <1>17, ViewMeta DEF TypeInv, FlushTreaps
  <2> QED
      BY <2>1, <1>0, <1>17, Zenon DEF TypeInv, FlushTreaps
<1>18. CASE ClearCache
    BY <1>0, <1>14, <1>18, Zenon DEF TypeInv, ClearCache
<1>19. CASE FlushFails
  <2>1. CASE state = "closing"
      BY <2>1, <1>0, <1>14, <1>19, Zenon DEF TypeInv, FlushFails
  <2>2. CASE state # "closing"
      BY <2>2, <1>0, <1>19, CloseTxTypes, Zenon DEF TypeInv, FlushFails
  <2> QED
      BY <2>1, <2>2, Zenon
<1>20. CASE RollbackNothing \/ RollbackDeleteFails \/ RollbackSyncFails
    BY <1>0, <1>20, CloseTxTypes, Zenon
       DEF TypeInv, RolledBack, RollbackNothing, RollbackDeleteFails, RollbackSyncFails
<1>21. CASE RollbackStarts
    BY <1>0, <1>21, Zenon DEF TypeInv, RollbackStarts
<1>22. CASE RollbackDelete
  <2>1. cursor' \in Location /\ cursor.file \in FileNum
    <3>1. cursor \in Location /\ rollbackLoc \in Location
        BY <1>0, Zenon DEF TypeInv
    <3>2. cursor' = [file |-> cursor.file - 1, off |-> cursor.off]
        BY <3>1, <1>22, Zenon DEF RollbackDelete, Location
    <3>3. cursor.file \in 0..MaxFile /\ rollbackLoc.file \in 0..MaxFile /\ cursor.off \in 0..MaxFileSize
        BY <3>1, Locations, Zenon
    <3>4. cursor.file - 1 \in 0..MaxFile
        BY <3>3, <1>22, Sizes DEF RollbackDelete
    <3> QED
        BY <3>2, <3>3, <3>4, Locations, Sizes, Zenon
  <2>2. FilesOk(files')
      BY <2>1, <1>0, <1>22, Zenon DEF TypeInv, RollbackDelete, FilesOk, Files
  <2>3. SyncedOk(synced')
      BY <2>1, <1>0, <1>22, FileTypes, Sizes DEF TypeInv, RollbackDelete, SyncedOk
  <2> QED
      BY <2>1, <2>2, <2>3, <1>0, <1>22, Zenon DEF TypeInv, RollbackDelete
<1>23. CASE RollbackTruncate
  <2> DEFINE f == IF files[cursor.file] = None THEN <<>> ELSE files[cursor.file]
  <2>1. f \in Seq(Cell) /\ rollbackLoc.off \in Nat /\ rollbackLoc.off <= MaxFileSize
      BY <1>0, <1>15, FileTypes, Locations, Sizes DEF TypeInv, FilesOk
  <2>2. Truncate(f, rollbackLoc.off) \in Seq(Cell) /\ Len(Truncate(f, rollbackLoc.off)) <= MaxFileSize
      BY <2>1, TruncateCells, Zenon
  <2>3. files' = [files EXCEPT ![cursor.file] = Truncate(f, rollbackLoc.off)]
      BY <1>23, Zenon DEF RollbackTruncate
  <2> HIDE DEF f
  <2>4. FilesOk(files')
      BY <2>2, <2>3, <1>15, FileUpdate, Zenon
  <2> QED
      BY <2>4, <1>0, <1>23, Zenon DEF TypeInv, RollbackTruncate
<1>24. CASE RollbackTruncateFails
  <2>1. FilesOk(files')
    <3>1. <<>> \in Seq(Cell) /\ Len(<<>>) <= MaxFileSize
        BY FileTypes, Sizes
    <3>2. files' = files \/ files' = [files EXCEPT ![cursor.file] = <<>>]
        BY <1>24, Zenon DEF RollbackTruncateFails
    <3>3. FilesOk([files EXCEPT ![cursor.file] = <<>>])
        BY <3>1, <1>15, FileUpdate, Zenon
    <3> QED
        BY <3>2, <3>3, <1>15, Zenon
  <2>2. isOpen' \in BOOLEAN
      BY <1>0, <1>24, Zenon DEF TypeInv, RollbackTruncateFails
  <2> QED
      BY <2>1, <2>2, <1>0, <1>24, CloseTxTypes, Zenon
         DEF TypeInv, RolledBack, RollbackTruncateFails
<1>25. CASE RollbackSync
  <2>1. isOpen
      BY <1>0, <1>25, Zenon DEF OpenInv, RollbackSync
  <2>2. SyncedOk(synced')
      BY <2>1, <1>0, <1>15, <1>25, Zenon DEF TypeInv, RollbackSync, SyncedOk
  <2> QED
      BY <2>2, <1>0, <1>25, CloseTxTypes, Zenon DEF TypeInv, RolledBack, RollbackSync
<1>26. CASE Open
  <2>1. ldb[WriteLoc] \in Location
      BY <1>0, MetaTypes, Zenon DEF TypeInv, LdbInv
  <2> QED
      BY <2>1, <1>0, <1>26, ScanReaches, Zenon DEF TypeInv, Open
<1>27. CASE Crash
  <2>1. FilesOk(files') /\ SyncedOk(synced')
      BY <1>0, <1>27, CrashKeeps, Zenon
  <2> QED
      BY <2>1, <1>0, <1>27, CloseTxTypes, Zenon DEF TypeInv, Crash
<1>28. CASE ReadBegin \/ ReadEnd
    BY <1>0, <1>28, Zenon DEF TypeInv, ReadBegin, ReadEnd
<1>29. CASE ReadCache
  <2>1. snapshot' \in Meta
      BY <1>0, <1>29, ViewMeta, Zenon DEF TypeInv, ReadCache
  <2> QED
      BY <2>1, <1>0, <1>29, Zenon DEF TypeInv, ReadCache
<1> QED
    BY <1>1, <1>2, <1>3, <1>4, <1>5, <1>6, <1>7, <1>8, <1>9, <1>10, <1>11, <1>12, <1>13,
       <1>16, <1>17, <1>18, <1>19, <1>20, <1>21, <1>22, <1>23, <1>24, <1>25, <1>26, <1>27,
       <1>28, <1>29, Zenon
    DEF Next, Body, Writer

(***************************************************************************)
(* Phases and files, step by step.                                         *)
(***************************************************************************)
\* The write cursor in leveldb, the cursor and the place to roll back to are
\* locations.
LEMMA Places ==
    ASSUME TypeInv
    PROVE  /\ cursor \in Location /\ rollbackLoc \in Location /\ Kept \in Location
           /\ LdbInv => ldb[WriteLoc] \in Location
           /\ cachedKeys[WriteLoc] # None => cachedKeys[WriteLoc] \in Location
BY MetaTypes, Zenon DEF TypeInv, LdbInv, Kept

\* The steps of the holder of writeLock follow each other as the code has them, and
\* openDB does not report corruption.
LEMMA PhaseStep ==
    ASSUME StoreInv, [Next]_vars
    PROVE  PhaseInv'
<1> USE DEF readVars, PhaseInv, Writing, RollingBack, Flushing
<1>0. PhaseInv /\ TypeInv /\ LdbInv
    BY Zenon DEF StoreInv
<1>1. CASE UNCHANGED vars
    BY <1>0, <1>1, Zenon DEF vars
<1>2. CASE \/ BeginUpdate \/ Rollback \/ Commit \/ Close
           \/ \E k \in Key, v \in Value : putKey(k, v)
           \/ \E k \in Key : deleteKey(k)
           \/ \E b \in Block : StoreBlock(b)
    BY <1>0, <1>2, Zenon DEF BeginUpdate, Rollback, Commit, Close, putKey, deleteKey, StoreBlock, CloseTx
<1>3. CASE openWriteFile \/ openWriteFileFails \/ writeData \/ writeDataFails
    BY <1>0, <1>3, Zenon DEF openWriteFile, openWriteFileFails, writeData, writeDataFails, MoreBlocks
<1>4. CASE CommitToCache \/ CommitThrough \/ CommitDirect \/ CommitDirectFails
    BY <1>0, <1>4, Zenon
       DEF CommitToCache, CommitThrough, CommitDirect, CommitDirectFails, CloseTx, AllWritten
<1>5. CASE syncBlocks \/ FlushTreaps \/ ClearCache \/ FlushFails
    BY <1>0, <1>5, Zenon DEF syncBlocks, FlushTreaps, ClearCache, FlushFails, Flushed, CloseTx
<1>6. CASE \/ RollbackNothing \/ RollbackStarts \/ RollbackDelete \/ RollbackDeleteFails
           \/ RollbackTruncate \/ RollbackTruncateFails \/ RollbackSync \/ RollbackSyncFails
    BY <1>0, <1>6, ZenonT(30)
       DEF RollbackNothing, RollbackStarts, RollbackDelete, RollbackDeleteFails,
           RollbackTruncate, RollbackTruncateFails, RollbackSync, RollbackSyncFails,
           RolledBack, CloseTx
<1>7. CASE Open
  <2>1. ~Before(cursor', ldb[WriteLoc])
    <3>1. ldb[WriteLoc] \in Location /\ Reaches(files, ldb[WriteLoc])
        BY <1>0, Places, Zenon DEF LdbInv
    <3> QED
        BY <3>1, <1>0, <1>7, ScanReaches, Zenon DEF Open, AtMost
  <2> QED
      BY <2>1, <1>0, <1>7, Zenon DEF Open
<1>8. CASE Crash
    BY <1>0, <1>8, Zenon DEF Crash, CloseTx
<1>9. CASE ReadBegin \/ ReadCache \/ ReadEnd
    BY <1>0, <1>9, Zenon DEF ReadBegin, ReadCache, ReadEnd
<1> QED
    BY <1>1, <1>2, <1>3, <1>4, <1>5, <1>6, <1>7, <1>8, <1>9, Zenon DEF Next, Body, Writer

\* A location before one up to which files are kept is one too.
LEMMA KeepsLess ==
    ASSUME NEW fs, NEW gs, FilesOk(fs), FilesOk(gs), NEW l \in Location, NEW m \in Location,
           KeepsTo(fs, gs, l), Reaches(fs, l), AtMost(m, l)
    PROVE  KeepsTo(fs, gs, m)
<1>1. /\ l.file \in 0..MaxFile /\ m.file \in 0..MaxFile /\ m.off \in Nat /\ l.off \in Nat
      /\ m.file < l.file \/ (m.file = l.file /\ m.off <= l.off)
    BY Locations, Sizes DEF AtMost, Before
<1>2. \A n \in FileNum : n < m.file => gs[n] = fs[n]
    BY <1>1, Sizes DEF KeepsTo
<1>3. CASE m.file < l.file
  <2>1. gs[m.file] = fs[m.file]
      BY <1>1, <1>3, Sizes, Zenon DEF KeepsTo
  <2> QED
      BY <1>2, <2>1, Zenon DEF KeepsTo
<1>4. CASE m.file = l.file /\ m.off <= l.off
  <2> SUFFICES ASSUME fs[m.file] # None
               PROVE  /\ gs[m.file] # None /\ m.off <= Len(gs[m.file])
                      /\ \A i \in 1..m.off : CellAt(gs[m.file], i) = CellAt(fs[m.file], i)
      BY <1>2, Zenon DEF KeepsTo
  <2>1. gs[m.file] # None
      BY <1>4, Zenon DEF KeepsTo
  <2>2. gs[m.file] \in Seq(Cell) /\ Len(gs[m.file]) \in Nat
      BY <2>1, <1>1, FileTypes, Sizes, SMTT(30) DEF FilesOk
  <2>3. l.off = 0 \/ l.off <= Len(gs[m.file])
      BY <1>4, Zenon DEF KeepsTo, Reaches
  <2>4. \A i \in 1..m.off : i \in 1..l.off
      BY <1>1, <1>4
  <2> QED
      BY <2>1, <2>2, <2>3, <2>4, <1>1, <1>4, SMTT(30) DEF KeepsTo
<1> QED
    BY <1>1, <1>3, <1>4, Zenon

\* A cell written at the cursor leaves everything before the cursor.
LEMMA WriteDataKeeps ==
    ASSUME TypeInv, TxInv, OpenInv, writeData
    PROVE  /\ KeepsTo(files, files', cursor)
           /\ CellAt(files'[cursor.file], cursor.off + 1) = <<blocks[written + 1], part + 1>>
           /\ files'[cursor.file] \in Seq(Cell) /\ cursor.off + 1 <= Len(files'[cursor.file])
           /\ files'[cursor.file] # None
           /\ \A n \in FileNum : n # cursor.file => files'[n] = files[n]
<1> DEFINE f == files[cursor.file]
           c == <<blocks[written + 1], part + 1>>
           w == WriteAt(f, cursor.off, c)
<1>1. /\ cursor.file \in FileNum /\ cursor.off \in Nat /\ c \in Cell
      /\ f \in Seq(Cell) /\ cursor.off <= Len(f)
      /\ files' = [files EXCEPT ![cursor.file] = w]
    BY WriteDataFiles, Zenon
<1>2. /\ w \in Seq(Cell) /\ Len(w) = IF cursor.off < Len(f) THEN Len(f) ELSE cursor.off + 1
      /\ CellAt(w, cursor.off + 1) = c
      /\ \A i \in Nat \ {0} : i # cursor.off + 1 => CellAt(w, i) = CellAt(f, i)
    BY <1>1, WriteAtCells, ZenonT(30)
<1> HIDE DEF w, c
<1>3. files'[cursor.file] = w /\ \A n \in FileNum : n # cursor.file => files'[n] = files[n]
    BY <1>1, Zenon DEF TypeInv, FilesOk, Files
<1>4. w # None /\ cursor.off + 1 <= Len(w)
    BY <1>1, <1>2, FileTypes, SMTT(30)
<1>5. \A i \in 1..cursor.off : CellAt(w, i) = CellAt(f, i)
    BY <1>1, <1>2
<1>6. \A n \in FileNum : n < cursor.file => n # cursor.file
    BY <1>1, Sizes
<1>7. KeepsTo(files, files', cursor)
    BY <1>1, <1>2, <1>3, <1>4, <1>5, <1>6 DEF KeepsTo
<1> QED
    BY <1>2, <1>3, <1>4, <1>7, ZenonT(30) DEF c

\* While the database is up, no step changes the files up to where a rollback
\* returns to, and that place only moves on.
LEMMA FileStep ==
    ASSUME StoreInv, TypeInv', Up, Up', [Next]_vars
    PROVE  /\ KeepsTo(files, files', Kept) /\ AtMost(Kept, Kept')
           /\ Kept' \in Location /\ Reaches(files', Kept')
<1> USE DEF fileVars, txVars
<1>0. /\ TypeInv /\ PhaseInv /\ TxInv /\ OpenInv /\ Reaches(files, Kept)
      /\ Kept \in Location /\ cursor \in Location /\ rollbackLoc \in Location
    BY Places, Zenon DEF StoreInv, CacheInv
<1>1. ASSUME files' = files, Kept' = Kept
      PROVE  /\ KeepsTo(files, files', Kept) /\ AtMost(Kept, Kept')
             /\ Kept' \in Location /\ Reaches(files', Kept')
    BY <1>0, <1>1, KeepsSame, Order, Zenon
<1>2. ASSUME KeepsTo(files, files', Kept), Kept' = Kept
      PROVE  /\ KeepsTo(files, files', Kept) /\ AtMost(Kept, Kept')
             /\ Kept' \in Location /\ Reaches(files', Kept')
  <2>1. files' \in Files
      BY Zenon DEF TypeInv, FilesOk
  <2> QED
      BY <2>1, <1>0, <1>2, KeepsReach, Order, Zenon
<1> USE DEF Kept, Writing, RollingBack
<1>3. CASE UNCHANGED vars
    BY <1>1, <1>3, Zenon DEF vars
<1>4. CASE \/ BeginUpdate \/ Rollback \/ Commit \/ Close
           \/ \E k \in Key, v \in Value : putKey(k, v)
           \/ \E k \in Key : deleteKey(k)
           \/ \E b \in Block : StoreBlock(b)
    BY <1>1, <1>4, Zenon DEF BeginUpdate, Rollback, Commit, Close, putKey, deleteKey, StoreBlock, CloseTx
<1>5. CASE openWriteFileFails \/ writeDataFails
    BY <1>1, <1>5, Zenon DEF openWriteFileFails, writeDataFails, MoreBlocks
<1>6. CASE CommitDirect \/ CommitDirectFails
    BY <1>1, <1>6, Zenon DEF CommitDirect, CommitDirectFails, CloseTx
<1>7. CASE syncBlocks \/ FlushTreaps \/ ClearCache \/ FlushFails
    BY <1>1, <1>7, ZenonT(30) DEF syncBlocks, FlushTreaps, ClearCache, FlushFails, Flushed, CloseTx, Up
<1>8. CASE \/ RollbackNothing \/ RollbackStarts \/ RollbackDeleteFails \/ RollbackSync
           \/ RollbackSyncFails
    BY <1>1, <1>8, ZenonT(30)
       DEF RollbackNothing, RollbackStarts, RollbackDeleteFails, RollbackSync,
           RollbackSyncFails, RolledBack, CloseTx
<1>9. CASE ReadBegin \/ ReadCache \/ ReadEnd
    BY <1>1, <1>9, Zenon DEF ReadBegin, ReadCache, ReadEnd
<1>10. CASE Open \/ Crash
    BY <1>10, Zenon DEF Open, Crash, Up
<1>11. CASE CommitToCache \/ CommitThrough
  <2>1. /\ pc = "write" /\ files' = files /\ cursor' = cursor /\ Kept' = cursor
        /\ Kept = rollbackLoc
      BY <1>11, Zenon DEF CommitToCache, CommitThrough, CloseTx, AllWritten
  <2>2. part = 0 /\ Reaches(files, cursor) /\ AtMost(rollbackLoc, RecordStart)
      BY <2>1, <1>0, Zenon DEF TxInv
  <2>3. RecordStart = cursor
      BY <2>2, <1>0, Locations, SMTT(30) DEF RecordStart
  <2> QED
      BY <2>1, <2>2, <2>3, <1>0, KeepsSame, Zenon
<1>12. CASE openWriteFile
  <2>1. pc = "write" /\ Kept = rollbackLoc /\ Kept' = Kept /\ cursor' = NextFile
      BY <1>12, Zenon DEF openWriteFile, MoreBlocks
  <2>2. AtMost(rollbackLoc, cursor')
    <3>1. AtMost(rollbackLoc, RecordStart) /\ RecordStart = cursor
        BY <2>1, <1>0, Locations DEF TxInv, RecordStart
    <3>2. AtMost(cursor, NextFile) /\ NextFile \in Location
        BY <1>0, <1>12, NextFileLocation, Zenon DEF openWriteFile
    <3> QED
        BY <3>1, <3>2, <2>1, <1>0, Order, Zenon
  <2>3. cursor'.file >= rollbackLoc.file /\ cursor'.file \in FileNum
    <3>1. cursor' \in Location
        BY Zenon DEF TypeInv
    <3> QED
        BY <3>1, <2>2, <1>0, Locations, Sizes DEF AtMost, Before
  <2>4. /\ \A n \in FileNum : n # cursor'.file => files'[n] = files[n]
        /\ files[cursor'.file] # None => files' = files
      BY <2>3, <1>0, <1>12, Zenon DEF openWriteFile, TypeInv, FilesOk, Files
  <2>5. KeepsTo(files, files', rollbackLoc)
    <3>1. rollbackLoc.file \in FileNum
        BY <1>0, Locations, Sizes, Zenon
    <3>2. \A n \in FileNum : n < rollbackLoc.file => files'[n] = files[n]
        BY <2>3, <2>4, <3>1, Sizes
    <3>3. files[rollbackLoc.file] # None => files'[rollbackLoc.file] = files[rollbackLoc.file]
        BY <2>4, <3>1, Zenon
    <3> QED
        BY <3>2, <3>3, Zenon DEF KeepsTo
  <2> QED
      BY <2>1, <2>5, <1>2, Zenon
<1>13. CASE writeData
  <2>1. pc = "record" /\ Kept = rollbackLoc /\ Kept' = Kept
      BY <1>13, Zenon DEF writeData
  <2>2. /\ KeepsTo(files, files', cursor) /\ Reaches(files, cursor)
        /\ RecordStart \in Location /\ AtMost(rollbackLoc, RecordStart)
      BY <2>1, <1>0, <1>13, WriteDataKeeps, Zenon DEF TxInv
  <2>3. AtMost(RecordStart, cursor)
    <3>1. /\ RecordStart.file = cursor.file /\ RecordStart.off = cursor.off - part
          /\ part \in 0..1 /\ cursor.off \in Nat /\ cursor.file \in Nat
        BY <1>0, <1>13, WriteDataFiles, Locations
    <3> QED
        BY <3>1, SMTT(30) DEF AtMost, Before
  <2>4. AtMost(rollbackLoc, cursor)
      BY <2>2, <2>3, <1>0, Order, Zenon
  <2>5. FilesOk(files) /\ FilesOk(files')
      BY <1>0, Zenon DEF TypeInv
  <2>6. KeepsTo(files, files', rollbackLoc)
      BY <2>2, <2>4, <2>5, <1>0, KeepsLess, Zenon
  <2> QED
      BY <2>1, <2>6, <1>2, Zenon
<1>14. CASE RollbackDelete
  <2>1. /\ Kept = rollbackLoc /\ Kept' = Kept /\ cursor.file > rollbackLoc.file
        /\ files' = [files EXCEPT ![cursor.file] = None]
      BY <1>14, Zenon DEF RollbackDelete
  <2>2. cursor.file \in FileNum /\ rollbackLoc.file \in FileNum
      BY <1>0, Locations, Sizes, Zenon
  <2>3. \A n \in FileNum : n <= rollbackLoc.file => files'[n] = files[n]
      BY <2>1, <2>2, <1>0, Sizes DEF TypeInv, FilesOk, Files
  <2>4. \A n \in FileNum : n < rollbackLoc.file => n <= rollbackLoc.file
      BY <2>2, Sizes
  <2>5. files'[rollbackLoc.file] = files[rollbackLoc.file]
      BY <2>2, <2>3, Sizes, SMTT(30)
  <2>6. KeepsTo(files, files', rollbackLoc)
      BY <2>3, <2>4, <2>5, Zenon DEF KeepsTo
  <2> QED
      BY <2>1, <2>6, <1>2, Zenon
<1>15. CASE RollbackTruncate
  <2> DEFINE r == rollbackLoc.off
             f == files[cursor.file]
  <2>1. /\ Kept = rollbackLoc /\ Kept' = Kept /\ cursor.file = rollbackLoc.file
        /\ files' = [files EXCEPT ![cursor.file] = Truncate(IF f = None THEN <<>> ELSE f, r)]
      BY <1>15, Zenon DEF RollbackTruncate
  <2>2. cursor.file \in FileNum /\ r \in Nat
      BY <1>0, Locations, Sizes, SMTT(30)
  <2>3. /\ \A n \in FileNum : n < rollbackLoc.file => files'[n] = files[n]
        /\ f # None => files'[cursor.file] = Truncate(f, r)
      BY <2>1, <2>2, <1>0, Sizes, SMTT(30) DEF TypeInv, FilesOk, Files
  <2>4. ASSUME f # None
        PROVE  /\ files'[cursor.file] # None /\ r <= Len(files'[cursor.file])
               /\ \A i \in 1..r : CellAt(files'[cursor.file], i) = CellAt(f, i)
    <3>1. f \in Seq(Cell)
        BY <2>2, <2>4, <1>0, FileTypes, ZenonT(30) DEF TypeInv, FilesOk
    <3>2. /\ Truncate(f, r) \in Seq(Cell) /\ Len(Truncate(f, r)) = r
          /\ \A i \in 1..r : CellAt(Truncate(f, r), i) = CellAt(f, i)
        BY <3>1, <2>2, TruncateCells, ZenonT(30)
    <3> QED
        BY <3>2, <2>2, <2>3, <2>4, FileTypes
  <2>5. KeepsTo(files, files', rollbackLoc)
      BY <2>1, <2>3, <2>4, Zenon DEF KeepsTo
  <2> QED
      BY <2>1, <2>5, <1>2, Zenon
<1>16. CASE RollbackTruncateFails
  <2>1. /\ pc = "undo" /\ cursor.file = rollbackLoc.file
        /\ Kept = rollbackLoc /\ Kept' = Kept
        /\ files' = files \/ (files[cursor.file] = None
                              /\ files' = [files EXCEPT ![cursor.file] = <<>>])
      BY <1>16, Zenon DEF RollbackTruncateFails, RolledBack, CloseTx
  <2>2. cursor.file \in FileNum
      BY <1>0, Locations, Sizes, Zenon
  <2>3. /\ \A n \in FileNum : n < rollbackLoc.file => files'[n] = files[n]
        /\ files[rollbackLoc.file] # None => files'[rollbackLoc.file] = files[rollbackLoc.file]
      BY <2>1, <2>2, <1>0, Sizes, SMTT(30) DEF TypeInv, FilesOk, Files
  <2>4. KeepsTo(files, files', rollbackLoc)
      BY <2>3, Zenon DEF KeepsTo
  <2> QED
      BY <2>1, <2>4, <1>2, Zenon
<1> QED
    BY <1>3, <1>4, <1>5, <1>6, <1>7, <1>8, <1>9, <1>10, <1>11, <1>12, <1>13, <1>14, <1>15,
       <1>16, ZenonT(30)
    DEF Next, Body, Writer

(***************************************************************************)
(* leveldb and the cache, step by step.                                    *)
(***************************************************************************)
\* The steps that write to leveldb.
LEMMA LdbWritten ==
    ASSUME [Next]_vars
    PROVE  ldb' = ldb \/ FlushTreaps \/ CommitDirect
BY ZenonT(30) DEF Next, Body, Writer, vars, BeginUpdate, putKey, deleteKey, StoreBlock, Rollback, Commit,
       openWriteFile, openWriteFileFails, writeData, writeDataFails, CommitToCache,
       CommitThrough, CommitDirectFails, syncBlocks, ClearCache, FlushFails, RollbackNothing,
       RollbackStarts, RollbackDelete, RollbackDeleteFails, RollbackTruncate,
       RollbackTruncateFails, RollbackSync, RollbackSyncFails, Close, Open, Crash, ReadBegin,
       ReadCache, ReadEnd

\* The steps that write to the cache.
LEMMA CacheWritten ==
    ASSUME [Next]_vars
    PROVE  \/ cachedKeys' = cachedKeys /\ cachedRemove' = cachedRemove
           \/ cachedKeys' = Empty /\ cachedRemove' = {}
           \/ CommitToCache
BY ZenonT(30) DEF Next, Body, Writer, vars, cacheVars, BeginUpdate, putKey, deleteKey, StoreBlock, Rollback,
       Commit, openWriteFile, openWriteFileFails, writeData, writeDataFails, CommitThrough,
       CommitDirect, CommitDirectFails, syncBlocks, FlushTreaps, ClearCache, FlushFails,
       RollbackNothing, RollbackStarts, RollbackDelete, RollbackDeleteFails, RollbackTruncate,
       RollbackTruncateFails, RollbackSync, RollbackSyncFails, Close, Open, Crash, ReadBegin,
       ReadCache, ReadEnd

\* The steps of the reader, and those that leave it alone.
LEMMA ReaderSteps ==
    ASSUME [Next]_vars
    PROVE  \/ reader' = reader /\ snapshot' = snapshot
           \/ reader' = "none"
           \/ ReadBegin
           \/ ReadCache
BY ZenonT(30) DEF Next, Body, Writer, vars, readVars, BeginUpdate, putKey, deleteKey, StoreBlock, Rollback,
       Commit, openWriteFile, openWriteFileFails, writeData, writeDataFails, CommitToCache,
       CommitThrough, CommitDirect, CommitDirectFails, syncBlocks, FlushTreaps, ClearCache,
       FlushFails, RollbackNothing, RollbackStarts, RollbackDelete, RollbackDeleteFails,
       RollbackTruncate, RollbackTruncateFails, RollbackSync, RollbackSyncFails, Close, Open,
       Crash, ReadEnd

\* The steps between up and down.
LEMMA UpSteps ==
    ASSUME PhaseInv, [Next]_vars
    PROVE  \/ Up /\ Up'
           \/ ~Up /\ Open
           \/ ~Up' /\ Crash
           \/ ~Up' /\ files' = files /\ (syncBlocks \/ ClearCache \/ FlushFails)
           \/ ~Up /\ UNCHANGED vars
<1> USE DEF PhaseInv, Up, Writing, RollingBack, Flushing
<1>1. CASE \/ BeginUpdate \/ Rollback \/ Commit \/ Close
           \/ \E k \in Key, v \in Value : putKey(k, v)
           \/ \E k \in Key : deleteKey(k)
           \/ \E b \in Block : StoreBlock(b)
    BY <1>1, Zenon DEF BeginUpdate, Rollback, Commit, Close, putKey, deleteKey, StoreBlock
<1>2. CASE \/ openWriteFile \/ openWriteFileFails \/ writeData \/ writeDataFails
           \/ CommitToCache \/ CommitThrough \/ CommitDirect \/ CommitDirectFails \/ FlushTreaps
    BY <1>2, Zenon DEF openWriteFile, openWriteFileFails, writeData, writeDataFails, MoreBlocks,
                CommitToCache, CommitThrough, CommitDirect, CommitDirectFails, AllWritten,
                FlushTreaps
<1>3. CASE syncBlocks \/ ClearCache \/ FlushFails
    BY <1>3, Zenon DEF syncBlocks, ClearCache, FlushFails, Flushed
<1>4. CASE \/ RollbackNothing \/ RollbackStarts \/ RollbackDelete \/ RollbackDeleteFails
           \/ RollbackTruncate \/ RollbackTruncateFails \/ RollbackSync \/ RollbackSyncFails
    BY <1>4, ZenonT(30)
       DEF RollbackNothing, RollbackStarts, RollbackDelete, RollbackDeleteFails,
           RollbackTruncate, RollbackTruncateFails, RollbackSync, RollbackSyncFails, RolledBack
<1>5. CASE Open \/ Crash
    BY <1>5, Zenon DEF Open, Crash
<1>6. CASE ReadBegin \/ ReadCache \/ ReadEnd \/ UNCHANGED vars
    BY <1>6, Zenon DEF ReadBegin, ReadCache, ReadEnd, vars
<1> QED
    BY <1>1, <1>2, <1>3, <1>4, <1>5, <1>6, Zenon DEF Next, Body, Writer

\* What a flush writes: the rows of the cache, and its write cursor if it has one.
LEMMA FlushWrites ==
    ASSUME StoreInv, Up, FlushTreaps
    PROVE  /\ ldb' = View(ldb, cachedKeys, cachedRemove)
           /\ ldb'[WriteLoc] = IF cachedKeys[WriteLoc] = None THEN ldb[WriteLoc]
                               ELSE cachedKeys[WriteLoc]
           /\ RowsBy(files, ldb', ldb'[WriteLoc]) /\ Reaches(files, ldb'[WriteLoc])
           /\ ldb'[WriteLoc] # None /\ AtMost(ldb'[WriteLoc], Kept)
<1>1. /\ ldb \in Meta /\ cachedKeys \in Meta /\ cachedRemove \in SUBSET Key
      /\ LdbInv /\ CacheInv
    BY Zenon DEF StoreInv, TypeInv
<1>2. /\ ldb[WriteLoc] \in Location /\ Kept \in Location
      /\ cachedKeys[WriteLoc] # None => cachedKeys[WriteLoc] \in Location
    BY <1>1, Places, Zenon DEF StoreInv
<1>3. ldb' = View(ldb, cachedKeys, cachedRemove)
    BY <1>1, ViewMeta, Zenon DEF FlushTreaps
<1>4. ldb'[WriteLoc] = IF cachedKeys[WriteLoc] = None THEN ldb[WriteLoc]
                       ELSE cachedKeys[WriteLoc]
    BY <1>1, <1>3, ViewMeta, Keys
<1>5. /\ ldb'[WriteLoc] \in Location /\ AtMost(ldb[WriteLoc], ldb'[WriteLoc])
      /\ Reaches(files, ldb'[WriteLoc]) /\ AtMost(ldb'[WriteLoc], Kept)
      /\ RowsBy(files, cachedKeys, ldb'[WriteLoc])
  <2>1. CASE cachedKeys[WriteLoc] = None
      BY <2>1, <1>1, <1>2, <1>4, Order, NoRows, ZenonT(30) DEF LdbInv, CacheInv
  <2>2. CASE cachedKeys[WriteLoc] # None
      BY <2>2, <1>1, <1>2, <1>4, ZenonT(30) DEF CacheInv
  <2> QED
      BY <2>1, <2>2, ZenonT(30)
<1>6. RowsBy(files, ldb, ldb'[WriteLoc])
    BY <1>1, <1>2, <1>5, RowsLater, ZenonT(30) DEF LdbInv
<1>7. RowsBy(files, View(ldb, cachedKeys, cachedRemove), ldb'[WriteLoc])
    BY <1>1, <1>5, <1>6, ViewRows, ZenonT(30)
<1> QED
    BY <1>3, <1>4, <1>5, <1>7, Locations, Zenon

\* What commitTx writes through: the rows of the transaction and the cursor.
LEMMA DirectWrites ==
    ASSUME StoreInv, CommitDirect
    PROVE  /\ Up /\ Kept = cursor /\ Kept' = cursor /\ files' = files
           /\ ldb' = View(ldb, keys, remove) /\ ldb'[WriteLoc] = cursor
           /\ RowsBy(files, ldb', cursor) /\ Reaches(files, cursor)
<1>1. /\ ldb \in Meta /\ keys \in Meta /\ remove \in SUBSET Key
      /\ LdbInv /\ TypeInv /\ cursor \in Location
    BY Zenon DEF StoreInv, TypeInv
<1>2. pc = "direct" /\ pc' = "none" /\ files' = files /\ cursor' = cursor
    BY Zenon DEF CommitDirect, CloseTx, fileVars
<1>3. Kept = cursor /\ Kept' = cursor
    BY <1>2, Zenon DEF Kept, Writing, RollingBack
<1>4. state = "open" /\ Flushing /\ Up
    BY <1>2, Zenon DEF StoreInv, PhaseInv, Flushing, Writing, RollingBack, Up
<1>5. /\ keys[WriteLoc] = cursor /\ part = 0 /\ RowsBy(files, keys, RecordStart)
      /\ CacheInv
    BY <1>2, <1>4, Zenon DEF StoreInv, TxInv
<1>6. RecordStart = cursor
    BY <1>1, <1>5, Locations DEF RecordStart
<1>7. ldb' = View(ldb, keys, remove)
    BY <1>1, ViewMeta, Zenon DEF CommitDirect
<1>8. ldb'[WriteLoc] = cursor
    BY <1>1, <1>5, <1>7, ViewMeta, Keys, Locations, SMTT(30)
<1>9. RowsBy(files, ldb, cursor)
    BY <1>1, <1>3, <1>5, Places, RowsLater, Zenon DEF LdbInv, CacheInv
<1>10. RowsBy(files, View(ldb, keys, remove), cursor)
    BY <1>1, <1>5, <1>6, <1>9, ViewRows, Zenon
<1> QED
    BY <1>2, <1>3, <1>4, <1>5, <1>7, <1>8, <1>10, ZenonT(30) DEF CacheInv

\* leveldb never points past what is in the files.
LEMMA LdbStep ==
    ASSUME ~PowerLoss \/ MaxFile = 0, StoreInv, TypeInv', [Next]_vars
    PROVE  LdbInv'
<1>0. /\ TypeInv /\ PhaseInv /\ LdbInv /\ SyncInv /\ ldb \in Meta /\ files' \in Files
      /\ ldb[WriteLoc] \in Location
    BY Places, Zenon DEF StoreInv, TypeInv, FilesOk
<1>1. ASSUME ldb' = ldb, NEW l \in Location, KeepsTo(files, files', l), Reaches(files, l),
             AtMost(ldb[WriteLoc], l)
      PROVE  LdbInv'
  <2>1. Reaches(files', ldb[WriteLoc])
      BY <1>0, <1>1, KeepsReach, Zenon DEF LdbInv
  <2>2. RowsBy(files', ldb, ldb[WriteLoc])
      BY <1>0, <1>1, KeepsRows, Zenon DEF LdbInv
  <2> QED
      BY <2>1, <2>2, <1>0, <1>1, Zenon DEF LdbInv
<1>2. CASE FlushTreaps
  <2>1. Up /\ files' = files
      BY <1>0, <1>2, Zenon DEF FlushTreaps, fileVars, PhaseInv, Up
  <2> QED
      BY <2>1, <1>2, FlushWrites, Zenon DEF LdbInv
<1>3. CASE CommitDirect
    BY <1>0, <1>3, DirectWrites, Places, Locations, Zenon DEF LdbInv
<1>4. CASE ldb' = ldb /\ Up /\ Up'
  <2>1. KeepsTo(files, files', Kept) /\ Kept \in Location
      BY <1>0, <1>4, FileStep, Places, Zenon
  <2>2. Reaches(files, Kept) /\ AtMost(ldb[WriteLoc], Kept)
      BY <1>4, Zenon DEF StoreInv, CacheInv
  <2> QED
      BY <2>1, <2>2, <1>1, <1>4, Zenon
<1>5. CASE ldb' = ldb /\ Crash
  <2>1. KeepsTo(files, files', ldb[WriteLoc])
      BY <1>0, <1>5, CrashKeeps, Zenon
  <2> QED
      BY <2>1, <1>0, <1>1, <1>5, Order, Zenon DEF LdbInv
<1>6. CASE ldb' = ldb /\ files' = files
    BY <1>0, <1>6, Zenon DEF LdbInv
<1>7. Open => files' = files
    BY Zenon DEF Open
<1> QED
    BY <1>0, <1>2, <1>3, <1>4, <1>5, <1>6, <1>7, LdbWritten, UpSteps, Zenon DEF vars, fileVars

\* What commitTx puts into the cache: the rows of the transaction and the cursor.
LEMMA CacheCommitted ==
    ASSUME StoreInv, TypeInv', CommitToCache, Up
    PROVE  /\ cachedKeys'[WriteLoc] = cursor /\ Kept' = cursor /\ files' = files
           /\ RowsBy(files, cachedKeys', cursor) /\ Reaches(files, cursor)
           /\ \A b \in Block : cachedKeys'[b] = IF keys[b] # None THEN keys[b] ELSE cachedKeys[b]
<1>1. /\ keys \in Meta /\ cachedKeys \in Meta /\ remove \in SUBSET Key /\ cursor \in Location
      /\ TypeInv /\ CacheInv
    BY Zenon DEF StoreInv, TypeInv
<1>2. pc = "write" /\ pc' = "none" /\ files' = files /\ cursor' = cursor
    BY Zenon DEF CommitToCache, AllWritten, CloseTx, fileVars
<1>3. Kept' = cursor /\ Kept = rollbackLoc
    BY <1>2, Zenon DEF Kept, Writing, RollingBack
<1>4. /\ RowsBy(files, keys, RecordStart) /\ part = 0 /\ Reaches(files, cursor)
      /\ AtMost(rollbackLoc, RecordStart)
    BY <1>2, Zenon DEF StoreInv, TxInv, Writing
<1>5. RecordStart = cursor
    BY <1>1, <1>4, Locations DEF RecordStart
<1>6. cachedKeys'[WriteLoc] = cursor
  <2>1. KeysWithCursor[WriteLoc] = cursor
      BY <1>1, MetaTypes, Keys, Zenon DEF KeysWithCursor
  <2>2. WriteLoc \in MetaKey /\ WriteLoc \notin remove /\ cursor # None
      BY <1>1, Keys, Locations, Zenon
  <2> QED
      BY <2>1, <2>2, Zenon DEF CommitToCache
<1>7. ASSUME NEW b \in Block
      PROVE  cachedKeys'[b] = IF keys[b] # None THEN keys[b] ELSE cachedKeys[b]
  <2>1. b \in MetaKey /\ b # WriteLoc /\ b \notin remove
      BY <1>1, Keys, Zenon
  <2>2. KeysWithCursor[b] = keys[b]
      BY <2>1, <1>1, MetaTypes, Zenon DEF KeysWithCursor
  <2> QED
      BY <2>1, <2>2, Zenon DEF CommitToCache
<1>8. RowsBy(files, cachedKeys, cursor)
  <2>1. CASE cachedKeys[WriteLoc] = None
      BY <2>1, <1>1, NoRows, Zenon DEF CacheInv
  <2>2. CASE cachedKeys[WriteLoc] # None
    <3>1. /\ AtMost(cachedKeys[WriteLoc], cursor) /\ cachedKeys[WriteLoc] \in Location
          /\ RowsBy(files, cachedKeys, cachedKeys[WriteLoc])
        BY <2>2, <1>1, <1>3, <1>4, <1>5, Order, Places, ZenonT(30) DEF CacheInv
    <3> QED
        BY <3>1, <1>1, RowsLater, Zenon
  <2> QED
      BY <2>1, <2>2, Zenon
<1>9. RowsBy(files, cachedKeys', cursor)
    BY <1>4, <1>5, <1>7, <1>8, ZenonT(30) DEF RowsBy
<1> QED
    BY <1>2, <1>3, <1>4, <1>6, <1>7, <1>9, ZenonT(30)

\* The cache stays between leveldb and the place to roll back to.
LEMMA CacheStep ==
    ASSUME StoreInv, TypeInv', LdbInv', [Next]_vars, Up'
    PROVE  CacheInv'
<1>0. /\ TypeInv /\ PhaseInv /\ LdbInv /\ FlushInv /\ ldb[WriteLoc] \in Location
      /\ Kept \in Location /\ Kept' \in Location /\ ldb'[WriteLoc] \in Location
      /\ ldb \in Meta /\ cachedKeys \in Meta /\ snapshot \in Meta /\ cachedRemove \in SUBSET Key
      /\ cachedKeys[WriteLoc] # None => cachedKeys[WriteLoc] \in Location
      /\ files' \in Files
  <2>1. TypeInv /\ PhaseInv /\ LdbInv /\ FlushInv
      BY Zenon DEF StoreInv
  <2>2. Kept' \in Location
      BY Zenon DEF Kept, TypeInv
  <2>3. ldb'[WriteLoc] \in Location
      BY MetaTypes, Zenon DEF TypeInv, LdbInv
  <2> QED
      BY <2>1, <2>2, <2>3, Places, Zenon DEF TypeInv, FilesOk
<1>1. ASSUME Reaches(files', Kept'), AtMost(ldb'[WriteLoc], Kept'),
             \A k \in MetaKey : cachedKeys'[k] = None,
             reader' # "none" => RowsBy(files', snapshot', Kept')
      PROVE  CacheInv'
    BY <1>1, Keys, ZenonT(30) DEF CacheInv
<1>2. CASE ~Up /\ Open
  <2>1. /\ state = "closed" /\ pc = "none" /\ cachedKeys = Empty /\ reader' = "none"
        /\ cachedKeys' = cachedKeys /\ ldb' = ldb /\ files' = files
      BY <1>0, <1>2, Zenon DEF Open, PhaseInv, FlushInv, Up, cacheVars, readVars
  <2>2. Kept' = ldb[WriteLoc]
    <3>1. CASE Before(ldb[WriteLoc], cursor')
        BY <3>1, <1>2, Zenon DEF Open, Kept, RollingBack
    <3>2. CASE ~Before(ldb[WriteLoc], cursor')
      <4>1. cursor' \in Location /\ ~Before(cursor', ldb[WriteLoc])
          BY <1>0, <1>2, ScanReaches, Zenon DEF Open, LdbInv, AtMost
      <4>2. cursor' = ldb[WriteLoc]
          BY <4>1, <3>2, <1>0, Order, Zenon DEF AtMost
      <4>3. pc' = "none"
          BY <3>2, <2>1, <1>2, Zenon DEF Open
      <4> QED
          BY <4>2, <4>3, Zenon DEF Kept, Writing, RollingBack
    <3> QED
        BY <3>1, <3>2, Zenon
  <2> QED
      BY <2>1, <2>2, <1>0, <1>1, EmptyMeta, Order, Zenon DEF LdbInv
<1>3. CASE Up /\ UNCHANGED vars
    BY <1>3, Zenon DEF StoreInv, CacheInv, Kept, Writing, RollingBack, vars, fileVars, cacheVars, txVars,
                readVars
<1>4. CASE Up /\ Next
  <2>1. /\ KeepsTo(files, files', Kept) /\ AtMost(Kept, Kept') /\ Reaches(files', Kept')
        /\ CacheInv
      BY <1>4, FileStep, Zenon DEF StoreInv
  <2>2. AtMost(ldb'[WriteLoc], Kept')
    <3>1. CASE ldb' = ldb
        BY <3>1, <2>1, <1>0, Order, Zenon DEF CacheInv
    <3>2. CASE FlushTreaps
        BY <3>2, <2>1, <1>0, <1>4, FlushWrites, Order, ZenonT(30)
    <3>3. CASE CommitDirect
        BY <3>3, <1>0, DirectWrites, Order, Zenon
    <3> QED
        BY <3>1, <3>2, <3>3, LdbWritten, Zenon
  <2>3. reader' # "none" => RowsBy(files', snapshot', Kept')
    <3>1. CASE reader' = reader /\ snapshot' = snapshot
      <4>1. reader # "none" => RowsBy(files', snapshot, Kept)
          BY <2>1, <1>0, KeepsRows, Order, Zenon DEF CacheInv
      <4> QED
          BY <4>1, <3>1, <2>1, <1>0, RowsLater, ZenonT(30)
    <3>2. RowsBy(files, ldb, Kept) /\ RowsBy(files, cachedKeys, Kept)
      <4>1. RowsBy(files, ldb, Kept)
          BY <2>1, <1>0, RowsLater, Zenon DEF CacheInv, LdbInv
      <4>2. CASE cachedKeys[WriteLoc] = None
          BY <4>1, <4>2, <2>1, NoRows, ZenonT(30) DEF CacheInv
      <4>3. CASE cachedKeys[WriteLoc] # None
          BY <4>1, <4>3, <2>1, <1>0, RowsLater, Zenon DEF CacheInv
      <4> QED
          BY <4>2, <4>3, Zenon
    <3>3. CASE ReadBegin
      <4>1. files' = files /\ Kept' = Kept /\ snapshot' = ldb
          BY <3>3, Zenon DEF ReadBegin, fileVars, txVars, Kept, Writing, RollingBack
      <4> QED
          BY <4>1, <3>2, Zenon
    <3>4. CASE ReadCache
      <4>1. /\ files' = files /\ Kept' = Kept /\ reader = "begin"
            /\ snapshot' = View(snapshot, cachedKeys, cachedRemove)
          BY <3>4, Zenon DEF ReadCache, fileVars, txVars, Kept, Writing, RollingBack
      <4>2. RowsBy(files, snapshot, Kept)
          BY <4>1, <2>1, Zenon DEF CacheInv
      <4> QED
          BY <4>1, <4>2, <3>2, <1>0, ViewRows, Zenon
    <3> QED
        BY <3>1, <3>3, <3>4, ReaderSteps, Zenon
  <2>4. CASE cachedKeys' = Empty
      BY <2>1, <2>2, <2>3, <2>4, <1>1, EmptyMeta, Zenon
  <2>5. CASE CommitToCache
    <3>1. /\ cachedKeys'[WriteLoc] = cursor /\ Kept' = cursor /\ files' = files
          /\ RowsBy(files, cachedKeys', cursor) /\ Reaches(files, cursor)
        BY <2>5, <1>4, CacheCommitted, Zenon
    <3>2. cachedKeys'[WriteLoc] # None /\ AtMost(Kept', Kept')
        BY <3>1, <1>0, Order, Locations, Zenon
    <3> QED
        BY <3>1, <3>2, <2>1, <2>2, <2>3, ZenonT(30) DEF CacheInv
  <2>6. CASE cachedKeys' = cachedKeys
    <3>1. CASE cachedKeys[WriteLoc] = None
        BY <3>1, <2>1, <2>2, <2>3, <2>6, ZenonT(30) DEF CacheInv
    <3>2. CASE cachedKeys[WriteLoc] # None
      <4>1. /\ Reaches(files, cachedKeys[WriteLoc]) /\ AtMost(ldb[WriteLoc], cachedKeys[WriteLoc])
            /\ AtMost(cachedKeys[WriteLoc], Kept) /\ Reaches(files, Kept)
            /\ RowsBy(files, cachedKeys, cachedKeys[WriteLoc])
          BY <3>2, <2>1, ZenonT(30) DEF CacheInv
      <4>2. Reaches(files', cachedKeys[WriteLoc])
          BY <4>1, <3>2, <2>1, <1>0, KeepsReach, ZenonT(30)
      <4>3. RowsBy(files', cachedKeys, cachedKeys[WriteLoc])
          BY <4>1, <3>2, <2>1, <1>0, KeepsRows, ZenonT(30)
      <4>4. AtMost(cachedKeys[WriteLoc], Kept')
          BY <4>1, <3>2, <2>1, <1>0, Order, ZenonT(30)
      <4>5. AtMost(ldb'[WriteLoc], cachedKeys[WriteLoc])
        <5>1. CASE ldb' = ldb
            BY <5>1, <4>1, Zenon
        <5>2. CASE FlushTreaps
            BY <5>2, <3>2, <1>0, <1>4, FlushWrites, Order, ZenonT(30)
        <5>3. CASE CommitDirect
            BY <5>3, <3>2, <1>0, EmptyMeta, Keys, Zenon DEF CommitDirect, FlushInv
        <5> QED
            BY <5>1, <5>2, <5>3, LdbWritten, Zenon
      <4> QED
          BY <4>2, <4>3, <4>4, <4>5, <3>2, <2>1, <2>2, <2>3, <2>6, ZenonT(30) DEF CacheInv
    <3> QED
        BY <3>1, <3>2, Zenon
  <2> QED
      BY <2>4, <2>5, <2>6, CacheWritten, Zenon
<1> QED
    BY <1>0, <1>2, <1>3, <1>4, UpSteps, Zenon DEF Up, vars

\* A flush leaves nothing in the cache that leveldb does not have.
LEMMA FlushStep ==
    ASSUME StoreInv, [Next]_vars
    PROVE  FlushInv'
<1> USE DEF cacheVars
<1>0. FlushInv /\ PhaseInv /\ TypeInv
    BY Zenon DEF StoreInv
<1>1. CASE UNCHANGED vars
    BY <1>0, <1>1, Zenon DEF vars, FlushInv
<1>2. ASSUME pc' \notin {"direct", "clear"}, state' # "closed"
      PROVE  FlushInv'
    BY <1>2, Zenon DEF FlushInv
<1>3. ASSUME cachedKeys' = Empty, cachedRemove' = {}, pc' # "clear"
      PROVE  FlushInv'
    BY <1>3, Zenon DEF FlushInv
<1>4. CASE \/ BeginUpdate \/ Rollback \/ Commit \/ Close
           \/ \E k \in Key, v \in Value : putKey(k, v)
           \/ \E k \in Key : deleteKey(k)
           \/ \E b \in Block : StoreBlock(b)
    BY <1>0, <1>2, <1>4, Zenon
       DEF BeginUpdate, Rollback, Commit, Close, putKey, deleteKey, StoreBlock, CloseTx, PhaseInv
<1>5. CASE openWriteFile \/ openWriteFileFails \/ writeData \/ writeDataFails
    BY <1>0, <1>2, <1>5, Zenon
       DEF openWriteFile, openWriteFileFails, writeData, writeDataFails, MoreBlocks, PhaseInv
<1>6. CASE CommitToCache \/ CommitThrough \/ CommitDirect \/ CommitDirectFails
    BY <1>0, <1>2, <1>6, Zenon
       DEF CommitToCache, CommitThrough, CommitDirect, CommitDirectFails, CloseTx, AllWritten,
           PhaseInv
<1>7. CASE syncBlocks
  <2>1. CASE cachedKeys = Empty /\ cachedRemove = {}
      BY <2>1, <1>3, <1>7, Zenon DEF syncBlocks, Flushed, CloseTx
  <2>2. CASE ~(cachedKeys = Empty /\ cachedRemove = {})
      BY <2>2, <1>0, <1>2, <1>7, Zenon DEF syncBlocks, PhaseInv
  <2> QED
      BY <2>1, <2>2, Zenon
<1>8. CASE FlushTreaps
  <2>1. /\ pc' = "clear" /\ state' # "closed"
        /\ cachedKeys' = cachedKeys /\ cachedRemove' = cachedRemove
      BY <1>0, <1>8, Zenon DEF FlushTreaps, PhaseInv
  <2>2. \A k \in MetaKey : ldb'[k] =
           IF k \in cachedRemove THEN None ELSE IF cachedKeys[k] # None THEN cachedKeys[k]
           ELSE ldb[k]
      BY <1>0, <1>8, ViewMeta, SMTT(30) DEF FlushTreaps, TypeInv
  <2> QED
      BY <2>1, <2>2, Zenon DEF FlushInv
<1>9. CASE ClearCache
    BY <1>3, <1>9, Zenon DEF ClearCache, Flushed, CloseTx
<1>10. CASE FlushFails
  <2>1. CASE state = "closing"
      BY <2>1, <1>3, <1>10, Zenon DEF FlushFails, Flushed, CloseTx
  <2>2. CASE state # "closing"
      BY <2>2, <1>0, <1>2, <1>10, Zenon DEF FlushFails, CloseTx, PhaseInv
  <2> QED
      BY <2>1, <2>2, Zenon
<1>11. CASE \/ RollbackNothing \/ RollbackStarts \/ RollbackDelete \/ RollbackDeleteFails
            \/ RollbackTruncate \/ RollbackTruncateFails \/ RollbackSync \/ RollbackSyncFails
    BY <1>0, <1>2, <1>11, ZenonT(30)
       DEF RollbackNothing, RollbackStarts, RollbackDelete, RollbackDeleteFails,
           RollbackTruncate, RollbackTruncateFails, RollbackSync, RollbackSyncFails,
           RolledBack, CloseTx, PhaseInv
<1>12. CASE Open
    BY <1>0, <1>2, <1>12, Zenon DEF Open, PhaseInv
<1>13. CASE Crash
    BY <1>3, <1>13, Zenon DEF Crash, CloseTx
<1>14. CASE ReadBegin \/ ReadCache \/ ReadEnd
    BY <1>0, <1>14, Zenon DEF ReadBegin, ReadCache, ReadEnd, FlushInv
<1> QED
    BY <1>1, <1>4, <1>5, <1>6, <1>7, <1>8, <1>9, <1>10, <1>11, <1>12, <1>13, <1>14, Zenon
    DEF Next, Body, Writer

=============================================================================
