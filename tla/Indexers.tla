------------------------------ MODULE Indexers ------------------------------
(***************************************************************************)
(* The optional indexes and their manager (blockchain/indexers).  Each     *)
(* index has a tip in the database that follows the main chain while the   *)
(* index is enabled and stays behind while it is not.  When the process    *)
(* starts, Manager.Init finishes drops that were interrupted, creates and  *)
(* upgrades indexes, rolls back the ones whose tip left the main chain and *)
(* catches all of them up, in a series of database transactions between    *)
(* any two of which the process may stop or crash.                         *)
(*                                                                         *)
(* Three indexes are modelled, in the order in which they are enabled: the *)
(* transaction index with its internal block ids, the address index, which *)
(* needs the transaction index, and the filter index.  A transaction of    *)
(* the database is atomic and durable here; module Ffldb is about that.    *)
(***************************************************************************)
EXTENDS Integers, Sequences, Functions

CONSTANTS
    Block, Genesis,
    Parent,       \* [Block \ {Genesis} -> Block]
    Height,       \* [Block -> Nat]
    Anc,          \* [Block -> SUBSET Block]: a block and the blocks before it
    Tx,
    Txs,          \* [Block -> SUBSET Tx]
    Spends,       \* [Tx -> SUBSET Tx]: where the inputs of a transaction come from
    Configs,      \* SUBSET SUBSET Index: the sets of indexes a start enables
    None,
    Increment,    \* the gap of the forward scan in TxIndex.Init
    IdSpace,      \* the number of values of curBlockID, 2^32 in the code
    MaxEvents     \* bound: commits that fail, drops, and starts of a newer version

Index == {"tx", "addr", "cf"}
Id == 0..(IdSpace - 1)

ASSUME TreeAssumption ==
    /\ Genesis \in Block /\ None \notin Block /\ None \notin Id
    /\ Parent \in [Block \ {Genesis} -> Block]
    /\ Height \in [Block -> Nat] /\ Anc \in [Block -> SUBSET Block]
    /\ Height[Genesis] = 0 /\ Anc[Genesis] = {Genesis}
    /\ \A b \in Block \ {Genesis} :
          Height[b] = Height[Parent[b]] + 1 /\ Anc[b] = Anc[Parent[b]] \cup {b}
    /\ \A b \in Block : \A a \in Anc[b] : Height[a] <= Height[b] /\ Anc[a] \subseteq Anc[b]

ASSUME TxAssumption == Txs \in [Block -> SUBSET Tx] /\ Spends \in [Tx -> SUBSET Tx]

ASSUME ConfigAssumption == \A c \in Configs : c \subseteq Index /\ ("addr" \in c => "tx" \in c)

\* There are more block ids than the scans of TxIndex.Init reach.
ASSUME IdAssumption ==
    /\ Increment \in Nat \ {0} /\ IdSpace \in Nat
    /\ \A b \in Block : 2 * (Height[b] + Increment) < IdSpace

VARIABLES
    db,       \* what the database holds
    at,       \* where the process is
    enabled,  \* Manager.enabledIndexes
    cur,      \* TxIndex.curBlockID
    drop,     \* the drops of indexes in progress
    scan,     \* TxIndex.Init: highestKnown and nextUnknown (or testBlockID)
    roll,     \* the rollback in Manager.Init: the indexes left, hash, cachedBlock
    work,     \* the open database transaction of the rollback
    err,      \* history: the last error the manager returned since the start
    past      \* history: the events of the bound, and whether a commit failed or a
              \* chain had a transaction twice

memory == <<at, enabled, cur, drop, scan, roll, work>>
vars == <<db, at, enabled, cur, drop, scan, roll, work, err, past>>

Tip(chain) == IF chain = <<>> THEN Genesis ELSE chain[Len(chain)]
MainChain(d) == {Genesis} \cup Range(d.chain)
Front(s) == SubSeq(s, 1, Len(s) - 1)

\* The database: the main chain, the tip of each index, the indexes that are
\* being dropped or of an older version, and what each index holds.  The entries
\* of the address index are a stack of block ids, one for each block.
EmptyDb ==
    [chain |-> <<>>, tip |-> [i \in Index |-> None], dropping |-> {}, old |-> {},
     txs |-> [t \in Tx |-> None], ids |-> [b \in Block |-> None],
     hashes |-> [n \in Id |-> None], idBuckets |-> FALSE, addr |-> <<>>, cf |-> {}]

NoDrop == [todo |-> {}, then |-> "down", for |-> "tx", on |-> "tx", op |-> "mark"]
NoScan == [known |-> 0, next |-> 1]
NoRoll == [left |-> {}, hash |-> Genesis, cached |-> None]
NoWork == [db |-> EmptyDb, cur |-> 0, err |-> "none"]

\* The process ends, and with it what it has in memory.
GoDown ==
    /\ at' = "down" /\ enabled' = {} /\ cur' = 0
    /\ drop' = NoDrop /\ scan' = NoScan /\ roll' = NoRoll /\ work' = NoWork

Init ==
    /\ db = EmptyDb
    /\ at = "down" /\ enabled = {} /\ cur = 0
    /\ drop = NoDrop /\ scan = NoScan /\ roll = NoRoll /\ work = NoWork
    /\ err = "none"
    /\ past = [events |-> 0, failed |-> FALSE, twice |-> FALSE]

\* The manager returns an error and the process exits.
Exit(reason) == GoDown /\ err' = reason /\ UNCHANGED <<db, past>>

(***************************************************************************)
(* One index and one block.  x is [db, cur, err]: the state of the         *)
(* database transaction, TxIndex.curBlockID and the error, if any.         *)
(***************************************************************************)

Failed(x, reason) == [x EXCEPT !.err = reason]

TxConnectBlock(x, b) ==
    LET id == (x.cur + 1) % IdSpace
        d == x.db
    IN  [x EXCEPT !.cur = id,
                  !.db = [d EXCEPT !.txs = [t \in Tx |-> IF t \in Txs[b] THEN id ELSE d.txs[t]],
                                   !.ids = [d.ids EXCEPT ![b] = id],
                                   !.hashes = [d.hashes EXCEPT ![id] = b]]]

\* Mutant: curBlockID is not given back.
MutTxDisconnectBlock(x, b) ==
    LET d == x.db IN
    [x EXCEPT !.db = [d EXCEPT !.txs = [t \in Tx |-> IF t \in Txs[b] THEN None ELSE d.txs[t]],
                               !.ids = [d.ids EXCEPT ![b] = None],
                               !.hashes = [n \in Id |-> IF n = d.ids[b] THEN None ELSE d.hashes[n]]]]

TxDisconnectBlock(x, b) ==
    LET d == x.db IN
    IF \E t \in Txs[b] : d.txs[t] = None THEN Failed(x, "no entry")
    ELSE [x EXCEPT
            !.cur = (x.cur + IdSpace - 1) % IdSpace,
            !.db = [d EXCEPT !.txs = [t \in Tx |-> IF t \in Txs[b] THEN None ELSE d.txs[t]],
                             !.ids = [d.ids EXCEPT ![b] = None],
                             !.hashes = [n \in Id |-> IF n = d.ids[b] THEN None ELSE d.hashes[n]]]]

AddrConnectBlock(x, b) ==
    LET d == x.db IN
    IF d.ids[b] = None THEN Failed(x, "no block id")
    ELSE [x EXCEPT !.db = [d EXCEPT !.addr = Append(d.addr, d.ids[b])]]

AddrDisconnectBlock(x, b) ==
    LET d == x.db IN
    IF d.addr = <<>> THEN Failed(x, "not enough entries")
    ELSE [x EXCEPT !.db = [d EXCEPT !.addr = Front(d.addr)]]

CfConnectBlock(x, b) == LET d == x.db IN [x EXCEPT !.db = [d EXCEPT !.cf = d.cf \cup {b}]]
CfDisconnectBlock(x, b) == LET d == x.db IN [x EXCEPT !.db = [d EXCEPT !.cf = d.cf \ {b}]]

SetTip(x, i, b) ==
    LET d == x.db IN [x EXCEPT !.db = [d EXCEPT !.tip = [d.tip EXCEPT ![i] = b]]]

\* dbIndexConnectBlock.
DbIndexConnectBlock(x, i, b) ==
    LET y == CASE i = "tx" -> TxConnectBlock(x, b)
               [] i = "addr" -> AddrConnectBlock(x, b)
               [] i = "cf" -> CfConnectBlock(x, b)
    IN  IF x.err # "none" THEN x
        ELSE IF x.db.tip[i] # Parent[b] THEN Failed(x, "assertion")
        ELSE IF y.err # "none" THEN y
        ELSE SetTip(y, i, b)

\* dbIndexDisconnectBlock.
DbIndexDisconnectBlock(x, i, b) ==
    LET y == CASE i = "tx" -> TxDisconnectBlock(x, b)
               [] i = "addr" -> AddrDisconnectBlock(x, b)
               [] i = "cf" -> CfDisconnectBlock(x, b)
    IN  IF x.err # "none" THEN x
        ELSE IF x.db.tip[i] # b THEN Failed(x, "assertion")
        ELSE IF y.err # "none" THEN y
        ELSE SetTip(y, i, Parent[b])

\* makeUtxoView, for the address index: the transaction index has all inputs.
MakeUtxoView(x, i, b) ==
    LET inputs == UNION {Spends[t] : t \in Txs[b]}
        found(t) == x.db.txs[t] # None /\ x.db.hashes[x.db.txs[t]] # None
    IN  IF x.err = "none" /\ i = "addr" /\ \E t \in inputs : ~found(t)
        THEN Failed(x, "input not found") ELSE x

\* A loop over the indexes of a set, in the order in which they are enabled.
ForEach(Op(_, _), x, c) ==
    LET step(y, i) == IF i \in c THEN Op(y, i) ELSE y
    IN  step(step(step(x, "tx"), "addr"), "cf")

FirstOf(c) == IF "tx" \in c THEN "tx" ELSE IF "addr" \in c THEN "addr" ELSE "cf"
LastOf(c) == IF "cf" \in c THEN "cf" ELSE IF "addr" \in c THEN "addr" ELSE "tx"

(***************************************************************************)
(* Dropping an index, in several transactions.                             *)
(***************************************************************************)

Exists(d, i) == d.tip[i] # None

\* The loop over the indexes to drop goes on with the next one that exists, or
\* Init with what comes after.  The option that drops the filter index does not
\* mark it.
NextDrop(d, todo, then, c) ==
    LET left == {i \in todo : Exists(d, i)}
        i == FirstOf(left)
    IN  /\ IF left # {}
           THEN /\ at' = "drop"
                /\ drop' = [todo |-> left \ {i}, then |-> then, for |-> i, on |-> i,
                            op |-> IF i = "cf" /\ then = "down" THEN "metadata" ELSE "mark"]
           ELSE at' = then /\ drop' = NoDrop
        /\ enabled' = c
        /\ UNCHANGED <<cur, scan, roll, work>>

\* The drop in progress goes on with another transaction.
NextOp(op, i) ==
    /\ drop' = [drop EXCEPT !.op = op, !.on = i]
    /\ UNCHANGED <<at, enabled, cur, scan, roll, work>>

\* Mutant: a drop is not marked before it begins.
MutMarked(d, i) == d

Marked(d, i) == [d EXCEPT !.dropping = d.dropping \cup {i}]

\* markIndexDeletion.  DropTxIndex then drops the address index, if it exists.
MarkIndexDeletion ==
    /\ at = "drop" /\ drop.op = "mark"
    /\ db' = Marked(db, drop.on)
    /\ CASE drop.on = "tx" /\ Exists(db, "addr") -> NextOp("mark", "addr")
         [] drop.on = "tx" /\ ~Exists(db, "addr") -> NextOp("empty", "tx")
         [] drop.on = "addr" -> NextOp("empty", "addr")
         [] drop.on = "cf" -> NextOp("metadata", "cf")
    /\ UNCHANGED <<err, past>>

\* incrementalFlatDrop, one entry for each transaction.
IncrementalFlatDrop ==
    /\ at = "drop" /\ drop.op = "empty"
    /\ \/ /\ drop.on = "tx"
          /\ \E t \in Tx : /\ db.txs[t] # None
                           /\ db' = [db EXCEPT !.txs = [db.txs EXCEPT ![t] = None]]
          /\ UNCHANGED <<memory, err, past>>
       \/ /\ drop.on = "tx" /\ \A t \in Tx : db.txs[t] = None
          /\ NextOp("ids", "tx") /\ UNCHANGED <<db, err, past>>
       \/ /\ drop.on = "addr" /\ db.addr # <<>>
          /\ db' = [db EXCEPT !.addr = Front(db.addr)]
          /\ UNCHANGED <<memory, err, past>>
       \/ /\ drop.on = "addr" /\ db.addr = <<>>
          /\ NextOp("metadata", "addr") /\ UNCHANGED <<db, err, past>>

\* dropBlockIDIndex.
DropBlockIDIndex ==
    /\ at = "drop" /\ drop.op = "ids"
    /\ IF db.idBuckets
       THEN /\ db' = [db EXCEPT !.idBuckets = FALSE, !.ids = EmptyDb.ids, !.hashes = EmptyDb.hashes]
            /\ NextOp("metadata", "tx")
            /\ UNCHANGED <<err, past>>
       ELSE Exit("no bucket")

WithoutIndex(d, i) ==
    [d EXCEPT !.tip = [d.tip EXCEPT ![i] = None],
              !.old = d.old \ {i}, !.dropping = d.dropping \ {i},
              !.txs = IF i = "tx" THEN EmptyDb.txs ELSE d.txs,
              !.addr = IF i = "addr" THEN <<>> ELSE d.addr,
              !.cf = IF i = "cf" THEN {} ELSE d.cf]

\* dropIndexMetadata, and what comes after the drop of an index.
DropIndexMetadata ==
    /\ at = "drop" /\ drop.op = "metadata"
    /\ db' = WithoutIndex(db, drop.on)
    /\ IF drop.on # drop.for THEN NextOp("empty", drop.for)
       ELSE NextDrop(db', drop.todo, drop.then, enabled)
    /\ UNCHANGED <<err, past>>

(***************************************************************************)
(* Manager.Init.                                                           *)
(***************************************************************************)

\* maybeCreateIndexes.
Create(d, c) ==
    LET new == {i \in c : ~Exists(d, i)} IN
    [d EXCEPT !.tip = [i \in Index |-> IF i \in new THEN Genesis ELSE d.tip[i]],
              !.idBuckets = d.idBuckets \/ "tx" \in new]

\* A start, perhaps of a newer version of the program.
Start(c, newer) ==
    /\ at = "down"
    /\ newer => past.events < MaxEvents
    /\ db' = IF newer THEN [db EXCEPT !.old = {i \in Index : Exists(db, i)}] ELSE db
    /\ IF c = {}
       THEN at' = "up" /\ UNCHANGED <<enabled, cur, drop, scan, roll, work>>
       ELSE NextDrop(db', c \cap db.dropping, "create", c)
    /\ past' = [past EXCEPT !.events = IF newer THEN past.events + 1 ELSE past.events]
    /\ err' = "none"

\* A start with an option that drops an index and exits.
StartDrop(i) ==
    /\ at = "down" /\ Exists(db, i) /\ past.events < MaxEvents
    /\ NextDrop(db, {i}, "down", {})
    /\ err' = "none"
    /\ past' = [past EXCEPT !.events = past.events + 1]
    /\ UNCHANGED db

\* maybeCreateIndexes, and what upgradeIndexes then has to drop.
CreateIndexes ==
    /\ at = "create"
    /\ IF "tx" \in enabled /\ ~Exists(db, "tx") /\ db.idBuckets THEN Exit("bucket exists")
       ELSE /\ db' = Create(db, enabled)
            /\ NextDrop(db', enabled \cap db.old, "recreate", enabled)
            /\ UNCHANGED <<err, past>>

\* The rollback of the enabled indexes begins.
BeginRollback ==
    /\ at' = "rollback"
    /\ roll' = [left |-> enabled, hash |-> Genesis, cached |-> None]
    /\ scan' = NoScan

\* Mutant: Init begins again after an upgrade.
MutRecreateIndexes ==
    /\ at = "recreate"
    /\ db' = Create(db, enabled)
    /\ at' = "create"
    /\ UNCHANGED <<enabled, cur, drop, scan, roll, work, err, past>>

\* maybeCreateIndexes after the upgrade, and the Init of the indexes, of which only
\* that of the transaction index does anything.
RecreateIndexes ==
    /\ at = "recreate"
    /\ db' = Create(db, enabled)
    /\ IF "tx" \in enabled THEN at' = "scan" /\ UNCHANGED <<scan, roll>> ELSE BeginRollback
    /\ UNCHANGED <<enabled, cur, drop, work, err, past>>

\* TxIndex.Init, the forward scan; the zero value of curBlockID stays when there
\* is no id.
ScanForward ==
    /\ at = "scan"
    /\ \/ /\ db.hashes[scan.next] # None
          /\ scan' = [known |-> scan.next, next |-> (scan.next + Increment) % IdSpace]
          /\ UNCHANGED <<at, roll>>
       \/ /\ db.hashes[scan.next] = None /\ scan.next = 1
          /\ BeginRollback
       \/ /\ db.hashes[scan.next] = None /\ scan.next # 1
          /\ at' = "search" /\ UNCHANGED <<scan, roll>>
    /\ UNCHANGED <<db, enabled, cur, drop, work, err, past>>

\* Mutant: the end of the forward scan is taken for the highest id.
MutBinarySearch ==
    /\ at = "search"
    /\ BeginRollback /\ cur' = scan.next
    /\ UNCHANGED <<db, enabled, drop, work, err, past>>

\* TxIndex.Init, one round of the binary search.
BinarySearch ==
    /\ at = "search"
    /\ LET id == ((scan.known + scan.next) % IdSpace) \div 2
           known == IF db.hashes[id] # None THEN id ELSE scan.known
           next == IF db.hashes[id] # None THEN scan.next ELSE id
       IN  IF (known + 1) % IdSpace = next
           THEN BeginRollback /\ cur' = known
           ELSE scan' = [known |-> known, next |-> next] /\ UNCHANGED <<at, cur, roll>>
    /\ UNCHANGED <<db, enabled, drop, work, err, past>>

\* The transaction that rolls back the index that is next begins.
FetchTip ==
    /\ at = "rollback"
    /\ at' = "loop"
    /\ roll' = [roll EXCEPT !.hash = db.tip[LastOf(roll.left)]]
    /\ work' = [db |-> db, cur |-> cur, err |-> "none"]
    /\ UNCHANGED <<db, enabled, cur, drop, scan, err, past>>

\* One block of the loop that brings an index back to the main chain.  After any
\* block the loop may be interrupted; what was done is committed then.
RollbackBlock ==
    /\ at = "loop" /\ roll.hash \notin MainChain(db)
    /\ LET i == LastOf(roll.left)
           block == IF roll.cached = None THEN roll.hash ELSE roll.cached
           x == DbIndexDisconnectBlock(MakeUtxoView(work, i, block), i, block)
       IN  IF block = Genesis THEN Exit("no parent")
           ELSE IF x.err # "none" THEN Exit(x.err)
           ELSE \/ /\ work' = x
                   /\ roll' = [roll EXCEPT !.hash = Parent[block], !.cached = Parent[block]]
                   /\ UNCHANGED <<db, at, enabled, cur, drop, scan, err, past>>
                \/ db' = x.db /\ GoDown /\ UNCHANGED <<err, past>>

\* Mutant: one index that is caught up is enough.
MutCaughtUp(d, c) == \E i \in c : Height[d.tip[i]] >= Len(d.chain)

CaughtUp(d, c) == \A i \in c : Height[d.tip[i]] >= Len(d.chain)

\* The tip of the index is on the main chain: the transaction commits.  After the
\* last index, Init catches up or is finished.
CommitRollback ==
    /\ at = "loop" /\ roll.hash \in MainChain(db)
    /\ LET left == roll.left \ {LastOf(roll.left)} IN
       /\ db' = work.db /\ cur' = work.cur /\ work' = NoWork
       /\ IF left # {} THEN at' = "rollback" /\ roll' = [roll EXCEPT !.left = left]
          ELSE /\ at' = IF CaughtUp(db', enabled) THEN "up" ELSE "catchup"
               /\ roll' = NoRoll
    /\ UNCHANGED <<enabled, drop, scan, err, past>>

\* The next block is connected to the indexes that do not have it.
CatchUp ==
    /\ at = "catchup"
    /\ \E h \in 1..Len(db.chain) :
          /\ \E i \in enabled : Height[db.tip[i]] = h - 1
          /\ \A i \in enabled : Height[db.tip[i]] >= h - 1
          /\ LET b == db.chain[h]
                 behind == {i \in enabled : Height[db.tip[i]] < h}
                 connect(x, i) == DbIndexConnectBlock(MakeUtxoView(x, i, b), i, b)
                 x == ForEach(connect, [db |-> db, cur |-> cur, err |-> "none"], behind)
             IN  IF x.err # "none" THEN Exit(x.err)
                 ELSE /\ db' = x.db /\ cur' = x.cur
                      /\ at' = IF CaughtUp(db', enabled) THEN "up" ELSE "catchup"
                      /\ UNCHANGED <<enabled, drop, scan, roll, work, err, past>>

(***************************************************************************)
(* The chain changes, and the indexes with it.                             *)
(***************************************************************************)

\* The transaction of a block: it commits, or the manager returns an error, or
\* the commit fails.  What an index has in memory is not undone.
Transaction(x, chain) ==
    /\ \/ /\ x.err = "none"
          /\ db' = [x.db EXCEPT !.chain = chain]
          /\ err' = err
          /\ past' = [past EXCEPT !.twice = past.twice \/ \E i, j \in DOMAIN chain :
                                    i < j /\ Txs[chain[i]] \cap Txs[chain[j]] # {}]
       \/ /\ x.err # "none"
          /\ err' = x.err
          /\ UNCHANGED <<db, past>>
       \/ /\ x.err = "none" /\ past.events < MaxEvents
          /\ past' = [past EXCEPT !.events = past.events + 1, !.failed = TRUE]
          /\ UNCHANGED <<db, err>>
    /\ cur' = x.cur
    /\ UNCHANGED <<at, enabled, drop, scan, roll, work>>

\* connectBlock and Manager.ConnectBlock.
ConnectBlock(b) ==
    /\ at = "up" /\ b # Genesis /\ Parent[b] = Tip(db.chain)
    /\ LET connect(x, i) == DbIndexConnectBlock(x, i, b)
       IN  Transaction(ForEach(connect, [db |-> db, cur |-> cur, err |-> "none"], enabled),
                       Append(db.chain, b))

\* disconnectBlock and Manager.DisconnectBlock.
DisconnectBlock ==
    /\ at = "up" /\ db.chain # <<>>
    /\ LET disconnect(x, i) == DbIndexDisconnectBlock(x, i, Tip(db.chain))
       IN  Transaction(ForEach(disconnect, [db |-> db, cur |-> cur, err |-> "none"], enabled),
                       Front(db.chain))

\* The process ends, in order or not.
Stop == at # "down" /\ GoDown /\ UNCHANGED <<db, err, past>>

InitStep ==
    \/ MarkIndexDeletion \/ IncrementalFlatDrop \/ DropBlockIDIndex \/ DropIndexMetadata
    \/ CreateIndexes \/ RecreateIndexes \/ ScanForward \/ BinarySearch
    \/ FetchTip \/ RollbackBlock \/ CommitRollback \/ CatchUp

Next ==
    \/ \E c \in Configs, newer \in BOOLEAN : Start(c, newer)
    \/ \E i \in Index : StartDrop(i)
    \/ InitStep
    \/ \E b \in Block : ConnectBlock(b)
    \/ DisconnectBlock
    \/ Stop

Spec == Init /\ [][Next]_vars

\* Manager.Init is a sequential function that runs to its end: weak fairness of
\* its steps, which are enabled while it runs.
FairSpec == Spec /\ ([]<>(at \in {"down", "up"}) \/ []<><<InitStep>>_vars)

(***************************************************************************)
(* Properties.                                                             *)
(***************************************************************************)

\* While the process runs, every enabled index has the tip of the main chain and
\* is not on its way to be dropped, whatever happened before the start.
IndexesFollowChain ==
    at = "up" => \A i \in enabled : db.tip[i] = Tip(db.chain) /\ i \notin db.dropping

Whole(d, i) == Exists(d, i) /\ i \notin d.dropping
UpTo(b) == Anc[b] \ {Genesis}

\* The tip of an index says what the index holds: the blocks of the branch that
\* ends there and no others, also after a crash or an interrupt in Init, and
\* while the index is disabled.
ContentsMatchTip ==
    /\ Whole(db, "cf") => db.cf = UpTo(db.tip["cf"])
    /\ Whole(db, "addr") => Len(db.addr) = Height[db.tip["addr"]]
    /\ Whole(db, "tx") => /\ {b \in Block : db.ids[b] # None} = UpTo(db.tip["tx"])
                          /\ ~past.twice => {t \in Tx : db.txs[t] # None} =
                                               UNION {Txs[b] : b \in UpTo(db.tip["tx"])}

\* An entry of the transaction index leads, through the internal block ids, to a
\* block of the branch of the index that has the transaction.
TxIndexResolves ==
    ~past.failed /\ Whole(db, "tx") =>
       \A t \in Tx : db.txs[t] # None =>
          /\ db.hashes[db.txs[t]] \in UpTo(db.tip["tx"])
          /\ t \in Txs[db.hashes[db.txs[t]]]

\* The entries of the address index lead to the blocks they were made for, also
\* when the transaction index gave up and reused block ids in the meantime.
AddrIndexResolves ==
    ~past.failed /\ at = "up" /\ "addr" \in enabled =>
       \A k \in DOMAIN db.addr : db.hashes[db.addr[k]] = db.chain[k]

\* Internal block ids, which TxIndex gives out from a counter in memory, lead from
\* every entry of both indexes to the block that the entry was made for.
IdsResolve == TxIndexResolves /\ AddrIndexResolves

\* Init ends: the process is up, or it has stopped.
InitEnds == at # "down" ~> at \in {"up", "down"}

\* Manager.Init: "Rollback indexes to the main chain if their tip is an orphaned
\* fork."  The rollback never meets a block that is not the tip of the index.
RollbackFindsTip == err \notin {"assertion", "no parent"}

\* DropTxIndex: "Mark that the index is in the process of being dropped so that it
\* can be resumed on the next start if interrupted before the process is complete."
DropResumes == err # "no bucket"

=============================================================================
