------------------------------ MODULE BlockChain ------------------------------
(***************************************************************************)
(* The block chain core of package blockchain: block acceptance            *)
(* (process.go, accept.go), the block index with its validation status     *)
(* (blockindex.go), best chain selection and reorganisation (chain.go), the*)
(* orphan pool, and what each of these leaves in the database (chainio.go).*)
(*                                                                         *)
(* Every call that changes the chain is made by the block manager's single *)
(* goroutine under chainLock, so at most one call is in progress.  A call  *)
(* is split where the code commits a database transaction: those are the   *)
(* points where a crash or a database error leaves a distinct state.       *)
(*                                                                         *)
(* Blocks are abstract.  The tree they form, their cumulative work and     *)
(* which rules they break are constants: a header determines all of them.  *)
(* Every indexed node carries statusDataStored, so the status kept here is *)
(* the set of the other three flags.                                       *)
(***************************************************************************)
EXTENDS Integers, FiniteSets, Sequences

CONSTANTS
    Block,          \* every block the node may ever be given
    Genesis,        \* the genesis block
    None,           \* stands for a nil pointer
    Parent,         \* [Block -> Block]: header.PrevBlock
    Anc,            \* [Block -> SUBSET Block]: the block and its ancestors
    WorkSum,        \* [Block -> Nat]: node.workSum
    Bad,            \* blocks checkConnectBlock finds in violation of a rule
    MissingInputs,  \* those of Bad that view.connectBlock cannot apply
    Misplaced,      \* [BOOLEAN -> SUBSET Block]: blocks the positional and
                    \* contextual checks reject, with and without BFFastAdd
    Disapproves,    \* blocks whose votes disapprove the parent's regular tree
    FastAddable,    \* blocks linked to a checkpoint by verified headers
    MaxOrphans,     \* maxOrphanBlocks
    MaxCrashes,     \* bound on crashes
    MaxDbErrors     \* bound on failed database transactions

Flag == {"valid", "failed", "ancestor"}

ASSUME TreeAssumption ==
    /\ Genesis \in Block
    /\ None \notin Block
    /\ Parent \in [Block -> Block]
    /\ Parent[Genesis] = Genesis
    /\ Anc \in [Block -> SUBSET Block]
    /\ Anc[Genesis] = {Genesis}
    /\ \A b \in Block : Genesis \in Anc[b]
    /\ \A b \in Block \ {Genesis} :
          /\ b \notin Anc[Parent[b]]
          /\ Anc[b] = Anc[Parent[b]] \cup {b}
    /\ \A b \in Block : \A a \in Anc[b] :
          /\ Anc[a] \subseteq Anc[b]
          /\ \A c \in Anc[b] : a \in Anc[c] \/ c \in Anc[a]

(* Branches are finite, so any set of blocks of one has a highest block. *)
ASSUME BranchAssumption ==
    \A b \in Block : \A bs \in (SUBSET Anc[b]) \ {{}} : \E n \in bs : bs \subseteq Anc[n]

ASSUME WorkAssumption ==
    /\ WorkSum \in [Block -> Nat]
    /\ \A b \in Block \ {Genesis} : WorkSum[Parent[b]] < WorkSum[b]

(* Genesis and the blocks below a checkpoint satisfy every rule, BFFastAdd  *)
(* never adds a check, and a block whose parent is the genesis block cannot *)
(* disapprove it (earlyVoteBitsValue).                                      *)
ASSUME RuleAssumption ==
    /\ Bad \subseteq Block \ {Genesis}
    /\ MissingInputs \subseteq Bad
    /\ Misplaced \in [BOOLEAN -> SUBSET Block]
    /\ Misplaced[TRUE] \subseteq Misplaced[FALSE]
    /\ FastAddable \subseteq Block \ Bad
    /\ Disapproves \subseteq Block
    /\ \A b \in Disapproves : Parent[b] # Genesis

ASSUME BoundAssumption ==
    /\ MaxOrphans \in Nat \ {0}
    /\ MaxCrashes \in Nat
    /\ MaxDbErrors \in Nat

VARIABLES
    index,      \* blockIndex.index: the blocks with a node
    status,     \* [Block -> SUBSET Flag]: blockNode.status
    modified,   \* blockIndex.modified: nodes not yet written to the database
    tip,        \* bestChain.Tip()
    orphans,    \* the orphan pool, in order of arrival
    oldest,     \* oldestOrphan: a block or None, possibly no longer pooled
    db,         \* the committed database
    disk,       \* the database as last flushed by the ffldb cache
    pc,         \* the step the running call takes next
    cur,        \* the block maybeAcceptBlock is working on
    fast,       \* the call carries BFFastAdd
    queue,      \* processHashes of processOrphans
    target,     \* targetTip of the running reorganizeChainInternal
    orig,       \* origTip of the running reorganizeChain
    phase,      \* "fwd" reorganising to the new tip, "rev" back to origTip
    crashes,    \* crashes so far
    dbErrors    \* failed database transactions so far

memVars  == <<index, status, modified, tip>>
poolVars == <<orphans, oldest>>
dbVars   == <<db, disk>>
callVars == <<pc, cur, fast, queue>>
reorgVars == <<target, orig, phase>>
faultVars == <<crashes, dbErrors>>
vars == <<memVars, poolVars, dbVars, callVars, reorgVars, faultVars>>

-----------------------------------------------------------------------------
(* blockStatus, the block tree and the utxo set *)

KnownValid(b) == "valid" \in status[b]
KnownInvalid(b) == status[b] \cap {"failed", "ancestor"} # {}

(* status with flags added to every block of bs: SetStatusFlags *)
WithFlag(st, bs, flag) == [b \in Block |-> IF b \in bs THEN st[b] \cup {flag} ELSE st[b]]

(* The nodes SetStatusFlags puts in blockIndex.modified: those it changes. *)
Touched(bs, flag) == {b \in bs : flag \notin status[b]}

(* The trees of transactions the utxo set reflects: the stake tree of every *)
(* connected block, and its regular tree unless its successor disapproved.  *)
Tree(b, kind) == <<b, kind>>
UtxoTrees == (Block \ {Genesis}) \X {"regular", "stake"}

(* view.connectBlock: a disapproving block first takes the parent's regular *)
(* transactions out, then the block's own two trees go in.                  *)
ConnectUtxos(utxo, b) ==
    (IF b \in Disapproves THEN utxo \ {Tree(Parent[b], "regular")} ELSE utxo)
        \cup {Tree(b, "regular"), Tree(b, "stake")}

(* view.disconnectBlock: the reverse of connectBlock. *)
DisconnectUtxos(utxo, b) ==
    (utxo \ {Tree(b, "regular"), Tree(b, "stake")})
        \cup (IF b \in Disapproves THEN {Tree(Parent[b], "regular")} ELSE {})

-----------------------------------------------------------------------------
(* Database transactions *)

(* flushBlockIndex: every modified node is rewritten with its status. *)
Flushed(d, mod, idx, st) ==
    [d EXCEPT !.index = @ \cup (mod \cap idx),
              !.status = [b \in Block |-> IF b \in mod THEN st[b] ELSE d.status[b]]]

(* The transaction of connectBlock. *)
DbConnect(d, b) ==
    [d EXCEPT !.tip = b,
              !.work = WorkSum[b],
              !.utxo = ConnectUtxos(@, b),
              !.spend = @ \cup {b}]

(* The transaction of disconnectBlock.  The work it stores with the parent  *)
(* is that of the block being disconnected.                                 *)
DbDisconnect(d, b) ==
    [d EXCEPT !.tip = Parent[b],
              !.work = WorkSum[b],
              !.utxo = DisconnectUtxos(@, b),
              !.spend = @ \ {b}]

(* createChainState *)
FreshDb ==
    [blocks |-> {Genesis},
     index  |-> {Genesis},
     status |-> [b \in Block |-> IF b = Genesis THEN {"valid"} ELSE {}],
     tip    |-> Genesis,
     work   |-> WorkSum[Genesis],
     utxo   |-> {},
     spend  |-> {}]

Init ==
    /\ db = FreshDb
    /\ disk = FreshDb
    /\ index = FreshDb.index
    /\ status = FreshDb.status
    /\ modified = {}
    /\ tip = Genesis
    /\ orphans = <<>>
    /\ oldest = None
    /\ pc = "idle"
    /\ cur = None
    /\ fast = FALSE
    /\ queue = <<>>
    /\ target = None
    /\ orig = None
    /\ phase = "fwd"
    /\ crashes = 0
    /\ dbErrors = 0

-----------------------------------------------------------------------------
(* How a call ends *)

(* The call returns to its caller and leaves no trace of its locals. *)
Return ==
    /\ pc' = "idle"
    /\ cur' = None
    /\ fast' = FALSE
    /\ queue' = <<>>
    /\ target' = None
    /\ orig' = None
    /\ phase' = "fwd"

(* maybeAcceptBlock succeeds: processOrphans looks for children of cur. *)
Accepted ==
    /\ pc' = "orphans"
    /\ cur' = None
    /\ queue' = Append(queue, cur)
    /\ target' = None
    /\ orig' = None
    /\ phase' = "fwd"
    /\ UNCHANGED fast

(* A database transaction fails and the call goes on with the error. *)
DbError ==
    /\ dbErrors < MaxDbErrors
    /\ dbErrors' = dbErrors + 1
    /\ UNCHANGED crashes

(* Mutant: a failed write forgets which nodes are modified. *)
FlushWarnOnlyForgets(st, mod) ==
    \/ /\ db' = Flushed(db, mod, index, st)
       /\ modified' = {}
       /\ UNCHANGED faultVars
    \/ /\ mod # {}
       /\ DbError
       /\ modified' = {}
       /\ UNCHANGED db

(* flushBlockIndexWarnOnly: when the write fails it is only logged, and the *)
(* nodes stay modified.  st and mod are the index as it is to be written.   *)
FlushWarnOnly(st, mod) ==
    \/ /\ db' = Flushed(db, mod, index, st)
       /\ modified' = {}
       /\ UNCHANGED faultVars
    \/ /\ mod # {}
       /\ DbError
       /\ modified' = mod
       /\ UNCHANGED db

-----------------------------------------------------------------------------
(* The orphan pool *)

InPool(b) == \E i \in 1..Len(orphans) : orphans[i] = b

Without(pool, i) == SubSeq(pool, 1, i - 1) \o SubSeq(pool, i + 1, Len(pool))

(* removeOrphanBlock finds the entry by hash. *)
removeOrphanBlock(pool, b) ==
    IF \E i \in 1..Len(pool) : pool[i] = b
    THEN Without(pool, CHOOSE i \in 1..Len(pool) : pool[i] = b)
    ELSE pool

(* Mutant: oldestOrphan is not cleared by an eviction. *)
addOrphanBlockKeepsOldest(b) ==
    \E k \in 0..Len(orphans) :
        LET live   == SubSeq(orphans, k + 1, Len(orphans))
            marked == IF oldest = None /\ live # <<>> THEN Head(live) ELSE oldest
            full   == Len(live) + 1 > MaxOrphans
        IN  /\ orphans' = Append(IF full THEN removeOrphanBlock(live, marked) ELSE live, b)
            /\ oldest' = marked

(* addOrphanBlock.  Expiration times grow in order of arrival, so the      *)
(* expired orphans are the first k.  oldestOrphan was the oldest orphan    *)
(* when it was set, later arrivals are younger, and nothing resets it when *)
(* its block leaves the pool: the Before test can only replace nil.        *)
addOrphanBlock(b) ==
    \E k \in 0..Len(orphans) :
        LET live   == SubSeq(orphans, k + 1, Len(orphans))
            marked == IF oldest = None /\ live # <<>> THEN Head(live) ELSE oldest
            full   == Len(live) + 1 > MaxOrphans
        IN  /\ orphans' = Append(IF full THEN removeOrphanBlock(live, marked) ELSE live, b)
            /\ oldest' = IF full THEN None ELSE marked

-----------------------------------------------------------------------------
(* ProcessBlock.  The early returns (a duplicate, a block that is not sane) *)
(* change nothing.                                                          *)

ProcessOrphanBlock(b) ==
    /\ pc = "idle"
    /\ b \notin index
    /\ ~InPool(b)
    /\ Parent[b] \notin index
    /\ addOrphanBlock(b)
    /\ UNCHANGED <<memVars, dbVars, callVars, reorgVars, faultVars>>

(* Mutants: a pooled orphan is processed again; any block may skip checks. *)
ProcessBlockAgain(b, f) ==
    /\ pc = "idle"
    /\ b \notin index
    /\ f => b \in FastAddable
    /\ Parent[b] \in index
    /\ pc' = "accept"
    /\ cur' = b
    /\ fast' = f
    /\ UNCHANGED <<memVars, poolVars, dbVars, queue, reorgVars, faultVars>>

ProcessBlockAnyFast(b, f) ==
    /\ pc = "idle"
    /\ b \notin index
    /\ ~InPool(b)
    /\ Parent[b] \in index
    /\ pc' = "accept"
    /\ cur' = b
    /\ fast' = f
    /\ UNCHANGED <<memVars, poolVars, dbVars, queue, reorgVars, faultVars>>

ProcessBlock(b, f) ==
    /\ pc = "idle"
    /\ b \notin index
    /\ ~InPool(b)
    /\ f => b \in FastAddable
    /\ Parent[b] \in index
    /\ pc' = "accept"
    /\ cur' = b
    /\ fast' = f
    /\ UNCHANGED <<memVars, poolVars, dbVars, queue, reorgVars, faultVars>>

(* processOrphans: the first remaining orphan whose parent is at the head of *)
(* the queue leaves the pool and goes through maybeAcceptBlock with the      *)
(* flags of the call.                                                        *)
ProcessNextOrphan ==
    /\ pc = "orphans"
    /\ \E i \in 1..Len(orphans) :
          /\ Parent[orphans[i]] = Head(queue)
          /\ \A j \in 1..(i - 1) : Parent[orphans[j]] # Head(queue)
          /\ orphans' = removeOrphanBlock(orphans, orphans[i])
          /\ cur' = orphans[i]
    /\ pc' = "accept"
    /\ UNCHANGED <<memVars, oldest, dbVars, fast, queue, reorgVars, faultVars>>

(* Mutant: a processed hash stays at the head of the queue. *)
ProcessOrphansSameHash ==
    /\ pc = "orphans"
    /\ \A i \in 1..Len(orphans) : Parent[orphans[i]] # Head(queue)
    /\ IF Len(queue) = 1 THEN Return ELSE UNCHANGED <<callVars, reorgVars>>
    /\ UNCHANGED <<memVars, poolVars, dbVars, faultVars>>

ProcessOrphansNextHash ==
    /\ pc = "orphans"
    /\ \A i \in 1..Len(orphans) : Parent[orphans[i]] # Head(queue)
    /\ IF Len(queue) = 1
       THEN Return
       ELSE /\ queue' = Tail(queue)
            /\ UNCHANGED <<pc, cur, fast, reorgVars>>
    /\ UNCHANGED <<memVars, poolVars, dbVars, faultVars>>

-----------------------------------------------------------------------------
(* maybeAcceptBlock *)

AcceptChecksPass ==
    /\ ~KnownInvalid(Parent[cur])
    /\ cur \notin Misplaced[fast]

RejectBlock ==
    /\ pc = "accept"
    /\ ~AcceptChecksPass
    /\ Return
    /\ UNCHANGED <<memVars, poolVars, dbVars, faultVars>>

(* dbMaybeStoreBlock, in a transaction of its own. *)
StoreBlock ==
    /\ pc = "accept"
    /\ AcceptChecksPass
    /\ db' = [db EXCEPT !.blocks = @ \cup {cur}]
    /\ pc' = "index"
    /\ UNCHANGED <<memVars, poolVars, disk, cur, fast, queue, reorgVars, faultVars>>

(* AddNode, then flushBlockIndex.  The node is in the index whether or not  *)
(* it could be written.                                                     *)
AddNode ==
    /\ index' = index \cup {cur}
    /\ status' = [status EXCEPT ![cur] = {}]

IndexBlock ==
    /\ pc = "index"
    /\ AddNode
    /\ db' = Flushed(db, modified \cup {cur}, index', status')
    /\ modified' = {}
    /\ pc' = "best"
    /\ UNCHANGED <<tip, poolVars, disk, cur, fast, queue, reorgVars, faultVars>>

IndexBlockFails ==
    /\ pc = "index"
    /\ DbError
    /\ AddNode
    /\ modified' = modified \cup {cur}
    /\ Return
    /\ UNCHANGED <<tip, poolVars, dbVars>>

-----------------------------------------------------------------------------
(* connectBestChain *)

(* The block extends the best chain and checkConnectBlock refuses it. *)
ExtendInvalid ==
    /\ pc = "best"
    /\ Parent[cur] = tip
    /\ ~fast /\ ~KnownValid(cur)
    /\ cur \in Bad
    /\ status' = WithFlag(status, {cur}, "failed")
    /\ FlushWarnOnly(status', modified \cup Touched({cur}, "failed"))
    /\ Return
    /\ UNCHANGED <<index, tip, poolVars, disk>>

(* The block extends the best chain and passes, or skips, the check. *)
ExtendValid ==
    /\ pc = "best"
    /\ Parent[cur] = tip
    /\ fast \/ KnownValid(cur) \/ cur \notin Bad
    /\ status' = WithFlag(status, {cur}, "valid")
    /\ FlushWarnOnly(status', modified \cup Touched({cur}, "valid"))
    /\ pc' = "connect"
    /\ UNCHANGED <<index, tip, poolVars, disk, cur, fast, queue, reorgVars>>

(* The block is on a side chain without more work than the best chain. *)
StaySideChain ==
    /\ pc = "best"
    /\ Parent[cur] # tip
    /\ WorkSum[cur] <= WorkSum[tip]
    /\ Accepted
    /\ UNCHANGED <<memVars, poolVars, dbVars, faultVars>>

(* Mutant: the index is not flushed first. *)
ConnectBlockUnflushed ==
    /\ pc = "connect"
    /\ cur \notin MissingInputs
    /\ db' = DbConnect(db, cur)
    /\ tip' = cur
    /\ Accepted
    /\ UNCHANGED <<index, status, modified, poolVars, disk, faultVars>>

(* connectBlock on behalf of connectBestChain, once the index is flushed. *)
ConnectBlock ==
    /\ pc = "connect"
    /\ cur \notin MissingInputs
    /\ modified = {}
    /\ db' = DbConnect(db, cur)
    /\ tip' = cur
    /\ Accepted
    /\ UNCHANGED <<index, status, modified, poolVars, disk, faultVars>>

(* connectBlock computes the next stake difficulty again for the tickets'    *)
(* notifications.  When that fails the call ends with an error, although the *)
(* block is connected, and its orphans stay in the pool.                     *)
ConnectBlockLateError ==
    /\ pc = "connect"
    /\ cur \notin MissingInputs
    /\ modified = {}
    /\ DbError
    /\ db' = DbConnect(db, cur)
    /\ tip' = cur
    /\ Return
    /\ UNCHANGED <<index, status, modified, poolVars, disk>>

(* In the fast add case the inputs are only looked for now, when the block  *)
(* is already marked valid.  A missing one is no rule error.                *)
FastConnectFails ==
    /\ pc = "connect"
    /\ cur \in MissingInputs
    /\ Return
    /\ UNCHANGED <<memVars, poolVars, dbVars, faultVars>>

(* A database access of maybeAcceptBlock, connectBestChain or connectBlock  *)
(* fails: the error is returned and no block is marked.                     *)
CallDbError ==
    /\ pc \in {"accept", "best", "connect"}
    /\ DbError
    /\ Return
    /\ UNCHANGED <<memVars, poolVars, dbVars>>

-----------------------------------------------------------------------------
-----------------------------------------------------------------------------
(* reorganizeChain and reorganizeChainInternal *)

(* Mutant: a block that is not yet known valid counts as invalid. *)
PathNotValid(t) == {n \in Anc[t] \ Anc[tip] : ~KnownValid(n)}

(* reorganizeChainInternal walks from its target down to the fork point.   *)
(* The first known invalid block it meets, if any, refuses the reorganise. *)
PathInvalid(t) == {n \in Anc[t] \ Anc[tip] : KnownInvalid(n)}
FirstInvalid(t) == CHOOSE n \in PathInvalid(t) : PathInvalid(t) \subseteq Anc[n]

(* reorganizeChain(t) up to the end of that walk.  When the walk is refused *)
(* the reorganise back to origTip has nothing to do.                        *)
StartReorg(t) ==
    /\ orig' = tip
    /\ IF PathInvalid(t) = {}
       THEN /\ target' = t
            /\ phase' = "fwd"
            /\ pc' = "reorg"
            /\ UNCHANGED <<status, modified>>
       ELSE LET marked == Anc[t] \ Anc[FirstInvalid(t)]
            IN  /\ target' = tip
                /\ phase' = "rev"
                /\ pc' = "settle"
                /\ status' = WithFlag(status, marked, "ancestor")
                /\ modified' = modified \cup Touched(marked, "ancestor")
    /\ UNCHANGED <<index, tip, poolVars, dbVars, queue, faultVars>>

ReorgToMoreWork ==
    /\ pc = "best"
    /\ Parent[cur] # tip
    /\ WorkSum[cur] > WorkSum[tip]
    /\ StartReorg(cur)
    /\ UNCHANGED <<cur, fast>>

(* forceHeadReorganization to a sibling of the current tip. *)
ForceHeadReorganization(b) ==
    /\ pc = "idle"
    /\ b \in index
    /\ b # tip
    /\ b # Genesis /\ tip # Genesis /\ Parent[b] = Parent[tip]
    /\ ~KnownInvalid(b)
    /\ StartReorg(b)
    /\ UNCHANGED <<cur, fast>>

(* Mutants: the first failure is fatal; nothing is rolled back. *)
ReorgFailsAtOnce(st) ==
    /\ pc' = "panic"
    /\ UNCHANGED reorgVars

ReorgFailsNoRollback(st) ==
    /\ pc' = "settle"
    /\ phase' = "rev"
    /\ target' = tip
    /\ UNCHANGED orig

(* reorganizeChainInternal returns an error.  On the way forward the chain   *)
(* is reorganised back to origTip; on the way back reorganizeChain panics.   *)
(* st is the status of the index at that point.                              *)
ReorgFails(st) ==
    LET lost == \E n \in Anc[orig] \ Anc[tip] : st[n] \cap {"failed", "ancestor"} # {}
    IN  IF phase = "fwd" /\ ~lost
        THEN /\ phase' = "rev"
             /\ target' = orig
             /\ UNCHANGED <<pc, orig>>
        ELSE /\ pc' = "panic"
             /\ UNCHANGED reorgVars

(* disconnectBlock: the tip is not on the target's branch. *)
DetachBlock ==
    /\ pc = "reorg"
    /\ tip \notin Anc[target]
    /\ modified = {}
    /\ db' = DbDisconnect(db, tip)
    /\ tip' = Parent[tip]
    /\ UNCHANGED <<index, status, modified, poolVars, disk, callVars, reorgVars, faultVars>>

(* The next block to attach after the tip. *)
NextAttach(n) ==
    /\ pc = "reorg"
    /\ tip \in Anc[target]
    /\ n \in Anc[target] \ {Genesis}
    /\ Parent[n] = tip

(* Mutant: the new tip is marked valid with the first block of its branch. *)
AttachCheckMarksTarget(n) ==
    /\ NextAttach(n)
    /\ ~KnownValid(n)
    /\ n \notin Bad
    /\ status' = WithFlag(status, {n, target}, "valid")
    /\ modified' = modified \cup {n, target}
    /\ UNCHANGED <<index, tip, poolVars, dbVars, callVars, reorgVars, faultVars>>

AttachCheckPasses(n) ==
    /\ NextAttach(n)
    /\ ~KnownValid(n)
    /\ n \notin Bad
    /\ status' = WithFlag(status, {n}, "valid")
    /\ modified' = modified \cup {n}
    /\ UNCHANGED <<index, tip, poolVars, dbVars, callVars, reorgVars, faultVars>>

(* Mutant: the failing block is marked as having an invalid ancestor too. *)
AttachCheckMarksAll(n) ==
    /\ NextAttach(n)
    /\ ~KnownValid(n)
    /\ n \in Bad
    /\ LET rest == Anc[target] \ Anc[tip]
       IN  /\ status' = WithFlag(WithFlag(status, {n}, "failed"), rest, "ancestor")
           /\ modified' = modified \cup Touched({n}, "failed") \cup Touched(rest, "ancestor")
    /\ ReorgFails(status')
    /\ UNCHANGED <<index, tip, poolVars, dbVars, cur, fast, queue, faultVars>>

AttachCheckFails(n) ==
    /\ NextAttach(n)
    /\ ~KnownValid(n)
    /\ n \in Bad
    /\ LET rest == Anc[target] \ Anc[n]
       IN  /\ status' = WithFlag(WithFlag(status, {n}, "failed"), rest, "ancestor")
           /\ modified' = modified \cup Touched({n}, "failed") \cup Touched(rest, "ancestor")
    /\ ReorgFails(status')
    /\ UNCHANGED <<index, tip, poolVars, dbVars, cur, fast, queue, faultVars>>

(* Mutant: a block is attached without its check. *)
AttachBlockUnchecked(n) ==
    /\ NextAttach(n)
    /\ modified = {}
    /\ db' = DbConnect(db, n)
    /\ tip' = n
    /\ UNCHANGED <<index, status, modified, poolVars, disk, callVars, reorgVars, faultVars>>

AttachBlock(n) ==
    /\ NextAttach(n)
    /\ KnownValid(n)
    /\ n \notin MissingInputs
    /\ modified = {}
    /\ db' = DbConnect(db, n)
    /\ tip' = n
    /\ UNCHANGED <<index, status, modified, poolVars, disk, callVars, reorgVars, faultVars>>

(* The late error of connectBlock, in a reorganise: the block is attached. *)
AttachBlockLateError(n) ==
    /\ NextAttach(n)
    /\ KnownValid(n)
    /\ n \notin MissingInputs
    /\ modified = {}
    /\ DbError
    /\ db' = DbConnect(db, n)
    /\ tip' = n
    /\ ReorgFails(status)
    /\ UNCHANGED <<index, status, modified, poolVars, disk, cur, fast, queue>>

(* A block that is marked valid is not checked again, but its inputs may be *)
(* missing if BFFastAdd skipped the check.                                  *)
AttachMissingInputs(n) ==
    /\ NextAttach(n)
    /\ KnownValid(n)
    /\ n \in MissingInputs
    /\ ReorgFails(status)
    /\ UNCHANGED <<memVars, poolVars, dbVars, cur, fast, queue, faultVars>>

(* The flushBlockIndex with which connectBlock and disconnectBlock begin. *)
FlushBlockIndex ==
    /\ \/ pc = "connect" /\ cur \notin MissingInputs
       \/ pc = "reorg" /\ tip \notin Anc[target]
       \/ \E n \in Block \ MissingInputs : NextAttach(n) /\ KnownValid(n)
    /\ modified # {}
    /\ db' = Flushed(db, modified, index, status)
    /\ modified' = {}
    /\ UNCHANGED <<index, status, tip, poolVars, disk, callVars, reorgVars, faultVars>>

(* Any database access of the reorganise fails: no block is marked. *)
ReorgDbError ==
    /\ pc = "reorg"
    /\ tip # target
    /\ DbError
    /\ ReorgFails(status)
    /\ UNCHANGED <<memVars, poolVars, dbVars, cur, fast, queue>>

ReorgDone ==
    /\ pc = "reorg"
    /\ tip = target
    /\ pc' = "settle"
    /\ UNCHANGED <<memVars, poolVars, dbVars, cur, fast, queue, reorgVars, faultVars>>

(* The flush that follows reorganizeChain, and the return of its error. *)
SettleReorg ==
    /\ pc = "settle"
    /\ FlushWarnOnly(status, modified)
    /\ IF phase = "fwd" /\ cur # None THEN Accepted ELSE Return
    /\ UNCHANGED <<index, status, tip, poolVars, disk>>

-----------------------------------------------------------------------------
(* Durability.  ffldb keeps committed transactions in a cache that it       *)
(* flushes as a whole; a crash loses what was committed since.              *)

FlushCache ==
    /\ crashes < MaxCrashes
    /\ disk # db
    /\ disk' = db
    /\ UNCHANGED <<memVars, poolVars, db, callVars, reorgVars, faultVars>>

(* The process stops at any point and initChainState reloads what the disk  *)
(* holds.                                                                   *)
Restart ==
    /\ crashes < MaxCrashes
    /\ crashes' = crashes + 1
    /\ db' = disk
    /\ index' = disk.index
    /\ status' = disk.status
    /\ modified' = {}
    /\ tip' = disk.tip
    /\ orphans' = <<>>
    /\ oldest' = None
    /\ Return
    /\ UNCHANGED <<disk, dbErrors>>

-----------------------------------------------------------------------------
CallStep ==
    \/ ProcessNextOrphan
    \/ ProcessOrphansNextHash
    \/ RejectBlock
    \/ StoreBlock
    \/ IndexBlock
    \/ IndexBlockFails
    \/ ExtendInvalid
    \/ ExtendValid
    \/ StaySideChain
    \/ ConnectBlock
    \/ ConnectBlockLateError
    \/ FastConnectFails
    \/ CallDbError
    \/ ReorgToMoreWork
    \/ DetachBlock
    \/ \E n \in Block : AttachCheckPasses(n)
    \/ \E n \in Block : AttachCheckFails(n)
    \/ \E n \in Block : AttachBlock(n)
    \/ \E n \in Block : AttachBlockLateError(n)
    \/ \E n \in Block : AttachMissingInputs(n)
    \/ FlushBlockIndex
    \/ ReorgDbError
    \/ ReorgDone
    \/ SettleReorg

Next ==
    \/ \E b \in Block : ProcessOrphanBlock(b)
    \/ \E b \in Block, f \in BOOLEAN : ProcessBlock(b, f)
    \/ \E b \in Block : ForceHeadReorganization(b)
    \/ CallStep
    \/ FlushCache
    \/ Restart

Spec == Init /\ [][Next]_vars

(* The goroutine that runs a call keeps running it. *)
FairSpec == Spec /\ WF_vars(CallStep)

-----------------------------------------------------------------------------
(* Properties *)

BlockOrNone == Block \cup {None}
Phase == {"fwd", "rev"}
Step == {"idle", "accept", "index", "best", "connect", "orphans", "reorg", "settle", "panic"}
Database ==
    [blocks : SUBSET Block, index : SUBSET Block, status : [Block -> SUBSET Flag],
     tip : Block, work : Nat, utxo : SUBSET UtxoTrees, spend : SUBSET Block]

(* The type invariant. *)
TypeOK ==
    /\ index \in SUBSET Block
    /\ status \in [Block -> SUBSET Flag]
    /\ modified \in SUBSET Block
    /\ tip \in Block
    /\ orphans \in Seq(Block)
    /\ oldest \in BlockOrNone
    /\ db \in Database
    /\ disk \in Database
    /\ pc \in Step
    /\ cur \in BlockOrNone
    /\ fast \in BOOLEAN
    /\ queue \in Seq(Block)
    /\ target \in BlockOrNone
    /\ orig \in BlockOrNone
    /\ phase \in Phase
    /\ crashes \in Nat
    /\ dbErrors \in Nat

(* Every block of the best chain is known valid and none is known invalid,  *)
(* at every step of a reorganise and after every restart.                   *)
MainChainValid == \A b \in Anc[tip] : KnownValid(b) /\ ~KnownInvalid(b)

(* blockindex.go on statusValid: it "also means that all of its ancestors   *)
(* have also been validated".  A valid flag therefore never survives on a   *)
(* block whose ancestors lost theirs, in memory or in the database.         *)
ValidClosed(st) == \A b \in Block : "valid" \in st[b] => \A a \in Anc[b] : "valid" \in st[a]
ValidMeansAncestorsValid == ValidClosed(status) /\ ValidClosed(db.status) /\ ValidClosed(disk.status)

(* blockindex.go on the invalid flags: a block is marked failed only when   *)
(* it breaks a rule, and as having an invalid ancestor only when one of its *)
(* ancestors is marked failed.  No sound block is ever rejected for good.   *)
InvalidSound(st) ==
    \A b \in Block :
        /\ "failed" \in st[b] => b \in Bad
        /\ "ancestor" \in st[b] => \E a \in Anc[b] \ {b} : "failed" \in st[a]
InvalidMeansRuleBroken == InvalidSound(status) /\ InvalidSound(db.status)

(* A block that breaks a rule is known valid only if BFFastAdd skipped its  *)
(* check, and that takes an ancestor linked to a checkpoint.                *)
Linked(b) == Anc[b] \cap FastAddable # {}
Checked(st) == \A b \in Bad : "valid" \in st[b] => Linked(b)
ValidMeansChecked == Checked(status)

(* The utxo set of the best chain ending in t: the stake trees of its       *)
(* blocks, and the regular trees no successor disapproved.                  *)
UtxoOf(t) ==
    {x \in UtxoTrees : /\ x[1] \in Anc[t]
                       /\ x[2] = "regular" =>
                             \A c \in Anc[t] \cap Disapproves : Parent[c] # x[1]}

(* What initChainState, the next reorganise and the next disconnect rely on *)
(* finding in the database: the index is closed under parents and has its   *)
(* block data, the stored tip is in it with its branch marked valid and     *)
(* applicable, and the utxo set and the spend journal are exactly those of  *)
(* that tip.                                                                *)
Consistent(d) ==
    /\ d.index \subseteq d.blocks
    /\ \A b \in d.index : Anc[b] \subseteq d.index
    /\ d.tip \in d.index
    /\ \A b \in Anc[d.tip] : "valid" \in d.status[b] /\ b \notin MissingInputs
    /\ d.utxo = UtxoOf(d.tip)
    /\ d.spend = Anc[d.tip] \ {Genesis}
DatabaseConsistent == Consistent(db) /\ Consistent(disk)

(* The node in memory and the committed database agree on the tip, and      *)
(* every index entry the database lacks or has outdated is in modified, so  *)
(* that the next flush repairs it.                                          *)
MemoryMatchesDatabase ==
    /\ tip = db.tip
    /\ \A b \in Block \ modified : status[b] = db.status[b] /\ (b \in index <=> b \in db.index)

(* maybeAcceptBlock adds a node without looking for an existing one: what   *)
(* keeps the index a tree is that no indexed block is pooled as an orphan,  *)
(* and that the pool holds no block twice.                                  *)
NoSecondNode ==
    /\ \A i \in 1..Len(orphans) : orphans[i] \notin index
    /\ \A i, j \in 1..Len(orphans) : orphans[i] = orphans[j] => i = j
    /\ pc \in {"accept", "index"} => cur \notin index /\ ~InPool(cur)

(* The orphan pool never outgrows its limit by more than the one orphan     *)
(* that a stale oldestOrphan fails to evict.                                *)
OrphanPoolBounded == Len(orphans) <= MaxOrphans + 1

(* The orphan pool is sound: no block of it is indexed or pooled twice, so   *)
(* that maybeAcceptBlock never adds a second node, and it stays within one   *)
(* block of its limit.                                                       *)
OrphanPoolSound == NoSecondNode /\ OrphanPoolBounded

(* chain.go on addOrphanBlock: it "imposes a maximum limit on the number of *)
(* outstanding orphan blocks and will remove the oldest received orphan     *)
(* block if the limit is exceeded".                                         *)
OrphanLimit == Len(orphans) <= MaxOrphans

(* The chain with the most work among those that break no rule is the best  *)
(* chain whenever no call is in progress, as long as nothing failed.        *)
NoneHeavier(bs, t) == \A b \in bs : Anc[b] \cap Bad = {} => WorkSum[b] <= WorkSum[t]
HeaviestSoundTip == NoneHeavier(index, tip)
MostWork == pc = "idle" /\ crashes = 0 /\ dbErrors = 0 => HeaviestSoundTip

(* chain.go on connectBestChain: it respects "proper chain selection        *)
(* according to the chain with the most proof of work".  The same, for a    *)
(* node that may have been restarted.                                       *)
MostWorkAfterRestart == pc = "idle" /\ dbErrors = 0 => HeaviestSoundTip

(* process.go on processOrphans: it repeats "until there are no more"       *)
(* orphans whose parent is known.                                           *)
NoStrandedOrphan == pc = "idle" => \A i \in 1..Len(orphans) : Parent[orphans[i]] \notin index

(* process.go on BFFastAdd: it is set for a block that is "already known to *)
(* fit into the chain due to already proving it correct links into the      *)
(* chain up to a known checkpoint".                                         *)
FastAddOnlyLinked == pc = "accept" /\ fast => cur \in FastAddable

(* chainio.go on the best chain state: it holds "the accumulated work sum   *)
(* up to and including the best block".                                     *)
StoredWorkSum == db.work = WorkSum[db.tip]

(* reorganizeChain panics only in a step in which a database access fails   *)
(* while the chain is reorganised back to origTip.                          *)
PanicOnlyOnDbError == [][pc' = "panic" => pc = "panic" \/ dbErrors' > dbErrors]_vars

(* A call always returns, or panics. *)
CallReturns == pc # "idle" ~> pc \in {"idle", "panic"}

(* Seen through BestSnapshot by a caller that waits for the running call, a *)
(* reorganise is atomic: until it is done the best chain is still the one   *)
(* reorganizeChain started from, and a failed one leaves it there.  Nothing *)
(* but a crash takes a block away or moves to a chain with less work.       *)
SettledTip == IF pc \in {"reorg", "panic"} THEN orig ELSE tip
Promise == INSTANCE BestChain WITH known <- index, best <- SettledTip, restarts <- crashes
ImplementsBestChain == Promise!Spec

-----------------------------------------------------------------------------
(* The inductive invariant behind the properties above *)

(* No block is valid and invalid, and a block without a node has no status. *)
Exclusive(st) == \A b \in Block : "valid" \in st[b] => st[b] = {"valid"}
Confined(st, idx) == \A b \in Block \ idx : st[b] = {}
StatusOK(st, idx) ==
    /\ ValidClosed(st)
    /\ InvalidSound(st)
    /\ Checked(st)
    /\ Exclusive(st)
    /\ Confined(st, idx)

(* The index is a tree whose nodes have block data. *)
TreeOK == modified \subseteq index /\ index \subseteq db.blocks /\ \A b \in index : Anc[b] \subseteq index

(* What each step of maybeAcceptBlock knows about its block. *)
AcceptOK ==
    /\ pc \in {"accept", "index", "best", "connect"} =>
          cur \in Block \ {Genesis} /\ Parent[cur] \in index
    /\ pc \in {"accept", "index"} => cur \notin index
    /\ pc \in {"best", "connect"} => cur \in index
    /\ pc = "index" => cur \in db.blocks
    /\ pc = "best" => status[cur] = {}
    /\ pc = "connect" => Parent[cur] = tip /\ KnownValid(cur)
    /\ fast => /\ cur \in Block => Linked(cur)
               /\ \A i \in 1..Len(queue) : Linked(queue[i])
    /\ pc = "idle" => cur = None /\ queue = <<>>
    /\ pc = "orphans" => queue # <<>>
    /\ \A i \in 1..Len(queue) : queue[i] \in index

(* What a reorganise knows about its two ends. *)
ReorgOK ==
    /\ pc \in {"reorg", "settle", "panic"} =>
          /\ target \in index
          /\ orig \in index
          /\ KnownValid(orig)
          /\ Anc[orig] \cap MissingInputs = {}
          /\ phase = "rev" => target = orig
          /\ cur # None => cur \in index
    /\ pc = "settle" => tip = target

(* Only an eviction that found oldestOrphan stale exceeds the limit, and it *)
(* clears oldestOrphan.                                                     *)
OrphansOK ==
    /\ NoSecondNode
    /\ OrphanPoolBounded
    /\ Len(orphans) = MaxOrphans + 1 => oldest = None

(* The index, the best chain and the database taken together. *)
DataOK ==
    /\ TreeOK
    /\ MemoryMatchesDatabase
    /\ DatabaseConsistent
    /\ StatusOK(status, index)
    /\ StatusOK(db.status, db.index)
    /\ StatusOK(disk.status, disk.index)
    /\ KnownValid(tip)

IInv == TypeOK /\ DataOK /\ AcceptOK /\ ReorgOK /\ OrphansOK

(* What the refinement needs besides: a reorganise is under way only to a   *)
(* chain with more work or to a sibling of the tip it started from, and the *)
(* disk lags behind the memory.                                             *)
RefineInv ==
    /\ disk.index \subseteq index
    /\ pc = "reorg" /\ phase = "fwd" =>
          \/ WorkSum[target] > WorkSum[orig]
          \/ target \notin {orig, Genesis} /\ Parent[target] = Parent[orig]

(* The required difficulty is a function of the parent, so that siblings    *)
(* have the same work (on the networks without ReduceMinDifficulty).        *)
SiblingWork == \A b, c \in Block \ {Genesis} : Parent[b] = Parent[c] => WorkSum[b] = WorkSum[c]

(* What best chain selection knows while a call runs and nothing failed:    *)
(* only the block being accepted, or the one being reorganised to, may have *)
(* more work than the best chain.                                           *)
SelectionOK ==
    crashes = 0 /\ dbErrors = 0 =>
        /\ pc \in {"idle", "accept", "index", "orphans", "settle"} => HeaviestSoundTip
        /\ pc \in {"best", "connect"} => NoneHeavier(index \ {cur}, tip)
        /\ pc = "reorg" => NoneHeavier(IF phase = "fwd" THEN index \ {target} ELSE index, orig)
=============================================================================
