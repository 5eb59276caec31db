--------------------------- MODULE IndexersProofs ---------------------------
(***************************************************************************)
(* Proofs about Indexers, for any tree of blocks, any transactions and any *)
(* sets of enabled indexes: an enabled index is at the tip of the main     *)
(* chain when the node is up, the tip of an index says what it holds, and  *)
(* block ids lead from its entries to the right blocks.                    *)
(***************************************************************************)
EXTENDS Indexers, TLAPS

(***************************************************************************)
(* The inductive invariant.  What it says of a database d depends on       *)
(* whether a chain had a transaction twice and whether a commit failed.    *)
(***************************************************************************)
Database ==
    [chain : Seq(Block \ {Genesis}), tip : [Index -> Block \cup {None}],
     dropping : SUBSET Index, old : SUBSET Index,
     txs : [Tx -> Id \cup {None}], ids : [Block -> Id \cup {None}],
     hashes : [Id -> Block \cup {None}], idBuckets : BOOLEAN,
     addr : Seq(Id), cf : SUBSET Block]

\* Each block of the main chain is one higher than the one before, and the chain is
\* the branch that ends at its tip.
ChainOK(chain) ==
    /\ \A k \in 1..Len(chain) :
          /\ Height[chain[k]] = k
          /\ Parent[chain[k]] = IF k = 1 THEN Genesis ELSE chain[k - 1]
    /\ Range(chain) = UpTo(Tip(chain))

\* No transaction is in two blocks of the branch.
NoTwice(b) == \A a, c \in UpTo(b) : a # c => Txs[a] \cap Txs[c] = {}

\* The id of a block of the index is its height, both ways, and an entry has the id
\* of a block with the transaction.
IdsFit(txs, ids, hashes, tip) ==
    /\ \A b \in UpTo(tip) : ids[b] = Height[b] /\ hashes[Height[b]] = b
    /\ \A n \in Id : hashes[n] # None <=> n \in 1..Height[tip]
    /\ \A n \in Id : hashes[n] # None => hashes[n] \in UpTo(tip) /\ Height[hashes[n]] = n
    /\ \A t \in Tx : txs[t] # None => \E b \in UpTo(tip) : txs[t] = Height[b] /\ t \in Txs[b]
IdsOK(d) == IdsFit(d.txs, d.ids, d.hashes, d.tip["tx"])

TxOK(d, twice, failed) ==
    /\ ~Exists(d, "tx") => ~d.idBuckets /\ d.txs = EmptyDb.txs
    /\ ~d.idBuckets => d.ids = EmptyDb.ids /\ d.hashes = EmptyDb.hashes
    /\ Whole(d, "tx") =>
          /\ d.idBuckets
          /\ {b \in Block : d.ids[b] # None} = UpTo(d.tip["tx"])
          /\ ~twice => /\ \A t \in Tx : d.txs[t] # None <=> \E b \in UpTo(d.tip["tx"]) : t \in Txs[b]
                       /\ NoTwice(d.tip["tx"])
          /\ ~failed => IdsOK(d)

AddrOK(d, failed) ==
    /\ ~Exists(d, "addr") => d.addr = <<>>
    /\ Whole(d, "addr") => /\ Len(d.addr) = Height[d.tip["addr"]]
                           /\ ~failed => \A k \in 1..Len(d.addr) : d.addr[k] = k

CfOK(d) ==
    /\ ~Exists(d, "cf") => d.cf = {}
    /\ Whole(d, "cf") => d.cf = UpTo(d.tip["cf"])

DbOK(d, twice, failed) ==
    /\ d \in Database
    /\ ChainOK(d.chain) /\ (~twice => NoTwice(Tip(d.chain)))
    /\ \A i \in d.dropping : Exists(d, i)
    /\ TxOK(d, twice, failed) /\ AddrOK(d, failed) /\ CfOK(d)

Job == [todo : SUBSET Index, then : {"down", "create", "recreate"}, for : Index, on : Index,
        op : {"mark", "empty", "ids", "metadata"}]

Types ==
    /\ at \in {"down", "drop", "create", "recreate", "scan", "search", "rollback", "loop",
               "catchup", "up"}
    /\ enabled \in SUBSET Index /\ ("addr" \in enabled => "tx" \in enabled)
    /\ cur \in Id /\ drop \in Job /\ scan \in [known : Id, next : Id]
    /\ roll \in [left : SUBSET Index, hash : Block, cached : Block \cup {None}]
    /\ work \in [db : Database, cur : Id, err : {"none"}]
    /\ past \in [events : Nat, failed : BOOLEAN, twice : BOOLEAN]

\* The drop in progress: what is emptied is marked, the ids go before the metadata,
\* and every enabled index with a mark is still to be dropped.
DropInv ==
    at = "drop" =>
       /\ drop.then = "down" <=> enabled = {}
       /\ Exists(db, drop.for) /\ Exists(db, drop.on)
       /\ drop.on # drop.for => drop.on = "addr" /\ drop.for = "tx" /\ "tx" \in db.dropping
       /\ drop.op \in {"empty", "ids"} => drop.on \in db.dropping /\ drop.on # "cf"
       /\ drop.op = "ids" => drop.on = "tx"
       /\ drop.op = "metadata" /\ drop.on = "tx" => ~db.idBuckets
       /\ enabled \cap db.dropping \subseteq drop.todo \cup {drop.for, drop.on}

\* After the drops, no enabled index is marked; after their creation, all exist.
InitInv ==
    /\ at \in {"down", "drop", "create", "recreate"} => cur = 0 /\ scan = NoScan
    /\ at = "down" => enabled = {}
    /\ at \notin {"down", "up", "drop"} => enabled # {}
    /\ at \notin {"down", "drop"} => enabled \cap db.dropping = {}
    /\ at \in {"scan", "search", "rollback", "loop", "catchup", "up"} =>
          \A i \in enabled : Exists(db, i)

\* The scans enclose the highest id in use.
ScanInv ==
    at \in {"scan", "search"} =>
       /\ "tx" \in enabled /\ cur = 0
       /\ ~past.failed =>
             /\ scan.known <= Height[db.tip["tx"]]
             /\ at = "scan" =>
                   \/ scan.known = 0 /\ scan.next = 1
                   \/ scan.known > 0 /\ scan.next = scan.known + Increment
             /\ at = "search" =>
                   /\ scan.known > 0 /\ scan.next > Height[db.tip["tx"]]
                   /\ scan.next <= Height[db.tip["tx"]] + Increment

\* The indexes that were rolled back have their tip on the main chain; the open
\* transaction differs from the database in the index that is next.
RollInv ==
    /\ at \in {"rollback", "loop"} =>
          /\ roll.left # {} /\ roll.left \subseteq enabled
          /\ \A i \in enabled \ roll.left : db.tip[i] \in MainChain(db)
    /\ at = "loop" =>
          /\ DbOK(work.db, past.twice, past.failed)
          /\ work.db.chain = db.chain /\ work.db.dropping = db.dropping
          /\ \A i \in Index : i # LastOf(roll.left) => work.db.tip[i] = db.tip[i]
          /\ work.db.tip[LastOf(roll.left)] = roll.hash
          /\ ~past.failed /\ "tx" \in enabled => work.cur = Height[work.db.tip["tx"]]

\* When the node is up, the enabled indexes are at the tip; the counter of block ids
\* is at the last one given out.
UpInv ==
    /\ at = "catchup" => \A i \in enabled : db.tip[i] \in MainChain(db)
    /\ at = "up" => \A i \in enabled : db.tip[i] = Tip(db.chain)
    /\ at \in {"rollback", "loop", "catchup", "up"} /\ ~past.failed /\ "tx" \in enabled =>
          cur = Height[db.tip["tx"]]

IInv ==
    /\ Types /\ DbOK(db, past.twice, past.failed)
    /\ DropInv /\ InitInv /\ ScanInv /\ RollInv /\ UpInv

(***************************************************************************)
(* The tree of blocks, block ids and arithmetic.                           *)
(***************************************************************************)
\* None is not a block or an id.
LEMMA NoneFacts == (\A b \in Block : b # None) /\ (\A n \in Id : n # None)
  BY TreeAssumption

\* A block adds itself to the branch of its parent, one higher.
LEMMA Child ==
    ASSUME NEW b \in Block, b # Genesis
    PROVE  /\ Parent[b] \in Block /\ Height[Parent[b]] \in Nat
           /\ Height[b] = Height[Parent[b]] + 1
           /\ UpTo(b) = UpTo(Parent[b]) \cup {b} /\ b \notin UpTo(Parent[b])
<1>1. Parent[b] \in Block /\ Height[Parent[b]] \in Nat /\ Height[b] = Height[Parent[b]] + 1
  BY TreeAssumption
<1>2. Anc[b] = Anc[Parent[b]] \cup {b}
  BY TreeAssumption, Zenon
<1>3. b \notin Anc[Parent[b]]
  <2>1. \A a \in Anc[Parent[b]] : Height[a] <= Height[Parent[b]]
    BY <1>1, TreeAssumption, Zenon
  <2>2. ~(Height[b] <= Height[Parent[b]])
    BY <1>1
  <2> QED BY <2>1, <2>2, Zenon
<1> QED BY <1>1, <1>2, <1>3, Zenon DEF UpTo

\* The blocks of a branch are blocks, none above its end.
LEMMA Branch ==
    ASSUME NEW b \in Block
    PROVE  /\ UpTo(b) \subseteq Block \ {Genesis}
           /\ \A a \in UpTo(b) : /\ Height[a] \in Nat /\ Height[a] <= Height[b]
                                 /\ UpTo(a) \subseteq UpTo(b)
           /\ UpTo(Genesis) = {}
  BY TreeAssumption, Zenon DEF UpTo

\* The heights and the ids that the scans reach are block ids.
LEMMA IdFacts ==
    /\ IdSpace \in Nat /\ IdSpace > 2 /\ 0 \in Id /\ 1 \in Id
    /\ \A n \in Id : n \in Nat /\ n < IdSpace
    /\ \A b \in Block : /\ Height[b] \in Nat /\ 2 * (Height[b] + Increment) < IdSpace
                        /\ Height[b] \in Id /\ Height[b] + 1 \in Id
<1>1. /\ Genesis \in Block /\ Height[Genesis] = 0 /\ IdSpace \in Nat
      /\ Increment \in Nat /\ Increment > 0
  BY TreeAssumption, IdAssumption
<1>2. 2 * (Height[Genesis] + Increment) < IdSpace
  BY <1>1, IdAssumption, Zenon
<1>3. IdSpace > 2
  BY <1>1, <1>2
<1>4. ASSUME NEW b \in Block
      PROVE  /\ Height[b] \in Nat /\ 2 * (Height[b] + Increment) < IdSpace
             /\ Height[b] \in Id /\ Height[b] + 1 \in Id
  <2>1. Height[b] \in Nat /\ 2 * (Height[b] + Increment) < IdSpace
    BY TreeAssumption, IdAssumption, Zenon
  <2> QED BY <1>1, <2>1 DEF Id
<1> QED BY <1>1, <1>3, <1>4 DEF Id

\* The counter of block ids goes up and down within its width.
LEMMA Counter ==
    /\ \A n \in Id : (n + 1) % IdSpace \in Id /\ (n + IdSpace - 1) % IdSpace \in Id
    /\ \A b \in Block : (Height[b] + 1) % IdSpace = Height[b] + 1
    /\ \A n \in Nat : n + 1 \in Id => (n + 1 + IdSpace - 1) % IdSpace = n
<1>1. \A n \in Id : (n + 1) % IdSpace \in Id /\ (n + IdSpace - 1) % IdSpace \in Id
  BY IdFacts DEF Id
<1>2. \A b \in Block : (Height[b] + 1) % IdSpace = Height[b] + 1
  BY IdFacts DEF Id
<1>3. \A n \in Nat : n + 1 \in Id => (n + 1 + IdSpace - 1) % IdSpace = n
  BY IdFacts DEF Id
<1> QED BY <1>1, <1>2, <1>3, Zenon

(***************************************************************************)
(* The main chain.                                                         *)
(***************************************************************************)
\* The tip of a chain is a block as high as the chain is long.
LEMMA ChainTip ==
    ASSUME NEW chain \in Seq(Block \ {Genesis}), ChainOK(chain)
    PROVE  /\ Tip(chain) \in Block /\ Height[Tip(chain)] = Len(chain) /\ Len(chain) \in Nat
           /\ \A k \in 1..Len(chain) : chain[k] \in Block \ {Genesis} /\ chain[k] \in UpTo(Tip(chain))
           /\ chain # <<>> => Len(chain) > 0 /\ Tip(chain) = chain[Len(chain)] /\ Tip(chain) # Genesis
<1>1. Len(chain) \in Nat /\ \A k \in 1..Len(chain) : chain[k] \in Block \ {Genesis}
  OBVIOUS
<1>2. \A k \in 1..Len(chain) : chain[k] \in Range(chain)
  BY DEF Range
<1>3. CASE chain = <<>>
  <2>1. Tip(chain) = Genesis /\ Len(chain) = 0
    BY <1>3 DEF Tip
  <2>2. Genesis \in Block /\ Height[Genesis] = 0
    BY TreeAssumption, Zenon
  <2>3. Tip(chain) \in Block /\ Height[Tip(chain)] = Len(chain)
    BY <2>1, <2>2, Zenon
  <2>4. \A k \in 1..Len(chain) : chain[k] \in UpTo(Tip(chain))
    BY <1>2, Zenon DEF ChainOK
  <2> QED BY <1>1, <1>3, <2>3, <2>4, Zenon
<1>4. CASE chain # <<>>
  <2>1. Len(chain) > 0 /\ Len(chain) \in 1..Len(chain) /\ Tip(chain) = chain[Len(chain)]
    BY <1>4 DEF Tip
  <2> QED BY <1>1, <1>2, <1>4, <2>1, Zenon DEF ChainOK
<1> QED BY <1>3, <1>4, Zenon

\* A block of the main chain as high as the chain is its tip.
LEMMA AtTip ==
    ASSUME NEW d \in Database, ChainOK(d.chain), NEW b \in MainChain(d),
           Height[b] >= Len(d.chain)
    PROVE  b = Tip(d.chain)
<1>1. d.chain \in Seq(Block \ {Genesis})
  BY DEF Database
<1>2. CASE b = Genesis
  <2>1. Height[b] = 0 /\ Len(d.chain) = 0
    BY <1>1, <1>2, TreeAssumption, ChainTip
  <2>2. d.chain = <<>>
    BY <1>1, <2>1
  <2> QED BY <1>2, <2>2, Zenon DEF Tip
<1>3. CASE b \in Range(d.chain)
  <2>1. PICK k \in 1..Len(d.chain) : b = d.chain[k]
    BY <1>1, <1>3 DEF Range
  <2>2. Height[b] = k
    BY <2>1, Zenon DEF ChainOK
  <2>3. k = Len(d.chain) /\ d.chain # <<>>
    BY <1>1, <2>1, <2>2
  <2> QED BY <2>1, <2>3, Zenon DEF Tip
<1> QED BY <1>2, <1>3, Zenon DEF MainChain

\* A sequence without its last element.
LEMMA FrontFacts ==
    ASSUME NEW S, NEW s \in Seq(S), s # <<>>
    PROVE  /\ Front(s) \in Seq(S) /\ Len(s) \in Nat /\ Len(s) > 0 /\ Len(Front(s)) = Len(s) - 1
           /\ \A k \in 1..(Len(s) - 1) : Front(s)[k] = s[k]
<1>1. Len(s) \in Nat /\ Len(s) > 0
  OBVIOUS
<1>2. ASSUME NEW m \in 0..Len(s)
      PROVE  /\ SubSeq(s, 1, m) \in Seq(S) /\ Len(SubSeq(s, 1, m)) = m
             /\ \A k \in 1..m : SubSeq(s, 1, m)[k] = s[k]
  <2>1. SubSeq(s, 1, m) \in Seq(S) /\ Len(SubSeq(s, 1, m)) = m
    BY <1>1
  <2>2. \A k \in 1..m : SubSeq(s, 1, m)[k] = s[k]
    BY <1>1
  <2> QED BY <2>1, <2>2, Zenon
<1>3. Len(s) - 1 \in 0..Len(s)
  BY <1>1
<1> QED BY <1>1, <1>2, <1>3, Zenon DEF Front

(***************************************************************************)
(* What one index and one block do to the database of a transaction.       *)
(***************************************************************************)
Reason ==
    {"none", "no entry", "no block id", "not enough entries", "assertion", "input not found"}
TxState == [db : Database, cur : Id, err : Reason]

\* The fields of a database that do not belong to an index, and those of the
\* transaction index.
SameRest(d, e) == e.chain = d.chain /\ e.dropping = d.dropping /\ e.old = d.old
SameTx(d, e) ==
    e.txs = d.txs /\ e.ids = d.ids /\ e.hashes = d.hashes /\ e.idBuckets = d.idBuckets

\* What the transaction index writes for a block that is connected with an id, and
\* for one that is disconnected.
TxConnected(d, e, b, id) ==
    /\ e.idBuckets = d.idBuckets
    /\ e.txs = [t \in Tx |-> IF t \in Txs[b] THEN id ELSE d.txs[t]]
    /\ e.ids = [d.ids EXCEPT ![b] = id]
    /\ e.hashes = [d.hashes EXCEPT ![id] = b]
TxDisconnected(d, e, b) ==
    /\ e.idBuckets = d.idBuckets
    /\ e.txs = [t \in Tx |-> IF t \in Txs[b] THEN None ELSE d.txs[t]]
    /\ e.ids = [d.ids EXCEPT ![b] = None]
    /\ e.hashes = [n \in Id |-> IF n = d.ids[b] THEN None ELSE d.hashes[n]]

\* An error changes nothing else.
LEMMA Fails ==
    ASSUME NEW x \in TxState, NEW r \in Reason
    PROVE  Failed(x, r) \in TxState /\ Failed(x, r).err = r /\ Failed(x, r).cur = x.cur
  BY Zenon DEF TxState, Failed

\* The tip of an index is written.
LEMMA SetsTip ==
    ASSUME NEW x \in TxState, NEW i \in Index, NEW b \in Block
    PROVE  LET y == SetTip(x, i, b)
           IN  /\ y \in TxState /\ y.err = x.err /\ y.cur = x.cur
               /\ SameRest(x.db, y.db) /\ SameTx(x.db, y.db)
               /\ y.db.addr = x.db.addr /\ y.db.cf = x.db.cf
               /\ y.db.tip = [x.db.tip EXCEPT ![i] = b]
<1> DEFINE d == x.db
           e == [d EXCEPT !.tip = [d.tip EXCEPT ![i] = b]]
<1>1. d \in Database
  BY Zenon DEF TxState
<1>2. [d.tip EXCEPT ![i] = b] \in [Index -> Block \cup {None}]
  BY <1>1, Zenon DEF Database
<1>3. /\ e \in Database /\ e.tip = [d.tip EXCEPT ![i] = b]
      /\ SameRest(d, e) /\ e.addr = d.addr /\ e.cf = d.cf /\ SameTx(d, e)
  BY <1>1, <1>2, Zenon DEF Database, SameRest, SameTx
<1>4. SetTip(x, i, b) = [x EXCEPT !.db = e]
  BY Zenon DEF SetTip
<1> HIDE DEF e
<1>5. /\ SetTip(x, i, b) \in TxState /\ SetTip(x, i, b).db = e
      /\ SetTip(x, i, b).err = x.err /\ SetTip(x, i, b).cur = x.cur
  BY <1>3, <1>4, Zenon DEF TxState
<1> QED BY <1>3, <1>5, Zenon

\* The transaction index connects a block.
LEMMA TxConnects ==
    ASSUME NEW x \in TxState, NEW b \in Block
    PROVE  LET id == (x.cur + 1) % IdSpace
               y == TxConnectBlock(x, b)
               d == x.db
               e == y.db
           IN  /\ y \in TxState /\ y.err = x.err /\ y.cur = id /\ id \in Id
               /\ SameRest(d, e) /\ e.tip = d.tip
               /\ e.addr = d.addr /\ e.cf = d.cf /\ TxConnected(d, e, b, id)
<1> DEFINE id == (x.cur + 1) % IdSpace
           d == x.db
           e == [d EXCEPT !.txs = [t \in Tx |-> IF t \in Txs[b] THEN id ELSE d.txs[t]],
                          !.ids = [d.ids EXCEPT ![b] = id],
                          !.hashes = [d.hashes EXCEPT ![id] = b]]
<1>1. id \in Id /\ d \in Database
  BY Counter, Zenon DEF TxState
<1>2. /\ [t \in Tx |-> IF t \in Txs[b] THEN id ELSE d.txs[t]] \in [Tx -> Id \cup {None}]
      /\ [d.ids EXCEPT ![b] = id] \in [Block -> Id \cup {None}]
      /\ [d.hashes EXCEPT ![id] = b] \in [Id -> Block \cup {None}]
  BY <1>1, Zenon DEF Database
<1>3. /\ e \in Database /\ e.tip = d.tip
      /\ SameRest(d, e) /\ e.addr = d.addr /\ e.cf = d.cf /\ TxConnected(d, e, b, id)
  BY <1>1, <1>2, Zenon DEF Database, SameRest, TxConnected
<1>4. TxConnectBlock(x, b) = [x EXCEPT !.cur = id, !.db = e]
  BY Zenon DEF TxConnectBlock
<1> HIDE DEF id, e
<1>5. /\ TxConnectBlock(x, b) \in TxState /\ TxConnectBlock(x, b).db = e
      /\ TxConnectBlock(x, b).err = x.err /\ TxConnectBlock(x, b).cur = id
  BY <1>1, <1>3, <1>4, Zenon DEF TxState
<1> QED BY <1>1, <1>3, <1>5, Zenon DEF id

\* The transaction index disconnects a block, unless an entry is missing.
LEMMA TxDisconnects ==
    ASSUME NEW x \in TxState, NEW b \in Block, x.err = "none"
    PROVE  LET y == TxDisconnectBlock(x, b)
               d == x.db
               e == y.db
           IN  \/ y.err # "none" /\ y.cur = x.cur /\ y \in TxState
               \/ /\ y \in TxState /\ y.err = "none" /\ y.cur = (x.cur + IdSpace - 1) % IdSpace
                  /\ SameRest(d, e) /\ e.tip = d.tip
                  /\ e.addr = d.addr /\ e.cf = d.cf /\ TxDisconnected(d, e, b)
<1> DEFINE id == (x.cur + IdSpace - 1) % IdSpace
           d == x.db
           e == [d EXCEPT !.txs = [t \in Tx |-> IF t \in Txs[b] THEN None ELSE d.txs[t]],
                          !.ids = [d.ids EXCEPT ![b] = None],
                          !.hashes = [n \in Id |-> IF n = d.ids[b] THEN None ELSE d.hashes[n]]]
<1>1. id \in Id /\ d \in Database
  BY Counter, Zenon DEF TxState
<1>2. /\ [t \in Tx |-> IF t \in Txs[b] THEN None ELSE d.txs[t]] \in [Tx -> Id \cup {None}]
      /\ [d.ids EXCEPT ![b] = None] \in [Block -> Id \cup {None}]
      /\ [n \in Id |-> IF n = d.ids[b] THEN None ELSE d.hashes[n]] \in [Id -> Block \cup {None}]
  BY <1>1, Zenon DEF Database
<1>3. /\ e \in Database /\ e.tip = d.tip
      /\ SameRest(d, e) /\ e.addr = d.addr /\ e.cf = d.cf /\ TxDisconnected(d, e, b)
  BY <1>1, <1>2, Zenon DEF Database, SameRest, TxDisconnected
<1>4. \/ TxDisconnectBlock(x, b) = Failed(x, "no entry")
      \/ TxDisconnectBlock(x, b) = [x EXCEPT !.cur = id, !.db = e]
  BY Zenon DEF TxDisconnectBlock
<1> HIDE DEF id, e
<1>5. CASE TxDisconnectBlock(x, b) = Failed(x, "no entry")
  <2>1. "no entry" \in Reason /\ "no entry" # "none"
    BY DEF Reason
  <2> QED BY <1>5, <2>1, Fails, Zenon
<1>6. CASE TxDisconnectBlock(x, b) = [x EXCEPT !.cur = id, !.db = e]
  <2>1. /\ TxDisconnectBlock(x, b) \in TxState /\ TxDisconnectBlock(x, b).db = e
        /\ TxDisconnectBlock(x, b).err = x.err /\ TxDisconnectBlock(x, b).cur = id
    BY <1>1, <1>3, <1>6, Zenon DEF TxState
  <2> QED BY <1>1, <1>3, <2>1, Zenon DEF id
<1> QED BY <1>4, <1>5, <1>6, Zenon

\* The address index connects a block that has an id.
LEMMA AddrConnects ==
    ASSUME NEW x \in TxState, NEW b \in Block, x.err = "none"
    PROVE  LET y == AddrConnectBlock(x, b)
               d == x.db
               e == y.db
           IN  \/ d.ids[b] = None /\ y.err # "none" /\ y.cur = x.cur /\ y \in TxState
               \/ /\ d.ids[b] # None /\ y \in TxState /\ y.err = "none" /\ y.cur = x.cur
                  /\ SameRest(d, e) /\ e.tip = d.tip /\ SameTx(d, e) /\ e.cf = d.cf
                  /\ e.addr = Append(d.addr, d.ids[b])
<1> DEFINE d == x.db
           e == [d EXCEPT !.addr = Append(d.addr, d.ids[b])]
<1>1. d \in Database /\ d.addr \in Seq(Id) /\ d.ids[b] \in Id \cup {None}
  BY Zenon DEF TxState, Database
<1>2. CASE d.ids[b] = None
  <2>1. "no block id" \in Reason /\ "no block id" # "none"
    BY DEF Reason
  <2>2. AddrConnectBlock(x, b) = Failed(x, "no block id")
    BY <1>2, Zenon DEF AddrConnectBlock
  <2> QED BY <1>2, <2>1, <2>2, Fails, Zenon
<1>3. CASE d.ids[b] # None
  <2>1. Append(d.addr, d.ids[b]) \in Seq(Id)
    BY <1>1, <1>3
  <2>2. /\ e \in Database /\ e.tip = d.tip /\ SameTx(d, e)
        /\ SameRest(d, e) /\ e.cf = d.cf /\ e.addr = Append(d.addr, d.ids[b])
    BY <1>1, <2>1, Zenon DEF Database, SameRest, SameTx
  <2>3. AddrConnectBlock(x, b) = [x EXCEPT !.db = e]
    BY <1>3, Zenon DEF AddrConnectBlock
  <2> HIDE DEF e
  <2>4. /\ AddrConnectBlock(x, b) \in TxState /\ AddrConnectBlock(x, b).db = e
        /\ AddrConnectBlock(x, b).err = x.err /\ AddrConnectBlock(x, b).cur = x.cur
    BY <2>2, <2>3, Zenon DEF TxState
  <2> QED BY <1>3, <2>2, <2>4, Zenon
<1> QED BY <1>2, <1>3, Zenon

\* The address index disconnects a block, unless it is empty.
LEMMA AddrDisconnects ==
    ASSUME NEW x \in TxState, NEW b \in Block, x.err = "none"
    PROVE  LET y == AddrDisconnectBlock(x, b)
               d == x.db
               e == y.db
           IN  \/ d.addr = <<>> /\ y.err # "none" /\ y.cur = x.cur /\ y \in TxState
               \/ /\ d.addr # <<>> /\ y \in TxState /\ y.err = "none" /\ y.cur = x.cur
                  /\ SameRest(d, e) /\ e.tip = d.tip /\ SameTx(d, e) /\ e.cf = d.cf
                  /\ e.addr = Front(d.addr)
<1> DEFINE d == x.db
           e == [d EXCEPT !.addr = Front(d.addr)]
<1>1. d \in Database /\ d.addr \in Seq(Id)
  BY Zenon DEF TxState, Database
<1>2. CASE d.addr = <<>>
  <2>1. "not enough entries" \in Reason /\ "not enough entries" # "none"
    BY DEF Reason
  <2>2. AddrDisconnectBlock(x, b) = Failed(x, "not enough entries")
    BY <1>2, Zenon DEF AddrDisconnectBlock
  <2> QED BY <1>2, <2>1, <2>2, Fails, Zenon
<1>3. CASE d.addr # <<>>
  <2>1. Front(d.addr) \in Seq(Id)
    BY <1>1, <1>3, FrontFacts, Zenon
  <2>2. /\ e \in Database /\ e.tip = d.tip /\ SameTx(d, e)
        /\ SameRest(d, e) /\ e.cf = d.cf /\ e.addr = Front(d.addr)
    BY <1>1, <2>1, Zenon DEF Database, SameRest, SameTx
  <2>3. AddrDisconnectBlock(x, b) = [x EXCEPT !.db = e]
    BY <1>3, Zenon DEF AddrDisconnectBlock
  <2> HIDE DEF e
  <2>4. /\ AddrDisconnectBlock(x, b) \in TxState /\ AddrDisconnectBlock(x, b).db = e
        /\ AddrDisconnectBlock(x, b).err = x.err /\ AddrDisconnectBlock(x, b).cur = x.cur
    BY <2>2, <2>3, Zenon DEF TxState
  <2> QED BY <1>3, <2>2, <2>4, Zenon
<1> QED BY <1>2, <1>3, Zenon

\* The filters of the filter index are written.
LEMMA CfChanges ==
    ASSUME NEW x \in TxState, NEW cf \in SUBSET Block
    PROVE  LET d == x.db
               y == [x EXCEPT !.db = [d EXCEPT !.cf = cf]]
               e == y.db
           IN  /\ y \in TxState /\ y.err = x.err /\ y.cur = x.cur
               /\ SameRest(d, e) /\ e.tip = d.tip /\ SameTx(d, e) /\ e.addr = d.addr
               /\ e.cf = cf
<1> DEFINE d == x.db
           e == [d EXCEPT !.cf = cf]
           y == [x EXCEPT !.db = e]
<1>1. d \in Database
  BY Zenon DEF TxState
<1>2. /\ e \in Database /\ e.tip = d.tip /\ SameTx(d, e)
      /\ SameRest(d, e) /\ e.addr = d.addr /\ e.cf = cf
  BY <1>1, Zenon DEF Database, SameRest, SameTx
<1>3. ASSUME NEW f \in Database
      PROVE  /\ [x EXCEPT !.db = f] \in TxState /\ [x EXCEPT !.db = f].db = f
             /\ [x EXCEPT !.db = f].err = x.err /\ [x EXCEPT !.db = f].cur = x.cur
  BY Zenon DEF TxState
<1>4. y \in TxState /\ y.db = e /\ y.err = x.err /\ y.cur = x.cur
  BY <1>2, <1>3, Zenon
<1> HIDE DEF y, e
<1>5. /\ y \in TxState /\ y.err = x.err /\ y.cur = x.cur
      /\ SameRest(d, y.db) /\ y.db.tip = d.tip /\ SameTx(d, y.db) /\ y.db.addr = d.addr
      /\ y.db.cf = cf
  BY <1>2, <1>4, Zenon
<1> QED BY <1>5, Zenon DEF y, e

(***************************************************************************)
(* An index that has the blocks up to its tip has them after a block is    *)
(* connected or disconnected.                                              *)
(***************************************************************************)
\* The tip of an index that is whole is a block.
LEMMA WholeTip ==
    ASSUME NEW d \in Database, NEW i \in Index, Exists(d, i)
    PROVE  d.tip[i] \in Block
  BY Zenon DEF Database, Exists

\* The block ids after the transaction index connects a block.
LEMMA IdsAfterConnect ==
    ASSUME NEW d \in Database, NEW e \in Database, NEW b \in Block \ {Genesis}, NEW id \in Id,
           d.tip["tx"] = Parent[b], e.tip["tx"] = b, id = Height[b], IdsOK(d),
           TxConnected(d, e, b, id)
    PROVE  IdsOK(e)
<1>1. /\ Height[b] = Height[Parent[b]] + 1 /\ Height[Parent[b]] \in Nat /\ Parent[b] \in Block
      /\ UpTo(b) = UpTo(Parent[b]) \cup {b} /\ b \notin UpTo(Parent[b])
  BY Child, Zenon
<1>2. \A a \in UpTo(Parent[b]) : a \in Block /\ Height[a] \in Nat /\ Height[a] <= Height[Parent[b]]
  BY <1>1, Branch, Zenon
<1>3. \A a \in UpTo(Parent[b]) : a \in Block /\ Height[a] # id /\ Height[a] \in Id
  BY <1>1, <1>2, IdFacts
<1>4. d.ids \in [Block -> Id \cup {None}] /\ d.hashes \in [Id -> Block \cup {None}]
  BY Zenon DEF Database
<1>5. /\ e.ids[b] = id /\ e.hashes[id] = b
      /\ \A a \in Block : a # b => e.ids[a] = d.ids[a]
      /\ \A n \in Id : n # id => e.hashes[n] = d.hashes[n]
  BY <1>4, Zenon DEF TxConnected
<1>6. \A a \in UpTo(b) : e.ids[a] = Height[a] /\ e.hashes[Height[a]] = a
  <2>1. \A a \in UpTo(Parent[b]) : d.ids[a] = Height[a] /\ d.hashes[Height[a]] = a
    BY Zenon DEF IdsOK, IdsFit
  <2> QED BY <1>1, <1>3, <1>5, <2>1, Zenon
<1>7. \A n \in Id : e.hashes[n] # None <=> n \in 1..Height[b]
  <2>1. \A n \in Id : d.hashes[n] # None <=> n \in 1..Height[Parent[b]]
    BY Zenon DEF IdsOK, IdsFit
  <2>2. \A n \in Id : n \in 1..Height[b] <=> n = id \/ n \in 1..Height[Parent[b]]
    BY <1>1, IdFacts
  <2>3. e.hashes[id] # None
    BY <1>5, NoneFacts, Zenon
  <2> QED BY <1>5, <2>1, <2>2, <2>3, Zenon
<1>8. \A n \in Id : e.hashes[n] # None => e.hashes[n] \in UpTo(b) /\ Height[e.hashes[n]] = n
  BY <1>1, <1>5, Zenon DEF IdsOK, IdsFit
<1>9. \A t \in Tx : e.txs[t] # None => \E a \in UpTo(b) : e.txs[t] = Height[a] /\ t \in Txs[a]
  <2>1. \A t \in Tx : e.txs[t] = IF t \in Txs[b] THEN id ELSE d.txs[t]
    BY Zenon DEF TxConnected
  <2>2. \A t \in Tx : d.txs[t] # None =>
           \E a \in UpTo(Parent[b]) : d.txs[t] = Height[a] /\ t \in Txs[a]
    BY Zenon DEF IdsOK, IdsFit
  <2>3. b \in UpTo(b) /\ \A a \in UpTo(Parent[b]) : a \in UpTo(b)
    BY <1>1, Zenon
  <2> QED BY <2>1, <2>2, <2>3, Zenon
<1> QED BY <1>6, <1>7, <1>8, <1>9, Zenon DEF IdsOK, IdsFit

\* The transaction index after it connects a block.
LEMMA TxAfterConnect ==
    ASSUME NEW d \in Database, NEW e \in Database, NEW b \in Block \ {Genesis}, NEW id \in Id,
           NEW twice \in BOOLEAN, NEW failed \in BOOLEAN,
           TxOK(d, twice, failed), Whole(d, "tx"), ~twice => NoTwice(b),
           ~failed => id = Height[b],
           d.tip["tx"] = Parent[b], e.tip["tx"] = b,
           e.dropping = d.dropping, TxConnected(d, e, b, id)
    PROVE  TxOK(e, twice, failed) /\ Whole(e, "tx")
<1>1. UpTo(b) = UpTo(Parent[b]) \cup {b}
  BY Child, Zenon
<1>2. Whole(e, "tx")
  BY TreeAssumption, Zenon DEF Whole, Exists
<1>3. e.idBuckets
  BY Zenon DEF TxOK, TxConnected
<1>4. {a \in Block : e.ids[a] # None} = UpTo(b)
  <2>1. d.ids \in [Block -> Id \cup {None}] /\ id # None
    BY TreeAssumption, Zenon DEF Database
  <2>2. \A a \in Block : e.ids[a] # None <=> a = b \/ d.ids[a] # None
    BY <2>1, Zenon DEF TxConnected
  <2>3. {a \in Block : d.ids[a] # None} = UpTo(Parent[b])
    BY Zenon DEF TxOK
  <2> QED BY <1>1, <2>2, <2>3, Zenon
<1>5. ~twice => \A t \in Tx : e.txs[t] # None <=> \E a \in UpTo(b) : t \in Txs[a]
  <2>1. id # None
    BY NoneFacts, Zenon
  <2>2. \A t \in Tx : e.txs[t] # None <=> t \in Txs[b] \/ d.txs[t] # None
    BY <2>1, Zenon DEF TxConnected
  <2>3. ~twice => \A t \in Tx : d.txs[t] # None <=> \E a \in UpTo(Parent[b]) : t \in Txs[a]
    BY Zenon DEF TxOK
  <2> QED BY <1>1, <2>2, <2>3, Zenon
<1>6. ASSUME ~failed PROVE IdsOK(e)
  <2>1. IdsOK(d) /\ id = Height[b]
    BY <1>6, Zenon DEF TxOK
  <2> QED BY <2>1, IdsAfterConnect, Zenon
<1> QED BY <1>2, <1>3, <1>4, <1>5, <1>6, Zenon DEF TxOK, Whole

\* The block ids after the transaction index disconnects its tip.
LEMMA IdsAfterDisconnect ==
    ASSUME NEW d \in Database, NEW e \in Database, NEW b \in Block \ {Genesis},
           d.tip["tx"] = b, e.tip["tx"] = Parent[b], IdsOK(d), TxDisconnected(d, e, b)
    PROVE  IdsOK(e)
<1>1. /\ Height[b] = Height[Parent[b]] + 1 /\ Height[Parent[b]] \in Nat /\ Parent[b] \in Block
      /\ UpTo(b) = UpTo(Parent[b]) \cup {b} /\ b \notin UpTo(Parent[b])
  BY Child, Zenon
<1>2. \A a \in UpTo(Parent[b]) : a \in Block /\ Height[a] \in Nat /\ Height[a] <= Height[Parent[b]]
  BY <1>1, Branch, Zenon
<1>3. \A a \in UpTo(Parent[b]) : a \in Block /\ a # b /\ Height[a] # Height[b] /\ Height[a] \in Id
  BY <1>1, <1>2, IdFacts
<1>4. /\ d.ids \in [Block -> Id \cup {None}] /\ d.hashes \in [Id -> Block \cup {None}]
      /\ d.ids[b] = Height[b] /\ d.hashes[Height[b]] = b /\ Height[b] \in Id
  BY <1>1, IdFacts, Zenon DEF Database, IdsOK, IdsFit
<1>5. /\ e.hashes[Height[b]] = None
      /\ \A a \in Block : a # b => e.ids[a] = d.ids[a]
      /\ \A n \in Id : n # Height[b] => e.hashes[n] = d.hashes[n]
  BY <1>4, Zenon DEF TxDisconnected
<1>6. \A a \in UpTo(Parent[b]) : e.ids[a] = Height[a] /\ e.hashes[Height[a]] = a
  <2>1. \A a \in UpTo(Parent[b]) : d.ids[a] = Height[a] /\ d.hashes[Height[a]] = a
    BY <1>1, Zenon DEF IdsOK, IdsFit
  <2> QED BY <1>3, <1>5, <2>1, Zenon
<1>7. \A n \in Id : e.hashes[n] # None <=> n \in 1..Height[Parent[b]]
  <2>1. \A n \in Id : d.hashes[n] # None <=> n \in 1..Height[b]
    BY Zenon DEF IdsOK, IdsFit
  <2>2. \A n \in Id : n \in 1..Height[Parent[b]] <=> n # Height[b] /\ n \in 1..Height[b]
    BY <1>1, IdFacts
  <2> QED BY <1>5, <2>1, <2>2, Zenon
<1>8. \A n \in Id : e.hashes[n] # None =>
         e.hashes[n] \in UpTo(Parent[b]) /\ Height[e.hashes[n]] = n
  <2>1. \A n \in Id : d.hashes[n] # None => d.hashes[n] \in UpTo(b) /\ Height[d.hashes[n]] = n
    BY Zenon DEF IdsOK, IdsFit
  <2>2. \A n \in Id : e.hashes[n] # None => n # Height[b] /\ e.hashes[n] = d.hashes[n]
    BY <1>5, Zenon
  <2>3. \A a \in UpTo(b) : Height[a] # Height[b] => a \in UpTo(Parent[b])
    BY <1>1, Zenon
  <2> QED BY <2>1, <2>2, <2>3, Zenon
<1>9. \A t \in Tx : e.txs[t] # None =>
         \E a \in UpTo(Parent[b]) : e.txs[t] = Height[a] /\ t \in Txs[a]
  <2>1. \A t \in Tx : e.txs[t] # None => t \notin Txs[b] /\ e.txs[t] = d.txs[t]
    BY Zenon DEF TxDisconnected
  <2>2. \A t \in Tx : d.txs[t] # None => \E a \in UpTo(b) : d.txs[t] = Height[a] /\ t \in Txs[a]
    BY Zenon DEF IdsOK, IdsFit
  <2> QED BY <1>1, <2>1, <2>2, Zenon
<1> QED BY <1>6, <1>7, <1>8, <1>9, Zenon DEF IdsOK, IdsFit

\* The transaction index after it disconnects its tip.
LEMMA TxAfterDisconnect ==
    ASSUME NEW d \in Database, NEW e \in Database, NEW b \in Block \ {Genesis},
           NEW twice \in BOOLEAN, NEW failed \in BOOLEAN,
           TxOK(d, twice, failed), Whole(d, "tx"),
           d.tip["tx"] = b, e.tip["tx"] = Parent[b],
           e.dropping = d.dropping, TxDisconnected(d, e, b)
    PROVE  TxOK(e, twice, failed) /\ Whole(e, "tx")
<1>1. UpTo(b) = UpTo(Parent[b]) \cup {b} /\ b \notin UpTo(Parent[b]) /\ Parent[b] \in Block
  BY Child, Zenon
<1>2. Whole(e, "tx")
  BY <1>1, NoneFacts, Zenon DEF Whole, Exists
<1>3. e.idBuckets
  BY Zenon DEF TxOK, TxDisconnected
<1>4. {a \in Block : e.ids[a] # None} = UpTo(Parent[b])
  <2>1. d.ids \in [Block -> Id \cup {None}]
    BY Zenon DEF Database
  <2>2. \A a \in Block : e.ids[a] # None <=> a # b /\ d.ids[a] # None
    BY <2>1, Zenon DEF TxDisconnected
  <2>3. {a \in Block : d.ids[a] # None} = UpTo(b)
    BY Zenon DEF TxOK
  <2> QED BY <1>1, <2>2, <2>3, Zenon
<1>5. ASSUME ~twice
      PROVE  /\ \A t \in Tx : e.txs[t] # None <=> \E a \in UpTo(Parent[b]) : t \in Txs[a]
             /\ NoTwice(Parent[b])
  <2>1. \A t \in Tx : e.txs[t] # None <=> t \notin Txs[b] /\ d.txs[t] # None
    BY Zenon DEF TxDisconnected
  <2>2. \A t \in Tx : d.txs[t] # None <=> \E a \in UpTo(b) : t \in Txs[a]
    BY <1>5, Zenon DEF TxOK
  <2>3. NoTwice(b)
    BY <1>5, Zenon DEF TxOK
  <2>4. NoTwice(Parent[b])
    BY <1>1, <2>3, Zenon DEF NoTwice
  <2>5. \A a \in UpTo(Parent[b]) : \A t \in Txs[a] : t \notin Txs[b]
    BY <1>1, <2>3, Zenon DEF NoTwice
  <2> QED BY <1>1, <2>1, <2>2, <2>4, <2>5, Zenon
<1>6. ASSUME ~failed PROVE IdsOK(e)
  <2>1. IdsOK(d)
    BY <1>6, Zenon DEF TxOK
  <2> QED BY <2>1, IdsAfterDisconnect, Zenon
<1> QED BY <1>2, <1>3, <1>4, <1>5, <1>6, Zenon DEF TxOK, Whole

\* The block ids stay good when the transaction index and its tip stay.
LEMMA SameIds ==
    ASSUME NEW d, NEW e, SameTx(d, e), e.tip["tx"] = d.tip["tx"], IdsOK(d)
    PROVE  IdsOK(e)
  BY Zenon DEF SameTx, IdsOK

\* An index that a step leaves alone is as good as before.
LEMMA OtherIndexes ==
    ASSUME NEW d \in Database, NEW e \in Database, e.dropping = d.dropping,
           NEW twice \in BOOLEAN, NEW failed \in BOOLEAN
    PROVE  /\ SameTx(d, e) /\ e.tip["tx"] = d.tip["tx"] /\ TxOK(d, twice, failed) =>
                 TxOK(e, twice, failed)
           /\ e.addr = d.addr /\ e.tip["addr"] = d.tip["addr"] /\ AddrOK(d, failed) =>
                 AddrOK(e, failed)
           /\ e.cf = d.cf /\ e.tip["cf"] = d.tip["cf"] /\ CfOK(d) => CfOK(e)
<1>1. ASSUME SameTx(d, e), e.tip["tx"] = d.tip["tx"], TxOK(d, twice, failed)
      PROVE  TxOK(e, twice, failed)
  <2>1. IdsOK(d) => IdsOK(e)
    BY <1>1, SameIds, Zenon
  <2> QED BY <1>1, <2>1, Zenon DEF SameTx, TxOK, Whole, Exists
<1>2. ASSUME e.addr = d.addr, e.tip["addr"] = d.tip["addr"], AddrOK(d, failed)
      PROVE  AddrOK(e, failed)
  BY <1>2, Zenon DEF AddrOK, Whole, Exists
<1>3. ASSUME e.cf = d.cf, e.tip["cf"] = d.tip["cf"], CfOK(d)
      PROVE  CfOK(e)
  BY <1>3, Zenon DEF CfOK, Whole, Exists
<1> QED BY <1>1, <1>2, <1>3, Zenon

\* The address index gets an entry with a block id.
AddrConnected(d, e, id) == e.addr = Append(d.addr, id)

\* The address index after it connects a block or disconnects its tip.
LEMMA AddrAfterConnect ==
    ASSUME NEW d \in Database, NEW e \in Database, NEW b \in Block \ {Genesis}, NEW id \in Id,
           NEW failed \in BOOLEAN, AddrOK(d, failed), Whole(d, "addr"),
           ~failed => id = Height[b],
           d.tip["addr"] = Parent[b], e.tip["addr"] = b, e.dropping = d.dropping,
           AddrConnected(d, e, id)
    PROVE  AddrOK(e, failed) /\ Whole(e, "addr")
<1>1. d.addr \in Seq(Id) /\ Height[Parent[b]] \in Nat /\ Height[b] = Height[Parent[b]] + 1
  BY Child, Zenon DEF Database
<1>2. Whole(e, "addr")
  BY NoneFacts, Zenon DEF Whole, Exists
<1>3. Len(d.addr) = Height[Parent[b]] /\ (~failed => \A k \in 1..Len(d.addr) : d.addr[k] = k)
  BY Zenon DEF AddrOK
<1>4. Len(e.addr) = Height[b]
  BY <1>1, <1>3 DEF AddrConnected
<1>5. ~failed => \A k \in 1..Len(e.addr) : e.addr[k] = k
  BY <1>1, <1>3 DEF AddrConnected
<1> QED BY <1>2, <1>4, <1>5, Zenon DEF AddrOK, Whole

\* The address index after it disconnects a block: its stack of ids is one shorter.
LEMMA AddrAfterDisconnect ==
    ASSUME NEW d \in Database, NEW e \in Database, NEW b \in Block \ {Genesis},
           NEW failed \in BOOLEAN, AddrOK(d, failed), Whole(d, "addr"), d.addr # <<>>,
           d.tip["addr"] = b, e.tip["addr"] = Parent[b], e.dropping = d.dropping,
           e.addr = Front(d.addr)
    PROVE  AddrOK(e, failed) /\ Whole(e, "addr")
<1>1. /\ d.addr \in Seq(Id) /\ Parent[b] \in Block
      /\ Height[Parent[b]] \in Nat /\ Height[b] = Height[Parent[b]] + 1
  BY Child, Zenon DEF Database
<1>2. Whole(e, "addr")
  BY <1>1, NoneFacts, Zenon DEF Whole, Exists
<1>3. Len(d.addr) = Height[b] /\ (~failed => \A k \in 1..Len(d.addr) : d.addr[k] = k)
  BY Zenon DEF AddrOK
<1>4. /\ Len(d.addr) \in Nat /\ Len(e.addr) = Len(d.addr) - 1
      /\ \A k \in 1..(Len(d.addr) - 1) : e.addr[k] = d.addr[k]
  BY <1>1, FrontFacts, Zenon
<1>5. Len(e.addr) = Height[Parent[b]]
  BY <1>1, <1>3, <1>4
<1>6. ~failed => \A k \in 1..Len(e.addr) : e.addr[k] = k
  BY <1>3, <1>4
<1> QED BY <1>2, <1>5, <1>6, Zenon DEF AddrOK, Whole

\* The filter index after it connects a block or disconnects its tip.
LEMMA CfAfter ==
    ASSUME NEW d \in Database, NEW e \in Database, NEW b \in Block \ {Genesis},
           CfOK(d), Whole(d, "cf"), e.dropping = d.dropping
    PROVE  /\ d.tip["cf"] = Parent[b] /\ e.tip["cf"] = b /\ e.cf = d.cf \cup {b} =>
                 CfOK(e) /\ Whole(e, "cf")
           /\ d.tip["cf"] = b /\ e.tip["cf"] = Parent[b] /\ e.cf = d.cf \ {b} =>
                 CfOK(e) /\ Whole(e, "cf")
<1>1. UpTo(b) = UpTo(Parent[b]) \cup {b} /\ b \notin UpTo(Parent[b]) /\ Parent[b] \in Block
  BY Child, Zenon
<1>2. d.cf = UpTo(d.tip["cf"])
  BY Zenon DEF CfOK
<1> QED BY <1>1, <1>2, NoneFacts, Zenon DEF CfOK, Whole, Exists

(***************************************************************************)
(* One index of the loops over the enabled indexes c.  x is the state of   *)
(* the transaction: its database is good, the indexes are whole, and the   *)
(* counter of block ids is at the last one given out.                      *)
(***************************************************************************)
Ready(x, c, twice, failed) ==
    /\ x \in TxState /\ x.err = "none" /\ DbOK(x.db, twice, failed)
    /\ \A i \in c : Whole(x.db, i)
    /\ "addr" \in c => "tx" \in c
    /\ ~failed /\ "tx" \in c => x.cur = Height[x.db.tip["tx"]]

\* The tip of index i goes to b, and no other.
Moved(x, y, i, b) == SameRest(x.db, y.db) /\ y.db.tip = [x.db.tip EXCEPT ![i] = b]

\* What is left to show of an index and a block, once the three indexes are good.
LEMMA MovedReady ==
    ASSUME NEW x, NEW y \in TxState, NEW c \in SUBSET Index, NEW i \in c, NEW b \in Block,
           NEW twice \in BOOLEAN, NEW failed \in BOOLEAN,
           Ready(x, c, twice, failed), y.err = "none", Moved(x, y, i, b),
           TxOK(y.db, twice, failed), AddrOK(y.db, failed), CfOK(y.db),
           ~failed /\ "tx" \in c => y.cur = Height[y.db.tip["tx"]]
    PROVE  Ready(y, c, twice, failed)
<1>1. x.db \in Database /\ y.db \in Database /\ DbOK(x.db, twice, failed)
  BY Zenon DEF Ready, TxState
<1>2. \A j \in Index : y.db.tip[j] = IF j = i THEN b ELSE x.db.tip[j]
  BY <1>1, Zenon DEF Moved, Database
<1>3. \A j \in Index : Exists(x.db, j) => Exists(y.db, j)
  BY <1>2, NoneFacts, Zenon DEF Exists
<1>4. y.db.chain = x.db.chain /\ y.db.dropping = x.db.dropping
  BY Zenon DEF Moved, SameRest
<1>5. x.db.dropping \subseteq Index
  BY <1>1, Zenon DEF Database
<1>6. DbOK(y.db, twice, failed)
  BY <1>1, <1>3, <1>4, <1>5, Zenon DEF DbOK
<1>7. \A j \in c : Whole(y.db, j)
  BY <1>3, <1>4, Zenon DEF Ready, Whole
<1> QED BY <1>6, <1>7, Zenon DEF Ready

\* The tip of an index after an operation that leaves the tips alone.
LEMMA OpThenTip ==
    ASSUME NEW x \in TxState, NEW y \in TxState, NEW i \in Index, NEW b \in Block,
           SameRest(x.db, y.db), y.db.tip = x.db.tip
    PROVE  LET z == SetTip(y, i, b)
           IN  /\ z \in TxState /\ z.db \in Database /\ z.err = y.err /\ z.cur = y.cur
               /\ Moved(x, z, i, b) /\ z.db.dropping = x.db.dropping
               /\ z.db.tip[i] = b /\ \A j \in Index : j # i => z.db.tip[j] = x.db.tip[j]
               /\ z.db.txs = y.db.txs /\ z.db.ids = y.db.ids /\ z.db.hashes = y.db.hashes
               /\ z.db.idBuckets = y.db.idBuckets /\ z.db.addr = y.db.addr /\ z.db.cf = y.db.cf
<1> DEFINE z == SetTip(y, i, b)
<1>1. /\ z \in TxState /\ z.err = y.err /\ z.cur = y.cur
      /\ SameRest(y.db, z.db) /\ SameTx(y.db, z.db)
      /\ z.db.addr = y.db.addr /\ z.db.cf = y.db.cf
      /\ z.db.tip = [y.db.tip EXCEPT ![i] = b]
  BY SetsTip, Zenon
<1> HIDE DEF z
<1>2. x.db.tip \in [Index -> Block \cup {None}] /\ z.db \in Database
  BY <1>1, Zenon DEF TxState, Database
<1>3. Moved(x, z, i, b) /\ z.db.dropping = x.db.dropping
  BY <1>1, Zenon DEF Moved, SameRest
<1>4. z.db.tip[i] = b /\ \A j \in Index : j # i => z.db.tip[j] = x.db.tip[j]
  BY <1>1, <1>2, Zenon
<1> QED BY <1>1, <1>2, <1>3, <1>4, Zenon DEF z, SameTx

\* dbIndexConnectBlock fails, and nothing changes, or the index gets the block.
Connects(x, y, i, b, c, twice, failed) ==
    \/ /\ y \in TxState /\ y.err # "none" /\ y.cur = x.cur
       /\ x.db.tip[i] # Parent[b] \/ (i = "addr" /\ x.db.ids[b] = None)
    \/ x.db.tip[i] = Parent[b] /\ Ready(y, c, twice, failed) /\ Moved(x, y, i, b)

\* TxIndex.ConnectBlock at the parent of the block succeeds and gives it the next id.
LEMMA ConnectsTx ==
    ASSUME NEW x, NEW c \in SUBSET Index, "tx" \in c, NEW b \in Block \ {Genesis},
           NEW twice \in BOOLEAN, NEW failed \in BOOLEAN,
           Ready(x, c, twice, failed), ~twice => NoTwice(b), x.db.tip["tx"] = Parent[b]
    PROVE  LET z == SetTip(TxConnectBlock(x, b), "tx", b)
           IN  Ready(z, c, twice, failed) /\ Moved(x, z, "tx", b) /\ TxConnectBlock(x, b).err = "none"
<1> DEFINE y == TxConnectBlock(x, b)
           z == SetTip(y, "tx", b)
           id == (x.cur + 1) % IdSpace
<1>1. /\ x \in TxState /\ x.db \in Database /\ x.err = "none"
      /\ TxOK(x.db, twice, failed) /\ AddrOK(x.db, failed) /\ CfOK(x.db)
      /\ Whole(x.db, "tx") /\ "tx" \in Index /\ "addr" \in Index /\ "cf" \in Index
  BY Zenon DEF Ready, DbOK, Index
<1>2. /\ y \in TxState /\ y.err = x.err /\ y.cur = id /\ id \in Id
      /\ SameRest(x.db, y.db) /\ y.db.tip = x.db.tip
      /\ y.db.addr = x.db.addr /\ y.db.cf = x.db.cf /\ TxConnected(x.db, y.db, b, id)
  BY <1>1, TxConnects, Zenon
<1> HIDE DEF y
<1>3. /\ z \in TxState /\ z.db \in Database /\ z.err = y.err /\ z.cur = y.cur
      /\ Moved(x, z, "tx", b) /\ z.db.dropping = x.db.dropping
      /\ z.db.tip["tx"] = b /\ \A j \in Index : j # "tx" => z.db.tip[j] = x.db.tip[j]
      /\ z.db.txs = y.db.txs /\ z.db.ids = y.db.ids /\ z.db.hashes = y.db.hashes
      /\ z.db.idBuckets = y.db.idBuckets /\ z.db.addr = y.db.addr /\ z.db.cf = y.db.cf
  BY <1>1, <1>2, OpThenTip
<1> HIDE DEF z
<1>4. TxConnected(x.db, z.db, b, id)
  BY <1>2, <1>3, Zenon DEF TxConnected
<1>5. ~failed => id = Height[b]
  <2>1. ~failed => x.cur = Height[Parent[b]]
    BY Zenon DEF Ready
  <2>2. Parent[b] \in Block /\ Height[b] = Height[Parent[b]] + 1
    BY Child, Zenon
  <2> QED BY <2>1, <2>2, Counter, Zenon
<1> HIDE DEF id
<1>6. TxOK(z.db, twice, failed)
  BY <1>1, <1>2, <1>3, <1>4, <1>5, TxAfterConnect
<1>7. AddrOK(z.db, failed) /\ CfOK(z.db)
  BY <1>1, <1>2, <1>3, OtherIndexes
<1>8. Ready(z, c, twice, failed)
  BY <1>1, <1>2, <1>3, <1>5, <1>6, <1>7, MovedReady
<1> QED BY <1>1, <1>2, <1>3, <1>8, Zenon DEF y, z

\* AddrIndex.ConnectBlock at the parent of the block succeeds if the block has an id,
\* and fails if not.
LEMMA ConnectsAddr ==
    ASSUME NEW x, NEW c \in SUBSET Index, "addr" \in c, NEW b \in Block \ {Genesis},
           NEW twice \in BOOLEAN, NEW failed \in BOOLEAN,
           Ready(x, c, twice, failed), x.db.tip["addr"] = Parent[b]
    PROVE  LET y == AddrConnectBlock(x, b)
               z == SetTip(y, "addr", b)
           IN  \/ x.db.ids[b] = None /\ y.err # "none" /\ y.cur = x.cur /\ y \in TxState
               \/ Ready(z, c, twice, failed) /\ Moved(x, z, "addr", b) /\ y.err = "none"
<1> DEFINE y == AddrConnectBlock(x, b)
           z == SetTip(y, "addr", b)
<1>1. /\ x \in TxState /\ x.db \in Database /\ x.err = "none"
      /\ TxOK(x.db, twice, failed) /\ AddrOK(x.db, failed) /\ CfOK(x.db)
      /\ Whole(x.db, "tx") /\ Whole(x.db, "addr")
      /\ "tx" \in Index /\ "addr" \in Index /\ "cf" \in Index
  BY Zenon DEF Ready, DbOK, Index
<1>2. \/ x.db.ids[b] = None /\ y.err # "none" /\ y.cur = x.cur /\ y \in TxState
      \/ /\ x.db.ids[b] # None /\ y \in TxState /\ y.err = "none" /\ y.cur = x.cur
         /\ SameRest(x.db, y.db) /\ y.db.tip = x.db.tip /\ SameTx(x.db, y.db)
         /\ y.db.cf = x.db.cf /\ y.db.addr = Append(x.db.addr, x.db.ids[b])
  BY <1>1, AddrConnects, Zenon
<1>3. CASE x.db.ids[b] # None
  <2>1. /\ y \in TxState /\ y.err = "none" /\ y.cur = x.cur
        /\ SameRest(x.db, y.db) /\ y.db.tip = x.db.tip /\ SameTx(x.db, y.db)
        /\ y.db.cf = x.db.cf /\ y.db.addr = Append(x.db.addr, x.db.ids[b])
    BY <1>2, <1>3, Zenon
  <2> HIDE DEF y
  <2>2. /\ z \in TxState /\ z.db \in Database /\ z.err = y.err /\ z.cur = y.cur
        /\ Moved(x, z, "addr", b) /\ z.db.dropping = x.db.dropping
        /\ z.db.tip["addr"] = b /\ \A j \in Index : j # "addr" => z.db.tip[j] = x.db.tip[j]
        /\ z.db.txs = y.db.txs /\ z.db.ids = y.db.ids /\ z.db.hashes = y.db.hashes
        /\ z.db.idBuckets = y.db.idBuckets /\ z.db.addr = y.db.addr /\ z.db.cf = y.db.cf
    BY <1>1, <2>1, OpThenTip
  <2> HIDE DEF z
  <2>3. SameTx(x.db, z.db) /\ z.db.tip["tx"] = x.db.tip["tx"] /\ z.db.tip["cf"] = x.db.tip["cf"]
    BY <1>1, <2>1, <2>2, Zenon DEF SameTx
  <2>4. x.db.ids[b] \in Id
    BY <1>1, <1>3, Zenon DEF Database
  <2>5. ~failed => x.db.ids[b] = Height[b]
    <3>1. b \in UpTo(x.db.tip["tx"])
      BY <1>1, <1>3, Zenon DEF TxOK
    <3> QED BY <1>1, <3>1, Zenon DEF TxOK, IdsOK, IdsFit
  <2>6. AddrOK(z.db, failed)
    <3>1. AddrConnected(x.db, z.db, x.db.ids[b])
      BY <2>1, <2>2, Zenon DEF AddrConnected
    <3>2. z.db \in Database /\ z.db.tip["addr"] = b /\ z.db.dropping = x.db.dropping
      BY <2>2, Zenon
    <3> QED BY <1>1, <2>4, <2>5, <3>1, <3>2, AddrAfterConnect
  <2>7. TxOK(z.db, twice, failed) /\ CfOK(z.db)
    BY <1>1, <2>1, <2>2, <2>3, OtherIndexes
  <2>8. ~failed /\ "tx" \in c => z.cur = Height[z.db.tip["tx"]]
    BY <2>1, <2>2, <2>3, Zenon DEF Ready
  <2>9. Ready(z, c, twice, failed)
    BY <1>1, <2>1, <2>2, <2>6, <2>7, <2>8, MovedReady
  <2> QED BY <2>1, <2>2, <2>9, Zenon DEF y, z
<1> QED BY <1>2, <1>3, Zenon

\* CFIndex.ConnectBlock at the parent of the block succeeds.
LEMMA ConnectsCf ==
    ASSUME NEW x, NEW c \in SUBSET Index, "cf" \in c, NEW b \in Block \ {Genesis},
           NEW twice \in BOOLEAN, NEW failed \in BOOLEAN, Ready(x, c, twice, failed),
           NEW y, NEW t \in Block,
           \/ x.db.tip["cf"] = Parent[b] /\ t = b /\ y = CfConnectBlock(x, b)
           \/ x.db.tip["cf"] = b /\ t = Parent[b] /\ y = CfDisconnectBlock(x, b)
    PROVE  LET z == SetTip(y, "cf", t)
           IN  Ready(z, c, twice, failed) /\ Moved(x, z, "cf", t) /\ y.err = "none"
<1> DEFINE z == SetTip(y, "cf", t)
           cf == IF t = b THEN x.db.cf \cup {b} ELSE x.db.cf \ {b}
<1>1. /\ x \in TxState /\ x.db \in Database /\ x.err = "none"
      /\ TxOK(x.db, twice, failed) /\ AddrOK(x.db, failed) /\ CfOK(x.db)
      /\ Whole(x.db, "cf") /\ "tx" \in Index /\ "addr" \in Index /\ "cf" \in Index
  BY Zenon DEF Ready, DbOK, Index
<1>2. Parent[b] # b /\ Parent[b] \in Block
  BY Child
<1>3. x.db.cf \cup {b} \in SUBSET Block /\ x.db.cf \ {b} \in SUBSET Block
  BY <1>1, Zenon DEF Database
<1>4. cf \in SUBSET Block /\ y = [x EXCEPT !.db = [x.db EXCEPT !.cf = cf]]
  BY <1>2, <1>3, Zenon DEF CfConnectBlock, CfDisconnectBlock
<1> HIDE DEF cf
<1>5. /\ y \in TxState /\ y.err = x.err /\ y.cur = x.cur
      /\ SameRest(x.db, y.db) /\ y.db.tip = x.db.tip /\ SameTx(x.db, y.db)
      /\ y.db.addr = x.db.addr /\ y.db.cf = cf
  BY <1>1, <1>4, CfChanges, Zenon
<1>6. /\ z \in TxState /\ z.db \in Database /\ z.err = y.err /\ z.cur = y.cur
      /\ Moved(x, z, "cf", t) /\ z.db.dropping = x.db.dropping
      /\ z.db.tip["cf"] = t /\ \A j \in Index : j # "cf" => z.db.tip[j] = x.db.tip[j]
      /\ z.db.txs = y.db.txs /\ z.db.ids = y.db.ids /\ z.db.hashes = y.db.hashes
      /\ z.db.idBuckets = y.db.idBuckets /\ z.db.addr = y.db.addr /\ z.db.cf = y.db.cf
  BY <1>1, <1>5, OpThenTip
<1> HIDE DEF z
<1>7. SameTx(x.db, z.db) /\ z.db.tip["tx"] = x.db.tip["tx"] /\ z.db.tip["addr"] = x.db.tip["addr"]
  BY <1>1, <1>5, <1>6, Zenon DEF SameTx
<1>8. CfOK(z.db)
  <2>1. CASE t = b
    <3>1. x.db.tip["cf"] = Parent[b] /\ z.db.cf = x.db.cf \cup {b}
      BY <1>2, <1>5, <1>6, <2>1, Zenon DEF cf
    <3> QED BY <1>1, <1>6, <2>1, <3>1, CfAfter
  <2>2. CASE t # b
    <3>1. x.db.tip["cf"] = b /\ t = Parent[b] /\ z.db.cf = x.db.cf \ {b}
      BY <1>2, <1>5, <1>6, <2>2, Zenon DEF cf
    <3> QED BY <1>1, <1>6, <3>1, CfAfter
  <2> QED BY <2>1, <2>2, Zenon
<1>9. TxOK(z.db, twice, failed) /\ AddrOK(z.db, failed)
  BY <1>1, <1>5, <1>6, <1>7, OtherIndexes
<1>10. ~failed /\ "tx" \in c => z.cur = Height[z.db.tip["tx"]]
  BY <1>5, <1>6, <1>7, Zenon DEF Ready
<1>11. Ready(z, c, twice, failed)
  BY <1>1, <1>5, <1>6, <1>8, <1>9, <1>10, MovedReady
<1> QED BY <1>1, <1>5, <1>6, <1>11, Zenon DEF z

\* dbIndexConnectBlock: the index moves to the block, or the error is its tip that is
\* not the parent, or an id that is missing.
LEMMA ConnectStep ==
    ASSUME NEW x, NEW c \in SUBSET Index, NEW i \in c, NEW b \in Block \ {Genesis},
           NEW twice \in BOOLEAN, NEW failed \in BOOLEAN,
           Ready(x, c, twice, failed), ~twice => NoTwice(b)
    PROVE  Connects(x, DbIndexConnectBlock(x, i, b), i, b, c, twice, failed)
<1>1. x \in TxState /\ x.err = "none"
  BY Zenon DEF Ready
<1>2. CASE x.db.tip[i] # Parent[b]
  <2>1. DbIndexConnectBlock(x, i, b) = Failed(x, "assertion")
    BY <1>1, <1>2, Zenon DEF DbIndexConnectBlock
  <2>2. "assertion" \in Reason /\ "assertion" # "none"
    BY DEF Reason
  <2>3. Failed(x, "assertion") \in TxState /\ Failed(x, "assertion").err = "assertion" /\
        Failed(x, "assertion").cur = x.cur
    BY <1>1, <2>2, Fails, Zenon
  <2> QED BY <1>2, <2>1, <2>2, <2>3, Zenon DEF Connects
<1>3. CASE x.db.tip[i] = Parent[b] /\ i = "tx"
  <2>1. TxConnectBlock(x, b).err = "none"
    BY <1>3, ConnectsTx, Zenon
  <2>2. DbIndexConnectBlock(x, i, b) = SetTip(TxConnectBlock(x, b), "tx", b)
    BY <1>1, <1>3, <2>1 DEF DbIndexConnectBlock
  <2> QED BY <1>3, <2>2, ConnectsTx, Zenon DEF Connects
<1>4. CASE x.db.tip[i] = Parent[b] /\ i = "addr"
  <2>1. DbIndexConnectBlock(x, i, b) = IF AddrConnectBlock(x, b).err # "none"
                                       THEN AddrConnectBlock(x, b)
                                       ELSE SetTip(AddrConnectBlock(x, b), "addr", b)
    BY <1>1, <1>4 DEF DbIndexConnectBlock
  <2> QED BY <1>4, <2>1, ConnectsAddr, Zenon DEF Connects
<1>5. CASE x.db.tip[i] = Parent[b] /\ i = "cf"
  <2>1. Ready(SetTip(CfConnectBlock(x, b), "cf", b), c, twice, failed) /\
        Moved(x, SetTip(CfConnectBlock(x, b), "cf", b), "cf", b) /\ CfConnectBlock(x, b).err = "none"
    BY <1>5, ConnectsCf
  <2>2. DbIndexConnectBlock(x, i, b) = SetTip(CfConnectBlock(x, b), "cf", b)
    BY <1>1, <1>5, <2>1 DEF DbIndexConnectBlock
  <2> QED BY <1>5, <2>1, <2>2, Zenon DEF Connects
<1> QED BY <1>2, <1>3, <1>4, <1>5, Zenon DEF Index

\* dbIndexDisconnectBlock fails, and nothing changes, or the index gives the block up.
\* Only the transaction index fails on its tip, when an entry is missing.
Disconnects(x, y, i, b, c, twice, failed) ==
    \/ y \in TxState /\ y.err # "none" /\ y.cur = x.cur /\ (x.db.tip[i] # b \/ i = "tx")
    \/ x.db.tip[i] = b /\ Ready(y, c, twice, failed) /\ Moved(x, y, i, Parent[b])

\* TxIndex.DisconnectBlock at its tip gives the id back, or fails for an entry that is
\* missing.
LEMMA DisconnectsTx ==
    ASSUME NEW x, NEW c \in SUBSET Index, "tx" \in c, NEW b \in Block \ {Genesis},
           NEW twice \in BOOLEAN, NEW failed \in BOOLEAN,
           Ready(x, c, twice, failed), x.db.tip["tx"] = b
    PROVE  LET y == TxDisconnectBlock(x, b)
               z == SetTip(y, "tx", Parent[b])
           IN  \/ y.err # "none" /\ y.cur = x.cur /\ y \in TxState
               \/ Ready(z, c, twice, failed) /\ Moved(x, z, "tx", Parent[b]) /\ y.err = "none"
<1> DEFINE y == TxDisconnectBlock(x, b)
           z == SetTip(y, "tx", Parent[b])
<1>1. /\ x \in TxState /\ x.db \in Database /\ x.err = "none"
      /\ TxOK(x.db, twice, failed) /\ AddrOK(x.db, failed) /\ CfOK(x.db)
      /\ Whole(x.db, "tx") /\ "tx" \in Index /\ "addr" \in Index /\ "cf" \in Index
  BY Zenon DEF Ready, DbOK, Index
<1>2. \/ y.err # "none" /\ y.cur = x.cur /\ y \in TxState
      \/ /\ y \in TxState /\ y.err = "none" /\ y.cur = (x.cur + IdSpace - 1) % IdSpace
         /\ SameRest(x.db, y.db) /\ y.db.tip = x.db.tip
         /\ y.db.addr = x.db.addr /\ y.db.cf = x.db.cf /\ TxDisconnected(x.db, y.db, b)
  BY <1>1, TxDisconnects, Zenon
<1>3. CASE y.err = "none"
  <2>1. /\ y \in TxState /\ y.cur = (x.cur + IdSpace - 1) % IdSpace
        /\ SameRest(x.db, y.db) /\ y.db.tip = x.db.tip
        /\ y.db.addr = x.db.addr /\ y.db.cf = x.db.cf /\ TxDisconnected(x.db, y.db, b)
    BY <1>2, <1>3, Zenon
  <2>2. /\ Parent[b] \in Block /\ Height[b] = Height[Parent[b]] + 1
        /\ Height[Parent[b]] \in Nat /\ Height[Parent[b]] + 1 \in Id
    BY Child, IdFacts, Zenon
  <2> HIDE DEF y
  <2>3. /\ z \in TxState /\ z.db \in Database /\ z.err = y.err /\ z.cur = y.cur
        /\ Moved(x, z, "tx", Parent[b]) /\ z.db.dropping = x.db.dropping
        /\ z.db.tip["tx"] = Parent[b] /\ \A j \in Index : j # "tx" => z.db.tip[j] = x.db.tip[j]
        /\ z.db.txs = y.db.txs /\ z.db.ids = y.db.ids /\ z.db.hashes = y.db.hashes
        /\ z.db.idBuckets = y.db.idBuckets /\ z.db.addr = y.db.addr /\ z.db.cf = y.db.cf
    BY <1>1, <2>1, <2>2, OpThenTip
  <2> HIDE DEF z
  <2>4. TxDisconnected(x.db, z.db, b)
    BY <2>1, <2>3, Zenon DEF TxDisconnected
  <2>5. ~failed => z.cur = Height[z.db.tip["tx"]]
    <3>1. ~failed => x.cur = Height[Parent[b]] + 1
      BY <2>2, Zenon DEF Ready
    <3> QED BY <2>1, <2>2, <2>3, <3>1, Counter, Zenon
  <2>6. TxOK(z.db, twice, failed)
    BY <1>1, <2>3, <2>4, TxAfterDisconnect
  <2>7. AddrOK(z.db, failed) /\ CfOK(z.db)
    BY <1>1, <2>1, <2>3, OtherIndexes
  <2>8. Ready(z, c, twice, failed)
    BY <1>1, <1>3, <2>2, <2>3, <2>5, <2>6, <2>7, MovedReady
  <2> QED BY <1>3, <2>3, <2>8, Zenon DEF y, z
<1> QED BY <1>2, <1>3, Zenon

\* AddrIndex.DisconnectBlock at its tip succeeds: there is an entry to take away.
LEMMA DisconnectsAddr ==
    ASSUME NEW x, NEW c \in SUBSET Index, "addr" \in c, NEW b \in Block \ {Genesis},
           NEW twice \in BOOLEAN, NEW failed \in BOOLEAN,
           Ready(x, c, twice, failed), x.db.tip["addr"] = b
    PROVE  LET y == AddrDisconnectBlock(x, b)
               z == SetTip(y, "addr", Parent[b])
           IN  Ready(z, c, twice, failed) /\ Moved(x, z, "addr", Parent[b]) /\ y.err = "none"
<1> DEFINE y == AddrDisconnectBlock(x, b)
           z == SetTip(y, "addr", Parent[b])
<1>1. /\ x \in TxState /\ x.db \in Database /\ x.err = "none"
      /\ TxOK(x.db, twice, failed) /\ AddrOK(x.db, failed) /\ CfOK(x.db)
      /\ Whole(x.db, "addr") /\ "tx" \in Index /\ "addr" \in Index /\ "cf" \in Index
  BY Zenon DEF Ready, DbOK, Index
<1>2. Parent[b] \in Block /\ Height[b] = Height[Parent[b]] + 1 /\ Height[Parent[b]] \in Nat
  BY Child, Zenon
<1>3. x.db.addr # <<>>
  <2>1. Len(x.db.addr) = Height[b]
    BY <1>1, Zenon DEF AddrOK
  <2> QED BY <1>2, <2>1
<1>4. /\ y \in TxState /\ y.err = "none" /\ y.cur = x.cur
      /\ SameRest(x.db, y.db) /\ y.db.tip = x.db.tip /\ SameTx(x.db, y.db)
      /\ y.db.cf = x.db.cf /\ y.db.addr = Front(x.db.addr)
  BY <1>1, <1>3, AddrDisconnects, Zenon
<1> HIDE DEF y
<1>5. /\ z \in TxState /\ z.db \in Database /\ z.err = y.err /\ z.cur = y.cur
      /\ Moved(x, z, "addr", Parent[b]) /\ z.db.dropping = x.db.dropping
      /\ z.db.tip["addr"] = Parent[b] /\ \A j \in Index : j # "addr" => z.db.tip[j] = x.db.tip[j]
      /\ z.db.txs = y.db.txs /\ z.db.ids = y.db.ids /\ z.db.hashes = y.db.hashes
      /\ z.db.idBuckets = y.db.idBuckets /\ z.db.addr = y.db.addr /\ z.db.cf = y.db.cf
  BY <1>1, <1>2, <1>4, OpThenTip
<1> HIDE DEF z
<1>6. SameTx(x.db, z.db) /\ z.db.tip["tx"] = x.db.tip["tx"] /\ z.db.tip["cf"] = x.db.tip["cf"]
  BY <1>1, <1>4, <1>5, Zenon DEF SameTx
<1>7. AddrOK(z.db, failed)
  BY <1>1, <1>3, <1>4, <1>5, AddrAfterDisconnect
<1>8. TxOK(z.db, twice, failed) /\ CfOK(z.db)
  BY <1>1, <1>4, <1>5, <1>6, OtherIndexes
<1>9. ~failed /\ "tx" \in c => z.cur = Height[z.db.tip["tx"]]
  BY <1>4, <1>5, <1>6, Zenon DEF Ready
<1>10. Ready(z, c, twice, failed)
  BY <1>1, <1>2, <1>4, <1>5, <1>7, <1>8, <1>9, MovedReady
<1> QED BY <1>4, <1>5, <1>10, Zenon DEF y, z

\* dbIndexDisconnectBlock: the index moves to the parent, or fails and changes nothing.
LEMMA DisconnectStep ==
    ASSUME NEW x, NEW c \in SUBSET Index, NEW i \in c, NEW b \in Block \ {Genesis},
           NEW twice \in BOOLEAN, NEW failed \in BOOLEAN, Ready(x, c, twice, failed)
    PROVE  Disconnects(x, DbIndexDisconnectBlock(x, i, b), i, b, c, twice, failed)
<1>1. x \in TxState /\ x.err = "none"
  BY Zenon DEF Ready
<1>2. CASE x.db.tip[i] # b
  <2>1. DbIndexDisconnectBlock(x, i, b) = Failed(x, "assertion")
    BY <1>1, <1>2, Zenon DEF DbIndexDisconnectBlock
  <2>2. "assertion" \in Reason /\ "assertion" # "none"
    BY DEF Reason
  <2>3. Failed(x, "assertion") \in TxState /\ Failed(x, "assertion").err = "assertion" /\
        Failed(x, "assertion").cur = x.cur
    BY <1>1, <2>2, Fails, Zenon
  <2> QED BY <1>2, <2>1, <2>2, <2>3, Zenon DEF Disconnects
<1>3. CASE x.db.tip[i] = b /\ i = "tx"
  <2>1. DbIndexDisconnectBlock(x, i, b) = IF TxDisconnectBlock(x, b).err # "none"
                                          THEN TxDisconnectBlock(x, b)
                                          ELSE SetTip(TxDisconnectBlock(x, b), "tx", Parent[b])
    BY <1>1, <1>3 DEF DbIndexDisconnectBlock
  <2>2. \/ /\ TxDisconnectBlock(x, b).err # "none" /\ TxDisconnectBlock(x, b).cur = x.cur
           /\ TxDisconnectBlock(x, b) \in TxState
        \/ /\ Ready(SetTip(TxDisconnectBlock(x, b), "tx", Parent[b]), c, twice, failed)
           /\ Moved(x, SetTip(TxDisconnectBlock(x, b), "tx", Parent[b]), "tx", Parent[b])
           /\ TxDisconnectBlock(x, b).err = "none"
    BY <1>3, DisconnectsTx
  <2> QED BY <1>3, <2>1, <2>2, Zenon DEF Disconnects
<1>4. CASE x.db.tip[i] = b /\ i = "addr"
  <2>1. /\ Ready(SetTip(AddrDisconnectBlock(x, b), "addr", Parent[b]), c, twice, failed)
        /\ Moved(x, SetTip(AddrDisconnectBlock(x, b), "addr", Parent[b]), "addr", Parent[b])
        /\ AddrDisconnectBlock(x, b).err = "none"
    BY <1>4, DisconnectsAddr
  <2>2. DbIndexDisconnectBlock(x, i, b) = SetTip(AddrDisconnectBlock(x, b), "addr", Parent[b])
    BY <1>1, <1>4, <2>1 DEF DbIndexDisconnectBlock
  <2> QED BY <1>4, <2>1, <2>2, Zenon DEF Disconnects
<1>5. CASE x.db.tip[i] = b /\ i = "cf"
  <2>1. Parent[b] \in Block
    BY Child, Zenon
  <2>2. /\ Ready(SetTip(CfDisconnectBlock(x, b), "cf", Parent[b]), c, twice, failed)
        /\ Moved(x, SetTip(CfDisconnectBlock(x, b), "cf", Parent[b]), "cf", Parent[b])
        /\ CfDisconnectBlock(x, b).err = "none"
    BY <1>5, <2>1, ConnectsCf
  <2>3. DbIndexDisconnectBlock(x, i, b) = SetTip(CfDisconnectBlock(x, b), "cf", Parent[b])
    BY <1>1, <1>5, <2>2 DEF DbIndexDisconnectBlock
  <2> QED BY <1>5, <2>2, <2>3, Zenon DEF Disconnects
<1> QED BY <1>2, <1>3, <1>4, <1>5, Zenon DEF Index

(***************************************************************************)
(* The loops over the indexes.                                             *)
(***************************************************************************)
\* The indexes done have moved to t and the others are where they were.
Progress(x, y, c, done, t, twice, failed) ==
    /\ Ready(y, c, twice, failed) /\ SameRest(x.db, y.db)
    /\ \A i \in Index : y.db.tip[i] = IF i \in done THEN t ELSE x.db.tip[i]

\* No index has moved at the beginning of a loop over the indexes.
LEMMA Begins ==
    ASSUME NEW x, NEW c \in SUBSET Index, NEW t, NEW twice \in BOOLEAN, NEW failed \in BOOLEAN,
           Ready(x, c, twice, failed)
    PROVE  Progress(x, x, c, {}, t, twice, failed)
  BY Zenon DEF Progress, SameRest

\* One more index of the loop has moved.
LEMMA Proceeds ==
    ASSUME NEW x, NEW y, NEW z, NEW c \in SUBSET Index, NEW done \in SUBSET Index, NEW i \in c,
           NEW t \in Block, NEW twice \in BOOLEAN, NEW failed \in BOOLEAN,
           Progress(x, y, c, done, t, twice, failed),
           Ready(z, c, twice, failed), Moved(y, z, i, t)
    PROVE  Progress(x, z, c, done \cup {i}, t, twice, failed)
<1>1. y.db.tip \in [Index -> Block \cup {None}]
  BY Zenon DEF Progress, Ready, TxState, Database
<1>2. \A j \in Index : z.db.tip[j] = IF j = i THEN t ELSE y.db.tip[j]
  BY <1>1, Zenon DEF Moved
<1>3. \A j \in Index : y.db.tip[j] = IF j \in done THEN t ELSE x.db.tip[j]
  BY Zenon DEF Progress
<1>4. \A j \in Index : z.db.tip[j] = IF j \in done \cup {i} THEN t ELSE x.db.tip[j]
  BY <1>2, <1>3, Zenon
<1>5. SameRest(x.db, z.db)
  BY Zenon DEF Progress, Moved, SameRest
<1> QED BY <1>4, <1>5, Zenon DEF Progress

\* The loops over the indexes of a set: a block is connected, disconnected, and
\* connected in the catch-up.
ConnectAll(x, c, b) ==
    LET connect(y, i) == DbIndexConnectBlock(y, i, b) IN ForEach(connect, x, c)
DisconnectAll(x, c, b) ==
    LET disconnect(y, i) == DbIndexDisconnectBlock(y, i, b) IN ForEach(disconnect, x, c)
CatchUpAll(x, c, b) ==
    LET connect(y, i) == DbIndexConnectBlock(MakeUtxoView(y, i, b), i, b) IN ForEach(connect, x, c)

\* Manager.ConnectBlock: when the enabled indexes are at the parent of the block, all
\* of them get it.
LEMMA AllConnect ==
    ASSUME NEW x, NEW c \in SUBSET Index, NEW b \in Block \ {Genesis},
           NEW twice \in BOOLEAN, NEW failed \in BOOLEAN,
           Ready(x, c, twice, failed), ~twice => NoTwice(b),
           \A i \in c : x.db.tip[i] = Parent[b]
    PROVE  Progress(x, ConnectAll(x, c, b), c, c, b, twice, failed)
<1> DEFINE step(y, i) == IF i \in c THEN DbIndexConnectBlock(y, i, b) ELSE y
           P(y, done) == Progress(x, y, c, done \cap c, b, twice, failed)
<1>1. ASSUME NEW y, NEW done \in SUBSET Index, NEW i \in Index, i \notin done, P(y, done),
             i = "addr" => "tx" \in done
      PROVE  P(step(y, i), done \cup {i})
  <2>1. CASE i \notin c
    <3>1. (done \cup {i}) \cap c = done \cap c
      BY <2>1, Zenon
    <3> QED BY <1>1, <2>1, <3>1, Zenon
  <2>2. CASE i \in c
    <3>1. Ready(y, c, twice, failed) /\ y.db.tip[i] = Parent[b]
      <4>1. i \notin done \cap c /\ x.db.tip[i] = Parent[b]
        BY <1>1, <2>2, Zenon
      <4> QED BY <1>1, <4>1, Zenon DEF Progress
    <3>2. i = "addr" => y.db.ids[b] # None
      <4>1. ASSUME i = "addr"
            PROVE  y.db.ids[b] # None
        <5>1. "tx" \in c /\ "tx" \in done /\ "tx" \in Index
          BY <1>1, <2>2, <3>1, <4>1, Zenon DEF Ready, Index
        <5>2. y.db.tip["tx"] = b /\ Whole(y.db, "tx") /\ TxOK(y.db, twice, failed)
          BY <1>1, <5>1, Zenon DEF Progress, Ready, DbOK
        <5>3. UpTo(b) = UpTo(Parent[b]) \cup {b}
          BY Child, Zenon
        <5> QED BY <5>2, <5>3, Zenon DEF TxOK
      <4> QED BY <4>1, Zenon
    <3>3. Connects(y, DbIndexConnectBlock(y, i, b), i, b, c, twice, failed)
      BY <2>2, <3>1, ConnectStep
    <3>4. Ready(step(y, i), c, twice, failed) /\ Moved(y, step(y, i), i, b)
      BY <2>2, <3>1, <3>2, <3>3, Zenon DEF Connects
    <3>5. (done \cup {i}) \cap c = (done \cap c) \cup {i} /\ done \cap c \in SUBSET Index
      BY <2>2, Zenon
    <3> HIDE DEF step
    <3> QED BY <1>1, <2>2, <3>4, <3>5, Proceeds
  <2> QED BY <2>1, <2>2, Zenon
<1>2. P(x, {})
  <2>1. {} \cap c = {}
    BY Zenon
  <2> QED BY <2>1, Begins, Zenon
<1> HIDE DEF P
<1>3. P(step(x, "tx"), {} \cup {"tx"})
  BY <1>1, <1>2, Zenon DEF Index
<1>4. P(step(step(x, "tx"), "addr"), {} \cup {"tx"} \cup {"addr"})
  BY <1>1, <1>3, Zenon DEF Index
<1>5. P(step(step(step(x, "tx"), "addr"), "cf"), {} \cup {"tx"} \cup {"addr"} \cup {"cf"})
  BY <1>1, <1>4, Zenon DEF Index
<1>6. ({} \cup {"tx"} \cup {"addr"} \cup {"cf"}) \cap c = c
  BY Zenon DEF Index
<1> QED BY <1>5, <1>6, Zenon DEF ConnectAll, ForEach, P

\* Manager.DisconnectBlock: when the enabled indexes are at the block, all of them give
\* it up, or the transaction index fails before the others are asked.
LEMMA AllDisconnect ==
    ASSUME NEW x, NEW c \in SUBSET Index, NEW b \in Block \ {Genesis},
           NEW twice \in BOOLEAN, NEW failed \in BOOLEAN,
           Ready(x, c, twice, failed), \A i \in c : x.db.tip[i] = b
    PROVE  LET z == DisconnectAll(x, c, b)
           IN  \/ z.err # "none" /\ z.cur = x.cur
               \/ Progress(x, z, c, c, Parent[b], twice, failed)
<1> DEFINE step(y, i) == IF i \in c THEN DbIndexDisconnectBlock(y, i, b) ELSE y
           P(y, done) == Progress(x, y, c, done \cap c, Parent[b], twice, failed)
           E(y) == y.err # "none" /\ y.cur = x.cur
<1>1. ASSUME NEW y, NEW done \in SUBSET Index, NEW i \in Index, i \notin done,
             E(y) \/ P(y, done), i = "tx" => y = x
      PROVE  E(step(y, i)) \/ P(step(y, i), done \cup {i})
  <2>1. CASE E(y)
    <3>1. step(y, i) = y
      BY <2>1, Zenon DEF DbIndexDisconnectBlock
    <3> HIDE DEF step
    <3> QED BY <2>1, <3>1, Zenon
  <2>2. CASE P(y, done) /\ i \notin c
    <3>1. (done \cup {i}) \cap c = done \cap c
      BY <2>2, Zenon
    <3> QED BY <2>2, <3>1, Zenon
  <2>3. CASE P(y, done) /\ i \in c
    <3>1. Ready(y, c, twice, failed) /\ y.db.tip[i] = b
      <4>1. i \notin done \cap c /\ x.db.tip[i] = b
        BY <1>1, <2>3, Zenon
      <4> QED BY <2>3, <4>1, Zenon DEF Progress
    <3>2. Disconnects(y, DbIndexDisconnectBlock(y, i, b), i, b, c, twice, failed)
      BY <2>3, <3>1, DisconnectStep
    <3>3. step(y, i) = DbIndexDisconnectBlock(y, i, b)
      BY <2>3, Zenon
    <3> HIDE DEF step
    <3>4. \/ E(step(y, i))
          \/ Ready(step(y, i), c, twice, failed) /\ Moved(y, step(y, i), i, Parent[b])
      BY <1>1, <3>1, <3>2, <3>3, Zenon DEF Disconnects
    <3>5. (done \cup {i}) \cap c = (done \cap c) \cup {i} /\ done \cap c \in SUBSET Index
      BY <2>3, Zenon
    <3>6. Parent[b] \in Block
      BY Child, Zenon
    <3>7. ASSUME Ready(step(y, i), c, twice, failed), Moved(y, step(y, i), i, Parent[b])
          PROVE  P(step(y, i), done \cup {i})
      BY <2>3, <3>5, <3>6, <3>7, Proceeds
    <3> QED BY <3>4, <3>7, Zenon
  <2> QED BY <1>1, <2>1, <2>2, <2>3, Zenon
<1>2. E(x) \/ P(x, {})
  <2>1. {} \cap c = {}
    BY Zenon
  <2> QED BY <2>1, Begins, Zenon
<1> HIDE DEF P, E
<1>3. E(step(x, "tx")) \/ P(step(x, "tx"), {} \cup {"tx"})
  BY <1>1, <1>2, Zenon DEF Index
<1> DEFINE y1 == step(x, "tx")
<1> HIDE DEF y1
<1>4. E(step(y1, "addr")) \/ P(step(y1, "addr"), {} \cup {"tx"} \cup {"addr"})
  <2>1. E(y1) \/ P(y1, {} \cup {"tx"})
    BY <1>3, Zenon DEF y1
  <2> QED BY <1>1, <2>1, Zenon DEF Index
<1> DEFINE y2 == step(y1, "addr")
<1> HIDE DEF y2
<1>5. E(step(y2, "cf")) \/ P(step(y2, "cf"), {} \cup {"tx"} \cup {"addr"} \cup {"cf"})
  <2>1. E(y2) \/ P(y2, {} \cup {"tx"} \cup {"addr"})
    BY <1>4, Zenon DEF y2
  <2> QED BY <1>1, <2>1, Zenon DEF Index
<1>6. ({} \cup {"tx"} \cup {"addr"} \cup {"cf"}) \cap c = c
  BY Zenon DEF Index
<1>7. DisconnectAll(x, c, b) = step(y2, "cf")
  BY Zenon DEF DisconnectAll, ForEach, y1, y2
<1> HIDE DEF step
<1>8. \/ DisconnectAll(x, c, b).err # "none" /\ DisconnectAll(x, c, b).cur = x.cur
      \/ Progress(x, DisconnectAll(x, c, b), c, c, Parent[b], twice, failed)
  BY <1>5, <1>6, <1>7, Zenon DEF P, E
<1> QED BY <1>8

\* The view of the inputs is made, or the transaction fails.
LEMMA ViewStep ==
    ASSUME NEW x \in TxState, NEW i, NEW b
    PROVE  \/ MakeUtxoView(x, i, b) = x
           \/ x.err = "none" /\ MakeUtxoView(x, i, b).err # "none"
<1>1. "input not found" \in Reason /\ "input not found" # "none"
  BY DEF Reason
<1>2. Failed(x, "input not found").err = "input not found"
  BY <1>1, Fails, Zenon
<1> QED BY <1>1, <1>2, Zenon DEF MakeUtxoView

\* The catch-up of the indexes that are behind with one block: they all get it, or the
\* transaction fails.
LEMMA AllCatchUp ==
    ASSUME NEW x, NEW c \in SUBSET Index, NEW behind \in SUBSET c, NEW b \in Block \ {Genesis},
           NEW twice \in BOOLEAN, NEW failed \in BOOLEAN,
           Ready(x, c, twice, failed), ~twice => NoTwice(b)
    PROVE  LET z == CatchUpAll(x, behind, b)
           IN  z.err # "none" \/ Progress(x, z, c, behind, b, twice, failed)
<1> DEFINE op(y, i) == DbIndexConnectBlock(MakeUtxoView(y, i, b), i, b)
           step(y, i) == IF i \in behind THEN op(y, i) ELSE y
           P(y, done) == Progress(x, y, c, done \cap behind, b, twice, failed)
           E(y) == y.err # "none"
<1>1. ASSUME NEW y, NEW done \in SUBSET Index, NEW i \in Index, E(y) \/ P(y, done)
      PROVE  E(step(y, i)) \/ P(step(y, i), done \cup {i})
  <2>1. CASE E(y)
    <3>1. step(y, i) = y
      BY <2>1, Zenon DEF DbIndexConnectBlock, MakeUtxoView
    <3> QED BY <2>1, <3>1, Zenon
  <2>2. CASE P(y, done) /\ i \notin behind
    <3>1. (done \cup {i}) \cap behind = done \cap behind
      BY <2>2, Zenon
    <3> QED BY <2>2, <3>1, Zenon
  <2>3. CASE P(y, done) /\ i \in behind
    <3>1. Ready(y, c, twice, failed) /\ y \in TxState /\ i \in c
      BY <2>3, Zenon DEF Progress, Ready
    <3>2. step(y, i) = op(y, i)
      BY <2>3, Zenon
    <3>3. CASE MakeUtxoView(y, i, b) = y
      <4>1. Connects(y, DbIndexConnectBlock(y, i, b), i, b, c, twice, failed)
        BY <3>1, ConnectStep
      <4>2. step(y, i) = DbIndexConnectBlock(y, i, b)
        BY <3>2, <3>3, Zenon
      <4> HIDE DEF step
      <4>3. \/ E(step(y, i))
            \/ Ready(step(y, i), c, twice, failed) /\ Moved(y, step(y, i), i, b)
        BY <4>1, <4>2, Zenon DEF Connects
      <4>4. (done \cup {i}) \cap behind = (done \cap behind) \cup {i}
        BY <2>3, Zenon
      <4>5. done \cap behind \in SUBSET Index
        BY Zenon
      <4>6. ASSUME Ready(step(y, i), c, twice, failed), Moved(y, step(y, i), i, b)
            PROVE  P(step(y, i), done \cup {i})
        BY <2>3, <3>1, <4>4, <4>5, <4>6, Proceeds
      <4> QED BY <4>3, <4>6, Zenon
    <3>4. CASE MakeUtxoView(y, i, b).err # "none"
      <4>1. op(y, i) = MakeUtxoView(y, i, b)
        BY <3>4, Zenon DEF DbIndexConnectBlock
      <4> QED BY <3>2, <3>4, <4>1, Zenon
    <3> QED BY <3>1, <3>3, <3>4, ViewStep, Zenon
  <2> QED BY <1>1, <2>1, <2>2, <2>3, Zenon
<1>2. E(x) \/ P(x, {})
  <2>1. {} \cap behind = {}
    BY Zenon
  <2> QED BY <2>1, Begins, Zenon
<1> HIDE DEF P, E
<1>3. E(step(x, "tx")) \/ P(step(x, "tx"), {} \cup {"tx"})
  BY <1>1, <1>2, Zenon DEF Index
<1> DEFINE y1 == step(x, "tx")
<1> HIDE DEF y1
<1>4. E(step(y1, "addr")) \/ P(step(y1, "addr"), {} \cup {"tx"} \cup {"addr"})
  <2>1. E(y1) \/ P(y1, {} \cup {"tx"})
    BY <1>3, Zenon DEF y1
  <2> QED BY <1>1, <2>1, Zenon DEF Index
<1> DEFINE y2 == step(y1, "addr")
<1> HIDE DEF y2
<1>5. E(step(y2, "cf")) \/ P(step(y2, "cf"), {} \cup {"tx"} \cup {"addr"} \cup {"cf"})
  <2>1. E(y2) \/ P(y2, {} \cup {"tx"} \cup {"addr"})
    BY <1>4, Zenon DEF y2
  <2> QED BY <1>1, <2>1, Zenon DEF Index
<1>6. ({} \cup {"tx"} \cup {"addr"} \cup {"cf"}) \cap behind = behind
  BY Zenon DEF Index
<1>7. CatchUpAll(x, behind, b) = step(y2, "cf")
  BY Zenon DEF CatchUpAll, ForEach, y1, y2
<1> HIDE DEF step
<1>8. \/ CatchUpAll(x, behind, b).err # "none"
      \/ Progress(x, CatchUpAll(x, behind, b), c, behind, b, twice, failed)
  BY <1>5, <1>6, <1>7, Zenon DEF P, E
<1> QED BY <1>8

(***************************************************************************)
(* The database after the operations of Manager.Init.                      *)
(***************************************************************************)
\* The initial values are of their types.
LEMMA InitialValues ==
    /\ EmptyDb \in Database /\ NoDrop \in Job /\ NoScan \in [known : Id, next : Id]
    /\ NoRoll \in [left : SUBSET Index, hash : Block, cached : Block \cup {None}]
    /\ NoWork \in [db : Database, cur : Id, err : {"none"}]
<1>1. /\ EmptyDb.txs \in [Tx -> Id \cup {None}] /\ EmptyDb.ids \in [Block -> Id \cup {None}]
      /\ EmptyDb.hashes \in [Id -> Block \cup {None}] /\ EmptyDb.tip \in [Index -> Block \cup {None}]
  BY Zenon DEF EmptyDb
<1>2. <<>> \in Seq(Block \ {Genesis}) /\ <<>> \in Seq(Id)
  OBVIOUS
<1>3. EmptyDb \in Database
  BY <1>2, Zenon DEF Database, EmptyDb
<1>4. 0 \in Id /\ 1 \in Id /\ Genesis \in Block
  BY IdFacts, TreeAssumption, Zenon
<1> QED BY <1>3, <1>4, Zenon DEF Job, NoDrop, NoScan, NoRoll, NoWork, Index

\* An index whose entries are not there and whose tip is the genesis block is good.
LEMMA EmptyIndex ==
    /\ UpTo(Genesis) = {} /\ Height[Genesis] = 0 /\ NoTwice(Genesis)
    /\ \A d \in Database : d.ids = EmptyDb.ids => {b \in Block : d.ids[b] # None} = {}
    /\ IdsFit(EmptyDb.txs, EmptyDb.ids, EmptyDb.hashes, Genesis)
<1>1. UpTo(Genesis) = {} /\ Height[Genesis] = 0 /\ Genesis \in Block
  BY TreeAssumption, Branch, Zenon
<1>2. NoTwice(Genesis)
  BY <1>1, Zenon DEF NoTwice
<1>3. /\ \A t \in Tx : EmptyDb.txs[t] = None
      /\ \A b \in Block : EmptyDb.ids[b] = None
      /\ \A n \in Id : EmptyDb.hashes[n] = None
  BY Zenon DEF EmptyDb
<1>4. \A n \in Id : n \notin 1..0
  BY DEF Id
<1>5. IdsFit(EmptyDb.txs, EmptyDb.ids, EmptyDb.hashes, Genesis)
  BY <1>1, <1>3, <1>4, Zenon DEF IdsFit
<1>6. \A d \in Database : d.ids = EmptyDb.ids => {b \in Block : d.ids[b] # None} = {}
  BY <1>3
<1> QED BY <1>1, <1>2, <1>5, <1>6, Zenon

\* What is good when no chain had a transaction twice and no commit failed is good
\* when one did.
LEMMA Weaker ==
    ASSUME NEW d, NEW tw \in BOOLEAN, NEW fl \in BOOLEAN, NEW twice \in BOOLEAN,
           NEW failed \in BOOLEAN, DbOK(d, tw, fl), tw => twice, fl => failed
    PROVE  DbOK(d, twice, failed)
<1>1. TxOK(d, twice, failed)
  BY Zenon DEF DbOK, TxOK
<1>2. AddrOK(d, failed)
  BY Zenon DEF DbOK, AddrOK
<1> QED BY <1>1, <1>2, Zenon DEF DbOK

\* A start of a newer version of the program.
LEMMA OlderIndexes ==
    ASSUME NEW d, NEW twice \in BOOLEAN, NEW failed \in BOOLEAN, DbOK(d, twice, failed),
           NEW o \in SUBSET Index
    PROVE  LET e == [d EXCEPT !.old = o]
           IN  DbOK(e, twice, failed) /\ e.dropping = d.dropping /\ e.tip = d.tip
<1> DEFINE e == [d EXCEPT !.old = o]
<1>1. d \in Database
  BY Zenon DEF DbOK
<1>2. /\ e \in Database /\ e.chain = d.chain /\ e.dropping = d.dropping /\ e.tip = d.tip
      /\ SameTx(d, e) /\ e.addr = d.addr /\ e.cf = d.cf
  BY <1>1, Zenon DEF Database, SameTx
<1> HIDE DEF e
<1>3. TxOK(e, twice, failed) /\ AddrOK(e, failed) /\ CfOK(e)
  <2>1. TxOK(d, twice, failed) /\ AddrOK(d, failed) /\ CfOK(d)
    BY Zenon DEF DbOK
  <2> QED BY <1>1, <1>2, <2>1, OtherIndexes
<1>4. DbOK(e, twice, failed)
  BY <1>2, <1>3, Zenon DEF DbOK, Exists
<1> QED BY <1>2, <1>4, Zenon DEF e

\* markIndexDeletion.
LEMMA MarkedOK ==
    ASSUME NEW d, NEW twice \in BOOLEAN, NEW failed \in BOOLEAN, DbOK(d, twice, failed),
           NEW i \in Index, Exists(d, i)
    PROVE  LET e == Marked(d, i)
           IN  /\ DbOK(e, twice, failed) /\ e.tip = d.tip
               /\ e.dropping = d.dropping \cup {i} /\ e.idBuckets = d.idBuckets
<1> DEFINE e == Marked(d, i)
<1>1. d \in Database /\ d.dropping \cup {i} \in SUBSET Index
  BY Zenon DEF DbOK, Database
<1>2. /\ e \in Database /\ e.chain = d.chain /\ e.dropping = d.dropping \cup {i} /\ e.tip = d.tip
      /\ e.txs = d.txs /\ e.ids = d.ids /\ e.hashes = d.hashes /\ e.idBuckets = d.idBuckets
      /\ e.addr = d.addr /\ e.cf = d.cf
  BY <1>1, Zenon DEF Database, Marked
<1> HIDE DEF e
<1>3. \A j \in Index : (Exists(e, j) <=> Exists(d, j)) /\ (Whole(e, j) => Whole(d, j))
  BY <1>2, Zenon DEF Exists, Whole
<1>4. "tx" \in Index /\ "addr" \in Index /\ "cf" \in Index
  BY Zenon DEF Index
<1>5. IdsOK(d) => IdsOK(e)
  BY <1>2, SameIds, Zenon DEF SameTx
<1>6. TxOK(e, twice, failed)
  BY <1>2, <1>3, <1>4, <1>5, Zenon DEF DbOK, TxOK
<1>7. AddrOK(e, failed) /\ CfOK(e)
  BY <1>2, <1>3, <1>4, Zenon DEF DbOK, AddrOK, CfOK
<1>8. \A j \in e.dropping : Exists(e, j)
  BY <1>1, <1>2, <1>3, Zenon DEF DbOK
<1>9. DbOK(e, twice, failed)
  BY <1>2, <1>6, <1>7, <1>8, Zenon DEF DbOK
<1> QED BY <1>2, <1>9, Zenon DEF e

\* incrementalFlatDrop and dropBlockIDIndex, on an index that is marked.
Emptied(d, e) ==
    \/ "tx" \in d.dropping /\ \E t \in Tx : e = [d EXCEPT !.txs = [d.txs EXCEPT ![t] = None]]
    \/ "addr" \in d.dropping /\ d.addr # <<>> /\ e = [d EXCEPT !.addr = Front(d.addr)]
IdsDropped(d, e) ==
    /\ "tx" \in d.dropping
    /\ e = [d EXCEPT !.idBuckets = FALSE, !.ids = EmptyDb.ids, !.hashes = EmptyDb.hashes]

\* The entries of an index that is marked may go in any order.
LEMMA EmptyingOK ==
    ASSUME NEW d, NEW twice \in BOOLEAN, NEW failed \in BOOLEAN, DbOK(d, twice, failed), NEW e,
           Emptied(d, e) \/ IdsDropped(d, e)
    PROVE  /\ DbOK(e, twice, failed) /\ e.tip = d.tip /\ e.dropping = d.dropping
           /\ e.idBuckets => d.idBuckets
           /\ IdsDropped(d, e) => ~e.idBuckets
<1>1. /\ d \in Database /\ TxOK(d, twice, failed) /\ AddrOK(d, failed) /\ CfOK(d)
      /\ \A j \in d.dropping : Exists(d, j)
  BY Zenon DEF DbOK
<1>2. ASSUME e \in Database, e.chain = d.chain, e.tip = d.tip, e.dropping = d.dropping,
             TxOK(e, twice, failed), AddrOK(e, failed), CfOK(e)
      PROVE  DbOK(e, twice, failed)
  BY <1>2, Zenon DEF DbOK, Exists
<1>3. ASSUME "tx" \in d.dropping, NEW t \in Tx,
             e = [d EXCEPT !.txs = [d.txs EXCEPT ![t] = None]]
      PROVE  /\ DbOK(e, twice, failed) /\ e.tip = d.tip /\ e.dropping = d.dropping
             /\ e.idBuckets = d.idBuckets
  <2>1. [d.txs EXCEPT ![t] = None] \in [Tx -> Id \cup {None}]
    BY <1>1, Zenon DEF Database
  <2>2. /\ e \in Database /\ e.chain = d.chain /\ e.tip = d.tip /\ e.dropping = d.dropping
        /\ e.ids = d.ids /\ e.hashes = d.hashes /\ e.idBuckets = d.idBuckets
        /\ e.addr = d.addr /\ e.cf = d.cf
    BY <1>1, <1>3, <2>1, Zenon DEF Database
  <2>3. TxOK(e, twice, failed)
    BY <1>1, <1>3, <2>2, Zenon DEF TxOK, Whole, Exists
  <2>4. AddrOK(e, failed) /\ CfOK(e)
    BY <1>1, <2>2, OtherIndexes
  <2> QED BY <1>2, <2>2, <2>3, <2>4, Zenon
<1>4. ASSUME "addr" \in d.dropping, d.addr # <<>>, e = [d EXCEPT !.addr = Front(d.addr)]
      PROVE  /\ DbOK(e, twice, failed) /\ e.tip = d.tip /\ e.dropping = d.dropping
             /\ e.idBuckets = d.idBuckets
  <2>1. Front(d.addr) \in Seq(Id)
    BY <1>1, <1>4, FrontFacts, Zenon DEF Database
  <2>2. /\ e \in Database /\ e.chain = d.chain /\ e.tip = d.tip /\ e.dropping = d.dropping
        /\ SameTx(d, e) /\ e.cf = d.cf /\ e.idBuckets = d.idBuckets
    BY <1>1, <1>4, <2>1, Zenon DEF Database, SameTx
  <2>3. AddrOK(e, failed)
    BY <1>1, <1>4, <2>2, Zenon DEF AddrOK, Whole, Exists
  <2>4. TxOK(e, twice, failed) /\ CfOK(e)
    BY <1>1, <2>2, OtherIndexes
  <2> QED BY <1>2, <2>2, <2>3, <2>4, Zenon
<1>5. ASSUME "tx" \in d.dropping,
             e = [d EXCEPT !.idBuckets = FALSE, !.ids = EmptyDb.ids, !.hashes = EmptyDb.hashes]
      PROVE  /\ DbOK(e, twice, failed) /\ e.tip = d.tip /\ e.dropping = d.dropping
             /\ ~e.idBuckets
  <2>1. EmptyDb.ids \in [Block -> Id \cup {None}] /\ EmptyDb.hashes \in [Id -> Block \cup {None}]
    BY InitialValues, Zenon DEF Database
  <2>2. /\ e \in Database /\ e.chain = d.chain /\ e.tip = d.tip /\ e.dropping = d.dropping
        /\ e.ids = EmptyDb.ids /\ e.hashes = EmptyDb.hashes /\ e.idBuckets = FALSE
        /\ e.txs = d.txs /\ e.addr = d.addr /\ e.cf = d.cf
    BY <1>1, <1>5, <2>1, Zenon DEF Database
  <2>3. TxOK(e, twice, failed)
    BY <1>1, <1>5, <2>2, Zenon DEF TxOK, Whole, Exists
  <2>4. AddrOK(e, failed) /\ CfOK(e)
    BY <1>1, <2>2, OtherIndexes
  <2> QED BY <1>2, <2>2, <2>3, <2>4, Zenon
<1>6. IdsDropped(d, e) => ~e.idBuckets
  BY <1>1, Zenon DEF Database, IdsDropped
<1> QED BY <1>3, <1>4, <1>5, <1>6, Zenon DEF Emptied, IdsDropped

\* dropIndexMetadata; the block ids of the transaction index are gone before.
LEMMA WithoutOK ==
    ASSUME NEW d, NEW twice \in BOOLEAN, NEW failed \in BOOLEAN, DbOK(d, twice, failed),
           NEW i \in Index, i = "tx" => ~d.idBuckets
    PROVE  LET e == WithoutIndex(d, i)
           IN  DbOK(e, twice, failed) /\ e.dropping = d.dropping \ {i}
<1> DEFINE e == WithoutIndex(d, i)
<1>1. d \in Database /\ TxOK(d, twice, failed) /\ AddrOK(d, failed) /\ CfOK(d)
  BY Zenon DEF DbOK
<1>2. /\ [d.tip EXCEPT ![i] = None] \in [Index -> Block \cup {None}]
      /\ d.old \ {i} \in SUBSET Index /\ d.dropping \ {i} \in SUBSET Index
      /\ (IF i = "tx" THEN EmptyDb.txs ELSE d.txs) \in [Tx -> Id \cup {None}]
      /\ (IF i = "cf" THEN {} ELSE d.cf) \in SUBSET Block
  BY <1>1, InitialValues, Zenon DEF Database
<1>3. (IF i = "addr" THEN <<>> ELSE d.addr) \in Seq(Id)
  <2>1. <<>> \in Seq(Id)
    OBVIOUS
  <2> QED BY <1>1, <2>1, Zenon DEF Database
<1>4. /\ e \in Database /\ e.chain = d.chain /\ e.tip = [d.tip EXCEPT ![i] = None]
      /\ e.dropping = d.dropping \ {i} /\ e.old = d.old \ {i}
      /\ e.txs = (IF i = "tx" THEN EmptyDb.txs ELSE d.txs)
      /\ e.ids = d.ids /\ e.hashes = d.hashes /\ e.idBuckets = d.idBuckets
      /\ e.addr = (IF i = "addr" THEN <<>> ELSE d.addr) /\ e.cf = (IF i = "cf" THEN {} ELSE d.cf)
  BY <1>1, <1>2, <1>3, Zenon DEF Database, WithoutIndex
<1> HIDE DEF e
<1>5. ~Exists(e, i) /\ \A j \in Index : j # i => e.tip[j] = d.tip[j]
  BY <1>1, <1>4, Zenon DEF Database, Exists
<1>6. "tx" \in Index /\ "addr" \in Index /\ "cf" \in Index
  BY Zenon DEF Index
<1>7. TxOK(e, twice, failed)
  <2>1. CASE i = "tx"
    BY <1>1, <1>4, <1>5, <2>1, Zenon DEF TxOK, Whole
  <2>2. CASE i # "tx"
    <3>1. e.txs = d.txs /\ e.tip["tx"] = d.tip["tx"]
      BY <1>4, <1>5, <1>6, <2>2, Zenon
    <3>2. IdsOK(d) => IdsOK(e)
      BY <1>4, <3>1, Zenon DEF IdsOK
    <3>3. (Exists(e, "tx") <=> Exists(d, "tx")) /\ (Whole(e, "tx") => Whole(d, "tx"))
      BY <1>4, <2>2, <3>1, Zenon DEF Whole, Exists
    <3> QED BY <1>1, <1>4, <3>1, <3>2, <3>3, Zenon DEF TxOK
  <2> QED BY <2>1, <2>2, Zenon
<1>8. AddrOK(e, failed)
  BY <1>1, <1>4, <1>5, <1>6, Zenon DEF AddrOK, Whole, Exists
<1>9. CfOK(e)
  BY <1>1, <1>4, <1>5, <1>6, Zenon DEF CfOK, Whole, Exists
<1>10. \A j \in e.dropping : Exists(e, j)
  BY <1>1, <1>4, <1>5, Zenon DEF DbOK, Database, Exists
<1>11. DbOK(e, twice, failed)
  BY <1>4, <1>7, <1>8, <1>9, <1>10, Zenon DEF DbOK
<1> QED BY <1>4, <1>11, Zenon DEF e

\* maybeCreateIndexes: the enabled indexes exist after it.
LEMMA CreateOK ==
    ASSUME NEW d, NEW twice \in BOOLEAN, NEW failed \in BOOLEAN, DbOK(d, twice, failed),
           NEW c \in SUBSET Index
    PROVE  LET e == Create(d, c)
           IN  /\ DbOK(e, twice, failed) /\ e.dropping = d.dropping
               /\ \A i \in c : Exists(e, i)
<1> DEFINE new == {i \in c : ~Exists(d, i)}
           e == Create(d, c)
           tip == [i \in Index |-> IF i \in new THEN Genesis ELSE d.tip[i]]
<1>1. d \in Database /\ TxOK(d, twice, failed) /\ AddrOK(d, failed) /\ CfOK(d) /\ Genesis \in Block
  BY TreeAssumption, Zenon DEF DbOK
<1>2. tip \in [Index -> Block \cup {None}] /\ (d.idBuckets \/ "tx" \in new) \in BOOLEAN
  BY <1>1, Zenon DEF Database
<1> HIDE DEF new
<1>3. /\ e \in Database /\ e.chain = d.chain /\ e.tip = tip /\ e.dropping = d.dropping
      /\ e.idBuckets = (d.idBuckets \/ "tx" \in new)
      /\ e.txs = d.txs /\ e.ids = d.ids /\ e.hashes = d.hashes
      /\ e.addr = d.addr /\ e.cf = d.cf
  BY <1>1, <1>2, Zenon DEF Database, Create, new
<1> HIDE DEF e
<1>4. \A i \in Index : e.tip[i] = IF i \in new THEN Genesis ELSE d.tip[i]
  BY <1>3, Zenon
<1>5. /\ \A i \in new : i \in Index /\ ~Exists(d, i) /\ Exists(e, i)
      /\ \A i \in c : Exists(e, i)
      /\ \A i \in Index : Exists(d, i) => Exists(e, i)
  BY <1>1, <1>4, NoneFacts, Zenon DEF new, Exists
<1>6. "tx" \in Index /\ "addr" \in Index /\ "cf" \in Index
  BY Zenon DEF Index
<1>7. \A i \in Index : i \notin new => e.tip[i] = d.tip[i]
  BY <1>4, Zenon
<1>8. TxOK(e, twice, failed)
  <2>1. CASE "tx" \in new
    <3>1. /\ ~d.idBuckets /\ d.txs = EmptyDb.txs
          /\ d.ids = EmptyDb.ids /\ d.hashes = EmptyDb.hashes
      BY <1>1, <1>5, <2>1, Zenon DEF TxOK
    <3>2. e.tip["tx"] = Genesis /\ Exists(e, "tx") /\ e.idBuckets
      BY <1>3, <1>4, <1>5, <1>6, <2>1, Zenon
    <3>3. {b \in Block : e.ids[b] # None} = UpTo(Genesis) /\ NoTwice(Genesis) /\ IdsOK(e)
      BY <1>3, <3>1, <3>2, EmptyIndex, Zenon DEF IdsOK
    <3>4. \A t \in Tx : e.txs[t] # None <=> \E b \in UpTo(Genesis) : t \in Txs[b]
      <4>1. \A t \in Tx : EmptyDb.txs[t] = None
        BY Zenon DEF EmptyDb
      <4>2. e.txs = EmptyDb.txs /\ UpTo(Genesis) = {}
        BY <1>3, <3>1, EmptyIndex, Zenon
      <4> QED BY <4>1, <4>2, Zenon
    <3> QED BY <3>2, <3>3, <3>4, Zenon DEF TxOK
  <2>2. CASE "tx" \notin new
    <3>1. e.tip["tx"] = d.tip["tx"] /\ e.idBuckets = d.idBuckets
      <4>1. d.idBuckets \in BOOLEAN
        BY <1>1, Zenon DEF Database
      <4> QED BY <1>3, <1>6, <1>7, <2>2, <4>1, Zenon
    <3>2. SameTx(d, e)
      BY <1>3, <3>1, Zenon DEF SameTx
    <3> QED BY <1>1, <1>3, <3>1, <3>2, OtherIndexes
  <2> QED BY <2>1, <2>2, Zenon
<1>9. AddrOK(e, failed)
  <2>1. CASE "addr" \in new
    <3>1. e.addr = <<>> /\ e.tip["addr"] = Genesis /\ Height[Genesis] = 0
      BY <1>1, <1>3, <1>4, <1>5, <1>6, <2>1, EmptyIndex, Zenon DEF AddrOK
    <3>2. Len(e.addr) = 0 /\ 1..Len(e.addr) = {}
      BY <3>1
    <3> QED BY <3>1, <3>2, Zenon DEF AddrOK
  <2>2. CASE "addr" \notin new
    BY <1>1, <1>3, <1>6, <1>7, <2>2, OtherIndexes
  <2> QED BY <2>1, <2>2, Zenon
<1>10. CfOK(e)
  <2>1. CASE "cf" \in new
    BY <1>1, <1>3, <1>4, <1>5, <1>6, <2>1, EmptyIndex, Zenon DEF CfOK
  <2>2. CASE "cf" \notin new
    BY <1>1, <1>3, <1>6, <1>7, <2>2, OtherIndexes
  <2> QED BY <2>1, <2>2, Zenon
<1>11. \A j \in e.dropping : Exists(e, j)
  BY <1>1, <1>3, <1>5, Zenon DEF DbOK, Database
<1>12. DbOK(e, twice, failed)
  BY <1>3, <1>8, <1>9, <1>10, <1>11, Zenon DEF DbOK
<1> QED BY <1>3, <1>5, <1>12, Zenon DEF e

\* The main chain with another block, and without its tip.
LEMMA ChainGrows ==
    ASSUME NEW chain \in Seq(Block \ {Genesis}), ChainOK(chain),
           NEW b \in Block \ {Genesis}, Parent[b] = Tip(chain)
    PROVE  /\ Append(chain, b) \in Seq(Block \ {Genesis}) /\ ChainOK(Append(chain, b))
           /\ Tip(Append(chain, b)) = b
<1> DEFINE new == Append(chain, b)
<1>1. /\ Len(chain) \in Nat /\ new \in Seq(Block \ {Genesis}) /\ Len(new) = Len(chain) + 1
      /\ new[Len(chain) + 1] = b /\ \A k \in 1..Len(chain) : new[k] = chain[k]
  OBVIOUS
<1> HIDE DEF new
<1>2. new # <<>>
  BY <1>1
<1>3. Tip(new) = b
  BY <1>1, <1>2, Zenon DEF Tip
<1>4. /\ Height[Tip(chain)] = Len(chain) /\ Height[b] = Len(chain) + 1
      /\ UpTo(b) = UpTo(Tip(chain)) \cup {b}
  <2>1. Height[Tip(chain)] = Len(chain)
    BY ChainTip, Zenon
  <2>2. Height[b] = Height[Parent[b]] + 1 /\ UpTo(b) = UpTo(Parent[b]) \cup {b}
    BY Child, Zenon
  <2> QED BY <2>1, <2>2, Zenon
<1>5. \A k \in 1..Len(new) : Height[new[k]] = k
  <2>1. \A k \in 1..Len(chain) : Height[chain[k]] = k
    BY Zenon DEF ChainOK
  <2>2. \A k \in 1..Len(new) : k \in 1..Len(chain) \/ k = Len(chain) + 1
    BY <1>1
  <2> QED BY <1>1, <1>4, <2>1, <2>2, Zenon
<1>6. ASSUME NEW k \in 1..Len(new)
      PROVE  Parent[new[k]] = IF k = 1 THEN Genesis ELSE new[k - 1]
  <2>1. CASE k \in 1..Len(chain)
    <3>1. Parent[chain[k]] = IF k = 1 THEN Genesis ELSE chain[k - 1]
      BY <2>1, Zenon DEF ChainOK
    <3>2. k # 1 => k - 1 \in 1..Len(chain)
      BY <1>1, <2>1
    <3> QED BY <1>1, <2>1, <3>1, <3>2, Zenon
  <2>2. CASE k = Len(chain) + 1
    <3>1. CASE chain = <<>>
      <4>1. k = 1 /\ Tip(chain) = Genesis
        BY <2>2, <3>1 DEF Tip
      <4> QED BY <1>1, <2>2, <4>1, Zenon
    <3>2. CASE chain # <<>>
      <4>1. k # 1 /\ k - 1 \in 1..Len(chain) /\ k - 1 = Len(chain)
        BY <1>1, <2>2, <3>2
      <4>2. Tip(chain) = chain[Len(chain)]
        BY <3>2, Zenon DEF Tip
      <4> QED BY <1>1, <2>2, <4>1, <4>2, Zenon
    <3> QED BY <3>1, <3>2, Zenon
  <2> QED BY <1>1, <2>1, <2>2
<1>7. Range(new) = Range(chain) \cup {b}
  <2>1. DOMAIN new = 1..(Len(chain) + 1) /\ DOMAIN chain = 1..Len(chain)
    BY <1>1
  <2>2. 1..(Len(chain) + 1) = 1..Len(chain) \cup {Len(chain) + 1}
    BY <1>1
  <2>3. ASSUME NEW y \in Range(new)
        PROVE  y \in Range(chain) \cup {b}
    <3>1. PICK k \in 1..(Len(chain) + 1) : y = new[k]
      BY <2>1, Zenon DEF Range
    <3>2. CASE k \in 1..Len(chain)
      BY <1>1, <2>1, <3>1, <3>2, Zenon DEF Range
    <3>3. CASE k = Len(chain) + 1
      BY <1>1, <3>1, <3>3, Zenon
    <3> QED BY <2>2, <3>2, <3>3, Zenon
  <2>4. \A y \in Range(chain) : y \in Range(new)
    BY <1>1, <2>1, <2>2, Zenon DEF Range
  <2>5. b \in Range(new)
    BY <1>1, <2>1, <2>2, Zenon DEF Range
  <2> QED BY <2>3, <2>4, <2>5, Zenon
<1>8. Range(new) = UpTo(b)
  BY <1>4, <1>7, Zenon DEF ChainOK
<1> QED BY <1>1, <1>3, <1>5, <1>6, <1>8, Zenon DEF ChainOK, new

\* The main chain without its last block is the branch that ends at its parent.
LEMMA ChainShrinks ==
    ASSUME NEW chain \in Seq(Block \ {Genesis}), ChainOK(chain), chain # <<>>
    PROVE  /\ Front(chain) \in Seq(Block \ {Genesis}) /\ ChainOK(Front(chain))
           /\ Tip(Front(chain)) = Parent[Tip(chain)]
<1> DEFINE n == Len(chain)
           new == Front(chain)
<1>1. /\ n \in Nat /\ n > 0 /\ new \in Seq(Block \ {Genesis}) /\ Len(new) = n - 1
      /\ \A k \in 1..(n - 1) : new[k] = chain[k]
  BY FrontFacts, Zenon
<1>2. Tip(chain) = chain[n] /\ Tip(chain) \in Block \ {Genesis}
  BY ChainTip, Zenon
<1> HIDE DEF new
<1>3. /\ \A k \in 1..n : Height[chain[k]] = k
      /\ \A k \in 1..n : Parent[chain[k]] = IF k = 1 THEN Genesis ELSE chain[k - 1]
  BY Zenon DEF ChainOK
<1>4. Tip(new) = Parent[Tip(chain)]
  <2>1. CASE n = 1
    <3>1. new = <<>>
      BY <1>1, <2>1
    <3>2. 1 \in 1..n /\ n = 1
      BY <2>1
    <3> QED BY <1>2, <1>3, <3>1, <3>2, Zenon DEF Tip
  <2>2. CASE n # 1
    <3>1. new # <<>> /\ n - 1 \in 1..(n - 1) /\ n \in 1..n
      BY <1>1, <2>2
    <3> QED BY <1>1, <1>2, <1>3, <2>2, <3>1, Zenon DEF Tip
  <2> QED BY <2>1, <2>2, Zenon
<1>5. \A k \in 1..(n - 1) : k \in 1..n /\ k # n /\ (k # 1 => k - 1 \in 1..(n - 1))
  BY <1>1
<1>6. \A k \in 1..(n - 1) : /\ Height[new[k]] = k
                            /\ Parent[new[k]] = IF k = 1 THEN Genesis ELSE new[k - 1]
  <2>1. \A k \in 1..(n - 1) : Height[new[k]] = k
    BY <1>1, <1>3, <1>5, Zenon
  <2>2. \A k \in 1..(n - 1) : Parent[chain[k]] = IF k = 1 THEN Genesis ELSE chain[k - 1]
    BY <1>3, <1>5, Zenon
  <2>3. \A k \in 1..(n - 1) : k # 1 => new[k - 1] = chain[k - 1]
    BY <1>1, <1>5, Zenon
  <2> QED BY <1>1, <2>1, <2>2, <2>3, Zenon
<1>7. Range(new) = Range(chain) \ {Tip(chain)}
  <2>1. DOMAIN new = 1..(n - 1) /\ DOMAIN chain = 1..n
    BY <1>1
  <2>2. 1..n = 1..(n - 1) \cup {n} /\ n \in 1..n
    BY <1>1
  <2>3. \A k \in 1..(n - 1) : chain[k] # chain[n]
    BY <1>3, <1>5, <2>2, Zenon
  <2> QED BY <1>1, <1>2, <2>1, <2>2, <2>3, Zenon DEF Range
<1>8. Range(new) = UpTo(Tip(new))
  <2>1. /\ UpTo(Tip(chain)) = UpTo(Parent[Tip(chain)]) \cup {Tip(chain)}
        /\ Tip(chain) \notin UpTo(Parent[Tip(chain)])
    BY <1>2, Child, Zenon
  <2>2. Range(chain) = UpTo(Tip(chain))
    BY Zenon DEF ChainOK
  <2> QED BY <1>4, <1>7, <2>1, <2>2, Zenon
<1> QED BY <1>1, <1>4, <1>6, <1>8, Zenon DEF ChainOK, new

\* The history variable says when a chain has a transaction twice.
LEMMA OnceOnly ==
    ASSUME NEW chain \in Seq(Block \ {Genesis}), ChainOK(chain),
           ~\E i, j \in DOMAIN chain : i < j /\ Txs[chain[i]] \cap Txs[chain[j]] # {}
    PROVE  NoTwice(Tip(chain))
<1>1. SUFFICES ASSUME NEW a \in UpTo(Tip(chain)), NEW c \in UpTo(Tip(chain)), a # c
               PROVE  Txs[a] \cap Txs[c] = {}
  BY Zenon DEF NoTwice
<1>2. \A y \in UpTo(Tip(chain)) : \E k \in DOMAIN chain : y = chain[k]
  BY Zenon DEF ChainOK, Range
<1>3. PICK i \in DOMAIN chain, j \in DOMAIN chain : a = chain[i] /\ c = chain[j]
  BY <1>2, Zenon
<1>4. i \in Nat /\ j \in Nat /\ i # j
  BY <1>1, <1>3
<1>5. i < j \/ j < i
  BY <1>4
<1> QED BY <1>3, <1>5, Zenon

(***************************************************************************)
(* Where a step leads.                                                     *)
(***************************************************************************)
History == [events : Nat, failed : BOOLEAN, twice : BOOLEAN]

\* The facts of the invariant at the places before the rollback, and there.
LEMMA Before ==
    ASSUME Types', DbOK(db', past'.twice, past'.failed), cur' = 0, scan' = NoScan
    PROVE  /\ at' = "down" /\ enabled' = {} => IInv'
           /\ at' = "drop" /\ DropInv' => IInv'
           /\ at' \in {"create", "recreate"} /\ enabled' # {} /\ enabled' \cap db'.dropping = {} => IInv'
<1>1. ASSUME at' = "down", enabled' = {}
      PROVE  IInv'
  BY <1>1, Zenon DEF IInv, DropInv, InitInv, ScanInv, RollInv, UpInv
<1>2. ASSUME at' = "drop", DropInv'
      PROVE  IInv'
  BY <1>2, Zenon DEF IInv, InitInv, ScanInv, RollInv, UpInv
<1>3. ASSUME at' \in {"create", "recreate"}, enabled' # {}, enabled' \cap db'.dropping = {}
      PROVE  IInv'
  BY <1>3, Zenon DEF IInv, DropInv, InitInv, ScanInv, RollInv, UpInv
<1> QED BY <1>1, <1>2, <1>3, Zenon

\* The end of the process keeps the invariant whenever the database is good.
LEMMA GoesDown ==
    ASSUME past' \in History, DbOK(db', past'.twice, past'.failed), GoDown
    PROVE  IInv'
<1>1. 0 \in Id
  BY IdFacts, Zenon
<1>2. Types'
  BY <1>1, InitialValues, Zenon DEF Types, GoDown, History
<1> QED BY <1>2, Before, Zenon DEF GoDown

\* The first and the last index of a set that is not empty are in it.
LEMMA FirstIsOne ==
    ASSUME NEW c \in SUBSET Index, c # {}
    PROVE  FirstOf(c) \in c /\ LastOf(c) \in c
  BY Zenon DEF FirstOf, LastOf, Index

\* A loop over the indexes to drop, when it has every enabled index that is marked.
LEMMA DropsNext ==
    ASSUME Types, past' \in History, DbOK(db', past'.twice, past'.failed),
           NEW todo \in SUBSET Index, NEW then \in {"down", "create", "recreate"},
           NEW c \in SUBSET Index, "addr" \in c => "tx" \in c,
           then = "down" <=> c = {}, c \cap db'.dropping \subseteq todo,
           cur = 0, scan = NoScan, NextDrop(db', todo, then, c)
    PROVE  IInv'
<1> DEFINE left == {i \in todo : Exists(db', i)}
           i == FirstOf(left)
<1>1. enabled' = c /\ cur' = 0 /\ scan' = NoScan /\ UNCHANGED <<cur, scan, roll, work>>
  BY Zenon DEF NextDrop
<1>2. \A j \in db'.dropping : Exists(db', j)
  BY Zenon DEF DbOK
<1>3. c \cap db'.dropping \subseteq left
  BY <1>2, Zenon
<1>4. CASE left # {}
  <2>1. i \in left /\ i \in Index /\ left \ {i} \in SUBSET Index /\ Exists(db', i)
    BY <1>4, FirstIsOne, Zenon
  <2>2. /\ at' = "drop"
        /\ drop' = [todo |-> left \ {i}, then |-> then, for |-> i, on |-> i,
                    op |-> IF i = "cf" /\ then = "down" THEN "metadata" ELSE "mark"]
    BY <1>4, Zenon DEF NextDrop
  <2> HIDE DEF left, i
  <2>3. /\ drop' \in Job /\ drop'.todo = left \ {i} /\ drop'.then = then /\ drop'.for = i
        /\ drop'.on = i /\ drop'.op = (IF i = "cf" /\ then = "down" THEN "metadata" ELSE "mark")
    BY <2>1, <2>2, Zenon DEF Job
  <2>4. Types'
    BY <1>1, <2>2, <2>3, Zenon DEF Types, History
  <2>5. DropInv'
    <3>1. enabled' \cap db'.dropping \subseteq drop'.todo \cup {drop'.for, drop'.on}
      BY <1>1, <1>3, <2>3, Zenon
    <3>2. drop'.op = "mark" \/ (drop'.op = "metadata" /\ drop'.on = "cf")
      BY <2>3, Zenon
    <3> QED BY <1>1, <2>1, <2>3, <3>1, <3>2, Zenon DEF DropInv
  <2> QED BY <1>1, <2>2, <2>4, <2>5, Before, Zenon
<1>5. CASE left = {}
  <2>1. at' = then /\ drop' = NoDrop
    BY <1>5, Zenon DEF NextDrop
  <2>2. Types'
    BY <1>1, <2>1, InitialValues, Zenon DEF Types, History
  <2>3. enabled' \cap db'.dropping = {}
    BY <1>1, <1>3, <1>5, Zenon
  <2> QED BY <1>1, <2>1, <2>2, <2>3, Before, Zenon
<1> QED BY <1>4, <1>5, Zenon

(***************************************************************************)
(* The steps: the start and the drops.                                     *)
(***************************************************************************)
\* The invariant holds of an empty database.
LEMMA InitHolds == Init => IInv
<1> SUFFICES ASSUME Init PROVE IInv
  OBVIOUS
<1>1. Types
  <2>1. 0 \in Id /\ 0 \in Nat
    BY IdFacts, Zenon
  <2> QED BY <2>1, InitialValues, Zenon DEF Init, Types
<1>2. DbOK(db, past.twice, past.failed)
  <2>1. db = EmptyDb /\ db \in Database
    BY InitialValues, Zenon DEF Init
  <2>2. db.chain = <<>> /\ db.dropping = {} /\ db.addr = <<>> /\ db.cf = {} /\ ~db.idBuckets
    BY <2>1, Zenon DEF EmptyDb
  <2>3. \A i \in Index : ~Exists(db, i)
    BY <2>1, Zenon DEF EmptyDb, Exists
  <2>4. Tip(db.chain) = Genesis /\ Len(db.chain) = 0 /\ Range(db.chain) = {}
    BY <2>2 DEF Tip, Range
  <2>5. ChainOK(db.chain) /\ NoTwice(Tip(db.chain))
    <3>1. \A k \in 1..Len(db.chain) : FALSE
      BY <2>4
    <3> QED BY <2>4, <3>1, EmptyIndex, Zenon DEF ChainOK
  <2>6. TxOK(db, past.twice, past.failed)
    BY <2>1, <2>2, <2>3, Zenon DEF TxOK, Whole, Index
  <2>7. AddrOK(db, past.failed) /\ CfOK(db)
    BY <2>2, <2>3, Zenon DEF AddrOK, CfOK, Whole, Index
  <2> QED BY <2>1, <2>2, <2>5, <2>6, <2>7, Zenon DEF DbOK
<1> QED BY <1>1, <1>2, Zenon DEF Init, IInv, DropInv, InitInv, ScanInv, RollInv, UpInv

\* A start: Manager.Init first finishes the drops of the enabled indexes.
LEMMA StartStep ==
    ASSUME IInv, NEW c \in Configs, NEW newer \in BOOLEAN, Start(c, newer)
    PROVE  IInv'
<1> DEFINE o == {i \in Index : Exists(db, i)}
<1>1. /\ Types /\ DbOK(db, past.twice, past.failed)
      /\ at = "down" /\ enabled = {} /\ cur = 0 /\ scan = NoScan
  BY Zenon DEF IInv, InitInv, Start
<1>2. past' \in History /\ past'.twice = past.twice /\ past'.failed = past.failed
  <2>1. past \in History /\ (IF newer THEN past.events + 1 ELSE past.events) \in Nat
    BY <1>1 DEF Types, History
  <2>2. past' = [past EXCEPT !.events = IF newer THEN past.events + 1 ELSE past.events]
    BY Zenon DEF Start
  <2> QED BY <2>1, <2>2, Zenon DEF History
<1>3. DbOK(db', past'.twice, past'.failed) /\ db'.dropping = db.dropping
  <2>1. past.twice \in BOOLEAN /\ past.failed \in BOOLEAN /\ o \in SUBSET Index
    BY <1>1, Zenon DEF Types
  <2>2. db' = db \/ db' = [db EXCEPT !.old = o]
    BY Zenon DEF Start
  <2> HIDE DEF o
  <2>3. /\ DbOK([db EXCEPT !.old = o], past.twice, past.failed)
        /\ [db EXCEPT !.old = o].dropping = db.dropping
    BY <1>1, <2>1, OlderIndexes, Zenon
  <2> QED BY <1>1, <1>2, <2>2, <2>3, Zenon
<1>4. c \in SUBSET Index /\ ("addr" \in c => "tx" \in c)
  BY ConfigAssumption, Zenon
<1>5. CASE c = {}
  <2>1. at' = "up" /\ enabled' = {} /\ UNCHANGED <<enabled, cur, drop, scan, roll, work>>
    BY <1>1, <1>5, Zenon DEF Start
  <2>2. Types'
    BY <1>1, <1>2, <2>1, Zenon DEF Types, History
  <2> QED BY <1>3, <2>1, <2>2, Zenon DEF IInv, DropInv, InitInv, ScanInv, RollInv, UpInv
<1>6. CASE c # {}
  <2>1. NextDrop(db', c \cap db.dropping, "create", c)
    BY <1>6, Zenon DEF Start
  <2>2. c \cap db.dropping \in SUBSET Index /\ c \cap db'.dropping \subseteq c \cap db.dropping
    BY <1>3, <1>4, Zenon
  <2> QED BY <1>1, <1>2, <1>3, <1>4, <1>6, <2>1, <2>2, DropsNext, Zenon
<1> QED BY <1>5, <1>6, Zenon

\* A start with an option to drop an index.
LEMMA StartDropStep ==
    ASSUME IInv, NEW i \in Index, StartDrop(i)
    PROVE  IInv'
<1>1. /\ Types /\ DbOK(db, past.twice, past.failed)
      /\ at = "down" /\ enabled = {} /\ cur = 0 /\ scan = NoScan
  BY Zenon DEF IInv, InitInv, StartDrop
<1>2. past' \in History /\ past'.twice = past.twice /\ past'.failed = past.failed
  <2>1. past \in History /\ past.events + 1 \in Nat
    BY <1>1 DEF Types, History
  <2>2. past' = [past EXCEPT !.events = past.events + 1]
    BY Zenon DEF StartDrop
  <2> QED BY <2>1, <2>2, Zenon DEF History
<1>3. db' = db /\ NextDrop(db', {i}, "down", {})
  BY Zenon DEF StartDrop
<1>4. DbOK(db', past'.twice, past'.failed)
  BY <1>1, <1>2, <1>3, Zenon
<1>5. {i} \in SUBSET Index /\ {} \in SUBSET Index /\ {} \cap db'.dropping \subseteq {i} /\ "addr" \notin {}
  BY Zenon
<1> QED BY <1>1, <1>2, <1>3, <1>4, <1>5, DropsNext, Zenon

\* The drop in progress goes on with another transaction.
LEMMA OpNext ==
    ASSUME Types, DbOK(db', past.twice, past.failed), past' = past,
           at = "drop", cur = 0, scan = NoScan,
           NEW op \in {"mark", "empty", "ids", "metadata"}, NEW i \in Index, NextOp(op, i),
           drop.then = "down" <=> enabled = {},
           Exists(db', drop.for), Exists(db', i),
           i # drop.for => i = "addr" /\ drop.for = "tx" /\ "tx" \in db'.dropping,
           op \in {"empty", "ids"} => i \in db'.dropping /\ i # "cf",
           op = "ids" => i = "tx",
           op = "metadata" /\ i = "tx" => ~db'.idBuckets,
           enabled \cap db'.dropping \subseteq drop.todo \cup {drop.for, i}
    PROVE  IInv'
<1>1. /\ drop' = [drop EXCEPT !.op = op, !.on = i] /\ drop \in Job
      /\ UNCHANGED <<at, enabled, cur, scan, roll, work>>
  BY Zenon DEF NextOp, Types
<1>2. /\ drop' \in Job /\ drop'.op = op /\ drop'.on = i /\ drop'.todo = drop.todo
      /\ drop'.for = drop.for /\ drop'.then = drop.then
  BY <1>1, Zenon DEF Job
<1>3. Types'
  BY <1>1, <1>2, Zenon DEF Types
<1>4. DropInv'
  BY <1>1, <1>2, Zenon DEF DropInv
<1> QED BY <1>1, <1>3, <1>4, Before, Zenon

\* What the invariant says of a drop in progress.
LEMMA Dropping ==
    ASSUME IInv, at = "drop"
    PROVE  /\ Types /\ DbOK(db, past.twice, past.failed) /\ cur = 0 /\ scan = NoScan
           /\ past \in History /\ past.twice \in BOOLEAN /\ past.failed \in BOOLEAN
           /\ drop.todo \in SUBSET Index /\ drop.then \in {"down", "create", "recreate"}
           /\ drop.for \in Index /\ drop.on \in Index /\ enabled \in SUBSET Index
           /\ ("addr" \in enabled => "tx" \in enabled)
           /\ (drop.then = "down" <=> enabled = {})
           /\ Exists(db, drop.for) /\ Exists(db, drop.on)
           /\ (drop.on # drop.for => drop.on = "addr" /\ drop.for = "tx" /\ "tx" \in db.dropping)
           /\ (drop.op \in {"empty", "ids"} => drop.on \in db.dropping /\ drop.on # "cf")
           /\ (drop.op = "ids" => drop.on = "tx")
           /\ (drop.op = "metadata" /\ drop.on = "tx" => ~db.idBuckets)
           /\ enabled \cap db.dropping \subseteq drop.todo \cup {drop.for, drop.on}
<1>1. Types /\ past \in History /\ drop \in Job /\ enabled \in SUBSET Index
  BY Zenon DEF IInv, Types, History
<1>2. past.twice \in BOOLEAN /\ past.failed \in BOOLEAN
  BY <1>1, Zenon DEF History
<1>3. /\ drop.todo \in SUBSET Index /\ drop.then \in {"down", "create", "recreate"}
      /\ drop.for \in Index /\ drop.on \in Index
  BY <1>1, Zenon DEF Job
<1>4. DbOK(db, past.twice, past.failed) /\ cur = 0 /\ scan = NoScan
  BY Zenon DEF IInv, InitInv
<1>5. "addr" \in enabled => "tx" \in enabled
  BY <1>1, Zenon DEF Types
<1>6. DropInv
  BY Zenon DEF IInv
<1>7. /\ (drop.then = "down" <=> enabled = {})
      /\ Exists(db, drop.for) /\ Exists(db, drop.on)
      /\ (drop.on # drop.for => drop.on = "addr" /\ drop.for = "tx" /\ "tx" \in db.dropping)
      /\ (drop.op \in {"empty", "ids"} => drop.on \in db.dropping /\ drop.on # "cf")
      /\ (drop.op = "ids" => drop.on = "tx")
      /\ (drop.op = "metadata" /\ drop.on = "tx" => ~db.idBuckets)
      /\ enabled \cap db.dropping \subseteq drop.todo \cup {drop.for, drop.on}
  BY <1>6, Zenon DEF DropInv
<1> QED BY <1>1, <1>2, <1>3, <1>4, <1>5, <1>7, Zenon

\* markIndexDeletion.
LEMMA MarkStep == IInv /\ MarkIndexDeletion => IInv'
<1> SUFFICES ASSUME IInv, MarkIndexDeletion PROVE IInv'
  OBVIOUS
<1>1. at = "drop" /\ db' = Marked(db, drop.on) /\ past' = past
  BY Zenon DEF MarkIndexDeletion
<1>2. /\ Types /\ DbOK(db, past.twice, past.failed) /\ cur = 0 /\ scan = NoScan
      /\ past.twice \in BOOLEAN /\ past.failed \in BOOLEAN
      /\ drop.for \in Index /\ drop.on \in Index
      /\ (drop.then = "down" <=> enabled = {})
      /\ Exists(db, drop.for) /\ Exists(db, drop.on)
      /\ (drop.on # drop.for => drop.on = "addr" /\ drop.for = "tx" /\ "tx" \in db.dropping)
      /\ enabled \cap db.dropping \subseteq drop.todo \cup {drop.for, drop.on}
  BY <1>1, Dropping, Zenon
<1>3. /\ DbOK(db', past.twice, past.failed) /\ db'.tip = db.tip
      /\ db'.dropping = db.dropping \cup {drop.on}
  <2>1. /\ DbOK(Marked(db, drop.on), past.twice, past.failed) /\ Marked(db, drop.on).tip = db.tip
        /\ Marked(db, drop.on).dropping = db.dropping \cup {drop.on}
    <3>1. /\ DbOK(db, past.twice, past.failed) /\ past.twice \in BOOLEAN /\ past.failed \in BOOLEAN
          /\ drop.on \in Index /\ Exists(db, drop.on)
      BY <1>2, Zenon
    <3> QED BY <3>1, MarkedOK
  <2> QED BY <1>1, <2>1, Zenon
<1>4. \A i \in Index : Exists(db, i) => Exists(db', i)
  BY <1>3, Zenon DEF Exists
<1>5. CASE drop.on = "tx"
  <2>1. drop.for = "tx"
    BY <1>2, <1>5, Zenon
  <2>2. CASE Exists(db, "addr")
    <3>1. NextOp("mark", "addr")
      BY <1>5, <2>2, Zenon DEF MarkIndexDeletion
    <3>2. /\ Exists(db', drop.for) /\ Exists(db', "addr") /\ "addr" \in Index /\ "tx" \in db'.dropping
          /\ enabled \cap db'.dropping \subseteq drop.todo \cup {drop.for, "addr"}
      BY <1>2, <1>3, <1>4, <1>5, <2>1, <2>2, Zenon DEF Index
    <3> QED BY <1>1, <1>2, <1>3, <2>1, <3>1, <3>2, OpNext, Zenon
  <2>3. CASE ~Exists(db, "addr")
    <3>1. NextOp("empty", "tx")
      BY <1>5, <2>3, Zenon DEF MarkIndexDeletion
    <3>2. /\ Exists(db', drop.for) /\ Exists(db', "tx") /\ "tx" \in Index /\ "tx" \in db'.dropping
          /\ enabled \cap db'.dropping \subseteq drop.todo \cup {drop.for, "tx"}
      BY <1>2, <1>3, <1>4, <1>5, <2>1, Zenon DEF Index
    <3> QED BY <1>1, <1>2, <1>3, <2>1, <3>1, <3>2, OpNext, Zenon
  <2> QED BY <2>2, <2>3, Zenon
<1>6. CASE drop.on = "addr"
  <2>1. NextOp("empty", "addr")
    BY <1>6, Zenon DEF MarkIndexDeletion
  <2>2. /\ Exists(db', drop.for) /\ Exists(db', "addr") /\ "addr" \in Index /\ "addr" \in db'.dropping
        /\ "addr" # drop.for => drop.for = "tx" /\ "tx" \in db'.dropping
        /\ enabled \cap db'.dropping \subseteq drop.todo \cup {drop.for, "addr"}
    BY <1>2, <1>3, <1>4, <1>6, Zenon DEF Index
  <2> QED BY <1>1, <1>2, <1>3, <2>1, <2>2, OpNext, Zenon
<1>7. CASE drop.on = "cf"
  <2>1. NextOp("metadata", "cf")
    BY <1>7, Zenon DEF MarkIndexDeletion
  <2>2. /\ Exists(db', drop.for) /\ Exists(db', "cf") /\ "cf" \in Index /\ drop.for = "cf"
        /\ enabled \cap db'.dropping \subseteq drop.todo \cup {drop.for, "cf"}
    BY <1>2, <1>3, <1>4, <1>7, Zenon DEF Index
  <2> QED BY <1>1, <1>2, <1>3, <2>1, <2>2, OpNext, Zenon
<1> QED BY <1>2, <1>5, <1>6, <1>7, Zenon DEF Index

\* incrementalFlatDrop.
LEMMA FlatDropStep == IInv /\ IncrementalFlatDrop => IInv'
<1> SUFFICES ASSUME IInv, IncrementalFlatDrop PROVE IInv'
  OBVIOUS
<1>1. at = "drop" /\ drop.op = "empty" /\ past' = past
  BY Zenon DEF IncrementalFlatDrop
<1>2. /\ Types /\ DbOK(db, past.twice, past.failed) /\ cur = 0 /\ scan = NoScan
      /\ past.twice \in BOOLEAN /\ past.failed \in BOOLEAN
      /\ drop.for \in Index /\ drop.on \in Index /\ drop.on \in db.dropping /\ drop.on # "cf"
      /\ (drop.then = "down" <=> enabled = {})
      /\ Exists(db, drop.for) /\ Exists(db, drop.on)
      /\ (drop.on # drop.for => drop.on = "addr" /\ drop.for = "tx" /\ "tx" \in db.dropping)
      /\ enabled \cap db.dropping \subseteq drop.todo \cup {drop.for, drop.on}
  BY <1>1, Dropping, Zenon
<1>3. ASSUME UNCHANGED memory, DbOK(db', past.twice, past.failed), db'.tip = db.tip,
             db'.dropping = db.dropping, db'.idBuckets => db.idBuckets
      PROVE  IInv'
  <2>1. UNCHANGED <<at, enabled, cur, drop, scan, roll, work>>
    BY <1>3, Zenon DEF memory
  <2>2. Types'
    BY <1>1, <1>2, <2>1, Zenon DEF Types
  <2>3. DropInv'
    BY <1>1, <1>2, <1>3, <2>1, Zenon DEF DropInv, Exists
  <2> QED BY <1>1, <1>2, <1>3, <2>1, <2>2, <2>3, Before, Zenon
<1>4. CASE \E t \in Tx : db' = [db EXCEPT !.txs = [db.txs EXCEPT ![t] = None]] /\
                         drop.on = "tx" /\ UNCHANGED memory
  <2>1. /\ DbOK(db, past.twice, past.failed) /\ past.twice \in BOOLEAN /\ past.failed \in BOOLEAN
        /\ Emptied(db, db')
    BY <1>2, <1>4, Zenon DEF Emptied
  <2>2. /\ DbOK(db', past.twice, past.failed) /\ db'.tip = db.tip /\ db'.dropping = db.dropping
        /\ db'.idBuckets => db.idBuckets
    BY <2>1, EmptyingOK
  <2> QED BY <1>3, <1>4, <2>2, Zenon
<1>5. CASE drop.on = "tx" /\ NextOp("ids", "tx") /\ UNCHANGED db
  <2>1. db' = db
    BY <1>5, Zenon
  <2> QED BY <1>1, <1>2, <1>5, <2>1, OpNext, Zenon
<1>6. CASE drop.on = "addr" /\ db.addr # <<>> /\ db' = [db EXCEPT !.addr = Front(db.addr)] /\
           UNCHANGED memory
  <2>1. /\ DbOK(db, past.twice, past.failed) /\ past.twice \in BOOLEAN /\ past.failed \in BOOLEAN
        /\ Emptied(db, db')
    BY <1>2, <1>6, Zenon DEF Emptied
  <2>2. /\ DbOK(db', past.twice, past.failed) /\ db'.tip = db.tip /\ db'.dropping = db.dropping
        /\ db'.idBuckets => db.idBuckets
    BY <2>1, EmptyingOK
  <2> QED BY <1>3, <1>6, <2>2, Zenon
<1>7. CASE drop.on = "addr" /\ NextOp("metadata", "addr") /\ UNCHANGED db
  <2>1. db' = db
    BY <1>7, Zenon
  <2> QED BY <1>1, <1>2, <1>7, <2>1, OpNext, Zenon
<1> QED BY <1>4, <1>5, <1>6, <1>7, Zenon DEF IncrementalFlatDrop

\* dropBlockIDIndex: the transaction index is marked and has lost its entries before.
LEMMA DropIdsStep == IInv /\ DropBlockIDIndex => IInv'
<1> SUFFICES ASSUME IInv, DropBlockIDIndex PROVE IInv'
  OBVIOUS
<1>1. at = "drop" /\ drop.op = "ids" /\ past' = past
  BY Zenon DEF DropBlockIDIndex, Exit
<1>2. /\ Types /\ DbOK(db, past.twice, past.failed) /\ cur = 0 /\ scan = NoScan
      /\ past \in History /\ past.twice \in BOOLEAN /\ past.failed \in BOOLEAN
      /\ drop.for \in Index /\ drop.on = "tx" /\ "tx" \in Index /\ "tx" \in db.dropping
      /\ (drop.then = "down" <=> enabled = {})
      /\ Exists(db, drop.for) /\ Exists(db, "tx")
      /\ (drop.on # drop.for => drop.on = "addr")
      /\ enabled \cap db.dropping \subseteq drop.todo \cup {drop.for, "tx"}
  BY <1>1, Dropping, Zenon
<1>3. CASE Exit("no bucket")
  BY <1>1, <1>2, <1>3, GoesDown, Zenon DEF Exit
<1>4. CASE /\ db' = [db EXCEPT !.idBuckets = FALSE, !.ids = EmptyDb.ids, !.hashes = EmptyDb.hashes]
           /\ NextOp("metadata", "tx")
  <2>1. /\ DbOK(db', past.twice, past.failed) /\ db'.tip = db.tip /\ db'.dropping = db.dropping
        /\ ~db'.idBuckets
    <3>1. /\ DbOK(db, past.twice, past.failed) /\ past.twice \in BOOLEAN /\ past.failed \in BOOLEAN
          /\ IdsDropped(db, db')
      BY <1>2, <1>4, Zenon DEF IdsDropped
    <3> QED BY <3>1, EmptyingOK
  <2>2. Exists(db', drop.for) /\ Exists(db', "tx")
    BY <1>2, <2>1, Zenon DEF Exists
  <2> QED BY <1>1, <1>2, <1>4, <2>1, <2>2, OpNext, Zenon
<1> QED BY <1>3, <1>4, Zenon DEF DropBlockIDIndex

\* dropIndexMetadata: nothing is left of the index.
LEMMA DropMetadataStep == IInv /\ DropIndexMetadata => IInv'
<1> SUFFICES ASSUME IInv, DropIndexMetadata PROVE IInv'
  OBVIOUS
<1>1. at = "drop" /\ drop.op = "metadata" /\ past' = past /\ db' = WithoutIndex(db, drop.on)
  BY Zenon DEF DropIndexMetadata
<1>2. /\ Types /\ DbOK(db, past.twice, past.failed) /\ cur = 0 /\ scan = NoScan
      /\ past \in History /\ past.twice \in BOOLEAN /\ past.failed \in BOOLEAN
      /\ drop.todo \in SUBSET Index /\ drop.then \in {"down", "create", "recreate"}
      /\ drop.for \in Index /\ drop.on \in Index /\ enabled \in SUBSET Index
      /\ ("addr" \in enabled => "tx" \in enabled)
      /\ (drop.then = "down" <=> enabled = {})
      /\ Exists(db, drop.for)
      /\ (drop.on # drop.for => drop.on = "addr" /\ drop.for = "tx" /\ "tx" \in db.dropping)
      /\ (drop.on = "tx" => ~db.idBuckets)
      /\ enabled \cap db.dropping \subseteq drop.todo \cup {drop.for, drop.on}
  BY <1>1, Dropping, Zenon
<1>3. DbOK(db', past.twice, past.failed) /\ db'.dropping = db.dropping \ {drop.on}
  <2>1. /\ DbOK(WithoutIndex(db, drop.on), past.twice, past.failed)
        /\ WithoutIndex(db, drop.on).dropping = db.dropping \ {drop.on}
    <3>1. /\ DbOK(db, past.twice, past.failed) /\ past.twice \in BOOLEAN /\ past.failed \in BOOLEAN
          /\ drop.on \in Index /\ (drop.on = "tx" => ~db.idBuckets)
      BY <1>2, Zenon
    <3> QED BY <3>1, WithoutOK
  <2> QED BY <1>1, <2>1, Zenon
<1>4. CASE drop.on # drop.for
  <2>1. NextOp("empty", "tx") /\ drop.on = "addr" /\ drop.for = "tx" /\ "tx" \in Index
    BY <1>2, <1>4, Zenon DEF DropIndexMetadata
  <2>2. "tx" \in db'.dropping /\ enabled \cap db'.dropping \subseteq drop.todo \cup {drop.for, "tx"}
    BY <1>2, <1>3, <2>1, Zenon
  <2>3. Exists(db', "tx")
    BY <1>3, <2>2, Zenon DEF DbOK
  <2> QED BY <1>1, <1>2, <1>3, <2>1, <2>2, <2>3, OpNext, Zenon
<1>5. CASE drop.on = drop.for
  <2>1. NextDrop(db', drop.todo, drop.then, enabled)
    BY <1>5, Zenon DEF DropIndexMetadata
  <2>2. enabled \cap db'.dropping \subseteq drop.todo
    BY <1>2, <1>3, <1>5, Zenon
  <2> QED BY <1>1, <1>2, <1>3, <2>1, <2>2, DropsNext, Zenon
<1> QED BY <1>4, <1>5, Zenon

(***************************************************************************)
(* The steps: Manager.Init after the drops.                                *)
(***************************************************************************)
\* What the invariant says after the drops, and once the indexes exist.
LEMMA Running ==
    ASSUME IInv, at \notin {"down", "drop"}
    PROVE  /\ Types /\ DbOK(db, past.twice, past.failed) /\ db \in Database
           /\ past \in History /\ past.twice \in BOOLEAN /\ past.failed \in BOOLEAN
           /\ enabled \in SUBSET Index /\ ("addr" \in enabled => "tx" \in enabled)
           /\ enabled \cap db.dropping = {}
           /\ at # "up" => enabled # {}
           /\ at \in {"create", "recreate"} => cur = 0 /\ scan = NoScan
           /\ at \notin {"create", "recreate"} => \A i \in enabled : Exists(db, i)
<1>1. Types /\ past \in History /\ enabled \in SUBSET Index /\ ("addr" \in enabled => "tx" \in enabled)
  BY Zenon DEF IInv, Types, History
<1>2. past.twice \in BOOLEAN /\ past.failed \in BOOLEAN
  BY <1>1, Zenon DEF History
<1>3. DbOK(db, past.twice, past.failed) /\ db \in Database
  BY Zenon DEF IInv, DbOK
<1>4. /\ enabled \cap db.dropping = {}
      /\ at # "up" => enabled # {}
      /\ at \in {"create", "recreate"} => cur = 0 /\ scan = NoScan
      /\ at \notin {"create", "recreate"} => \A i \in enabled : Exists(db, i)
  BY <1>1, Zenon DEF IInv, InitInv, Types
<1> QED BY <1>1, <1>2, <1>3, <1>4, Zenon

\* maybeCreateIndexes: no index that is marked is left among the enabled ones.
LEMMA CreateStep == IInv /\ CreateIndexes => IInv'
<1> SUFFICES ASSUME IInv, CreateIndexes PROVE IInv'
  OBVIOUS
<1>1. at = "create" /\ past' = past
  BY Zenon DEF CreateIndexes, Exit
<1>2. /\ Types /\ DbOK(db, past.twice, past.failed)
      /\ past \in History /\ past.twice \in BOOLEAN /\ past.failed \in BOOLEAN
      /\ enabled \in SUBSET Index /\ ("addr" \in enabled => "tx" \in enabled)
      /\ enabled \cap db.dropping = {} /\ enabled # {} /\ cur = 0 /\ scan = NoScan
  BY <1>1, Running, Zenon
<1>3. CASE Exit("bucket exists")
  BY <1>1, <1>2, <1>3, GoesDown, Zenon DEF Exit
<1>4. CASE db' = Create(db, enabled) /\ NextDrop(db', enabled \cap db.old, "recreate", enabled)
  <2>1. DbOK(db', past.twice, past.failed) /\ db'.dropping = db.dropping
    BY <1>2, <1>4, CreateOK
  <2>2. enabled \cap db.old \in SUBSET Index /\ enabled \cap db'.dropping \subseteq enabled \cap db.old
    BY <1>2, <2>1, Zenon
  <2> QED BY <1>1, <1>2, <1>4, <2>1, <2>2, DropsNext, Zenon
<1> QED BY <1>3, <1>4, Zenon DEF CreateIndexes

\* The rollback begins, with the counter of block ids at the last one given out.
LEMMA RollbackBegins ==
    ASSUME Types, DbOK(db', past.twice, past.failed), past' = past, enabled' = enabled,
           drop' = drop, work' = work, cur' \in Id,
           enabled # {}, enabled \cap db'.dropping = {}, \A i \in enabled : Exists(db', i),
           ~past.failed /\ "tx" \in enabled => cur' = Height[db'.tip["tx"]],
           BeginRollback
    PROVE  IInv'
<1>1. /\ at' = "rollback" /\ scan' = NoScan
      /\ roll' = [left |-> enabled, hash |-> Genesis, cached |-> None]
  BY Zenon DEF BeginRollback
<1>2. enabled \in SUBSET Index /\ Genesis \in Block
  BY TreeAssumption, Zenon DEF Types
<1>3. /\ roll' \in [left : SUBSET Index, hash : Block, cached : Block \cup {None}]
      /\ roll'.left = enabled
  BY <1>1, <1>2, Zenon
<1>4. Types'
  BY <1>1, <1>3, InitialValues, Zenon DEF Types
<1>5. RollInv'
  BY <1>1, <1>3, Zenon DEF RollInv
<1> QED BY <1>1, <1>4, <1>5, Zenon DEF IInv, DropInv, InitInv, ScanInv, UpInv

\* maybeCreateIndexes after the upgrade, and the beginning of TxIndex.Init.
LEMMA RecreateStep == IInv /\ RecreateIndexes => IInv'
<1> SUFFICES ASSUME IInv, RecreateIndexes PROVE IInv'
  OBVIOUS
<1>1. /\ at = "recreate" /\ db' = Create(db, enabled)
      /\ UNCHANGED <<enabled, cur, drop, work, err, past>>
  BY Zenon DEF RecreateIndexes
<1>2. /\ Types /\ DbOK(db, past.twice, past.failed)
      /\ past \in History /\ past.twice \in BOOLEAN /\ past.failed \in BOOLEAN
      /\ enabled \in SUBSET Index /\ ("addr" \in enabled => "tx" \in enabled)
      /\ enabled \cap db.dropping = {} /\ enabled # {} /\ cur = 0 /\ scan = NoScan
  BY <1>1, Running, Zenon
<1>3. /\ DbOK(db', past.twice, past.failed) /\ db'.dropping = db.dropping
      /\ \A i \in enabled : Exists(db', i)
  BY <1>1, <1>2, CreateOK
<1>4. CASE "tx" \in enabled
  <2>1. at' = "scan" /\ UNCHANGED <<scan, roll>>
    BY <1>4, Zenon DEF RecreateIndexes
  <2>2. Types'
    BY <1>1, <1>2, <2>1, Zenon DEF Types
  <2>3. scan'.known = 0 /\ scan'.next = 1
    BY <1>2, <2>1, Zenon DEF NoScan
  <2>4. 0 <= Height[db'.tip["tx"]]
    <3>1. db' \in Database /\ Exists(db', "tx") /\ "tx" \in Index
      BY <1>3, <1>4, Zenon DEF DbOK, Index
    <3>2. db'.tip["tx"] \in Block
      BY <3>1, WholeTip, Zenon
    <3>3. Height[db'.tip["tx"]] \in Nat
      BY <3>2, IdFacts, Zenon
    <3> QED BY <3>3
  <2>5. ScanInv'
    BY <1>1, <1>2, <1>4, <2>1, <2>3, <2>4, Zenon DEF ScanInv
  <2> QED BY <1>1, <1>2, <1>3, <2>1, <2>2, <2>5, Zenon DEF IInv, DropInv, InitInv, RollInv, UpInv
<1>5. CASE "tx" \notin enabled
  <2>1. BeginRollback
    BY <1>5, Zenon DEF RecreateIndexes
  <2>2. cur' \in Id
    BY <1>1, <1>2, Zenon DEF Types
  <2>3. enabled \cap db'.dropping = {}
    BY <1>2, <1>3, Zenon
  <2> QED BY <1>1, <1>2, <1>3, <1>5, <2>1, <2>2, <2>3, RollbackBegins, Zenon
<1> QED BY <1>4, <1>5, Zenon

\* While the scans run, the ids in use are those up to the height of the transaction
\* index, unless a commit failed.
LEMMA IdsInUse ==
    ASSUME IInv, at \in {"scan", "search"}
    PROVE  /\ db.tip["tx"] \in Block
           /\ ~past.failed => \A n \in Id : db.hashes[n] # None <=> n \in 1..Height[db.tip["tx"]]
<1>1. /\ DbOK(db, past.twice, past.failed) /\ db \in Database /\ enabled \cap db.dropping = {}
      /\ \A i \in enabled : Exists(db, i)
  BY Running, Zenon
<1>2. "tx" \in enabled /\ "tx" \in Index
  BY Zenon DEF IInv, ScanInv, Index
<1>3. Whole(db, "tx") /\ TxOK(db, past.twice, past.failed)
  BY <1>1, <1>2, Zenon DEF Whole, DbOK
<1>4. db.tip["tx"] \in Block
  BY <1>1, <1>2, WholeTip, Zenon
<1>5. ~past.failed => IdsOK(db)
  BY <1>3, Zenon DEF TxOK
<1> QED BY <1>4, <1>5, Zenon DEF IdsOK, IdsFit

\* The forward scan goes on, or to the binary search.
LEMMA ScanGoesOn ==
    ASSUME IInv, at \in {"scan", "search"}, at' \in {"scan", "search"},
           UNCHANGED <<db, enabled, cur, drop, work, past, roll>>,
           scan' \in [known : Id, next : Id], ScanInv'
    PROVE  IInv'
<1>1. Types'
  BY Zenon DEF IInv, Types
<1> QED BY <1>1, Zenon DEF IInv, DropInv, InitInv, RollInv, UpInv

\* The forward scan of TxIndex.Init passes the highest id, and does not wrap around.
LEMMA ScanStep == IInv /\ ScanForward => IInv'
<1> SUFFICES ASSUME IInv, ScanForward PROVE IInv'
  OBVIOUS
<1> DEFINE H == Height[db.tip["tx"]]
<1>1. at = "scan" /\ UNCHANGED <<db, enabled, cur, drop, work, past>>
  BY Zenon DEF ScanForward
<1>2. /\ Types /\ DbOK(db, past.twice, past.failed) /\ enabled # {} /\ enabled \cap db.dropping = {}
      /\ \A i \in enabled : Exists(db, i)
  BY <1>1, Running, Zenon
<1>3. /\ H \in Nat /\ H + Increment < IdSpace /\ Increment \in Nat /\ Increment > 0
      /\ ~past.failed => \A n \in Id : db.hashes[n] # None <=> n \in 1..H
  <2>1. db.tip["tx"] \in Block
    BY <1>1, IdsInUse, Zenon
  <2>2. H \in Nat /\ 2 * (H + Increment) < IdSpace /\ IdSpace \in Nat
    BY <2>1, IdFacts, Zenon
  <2>3. Increment \in Nat /\ Increment > 0
    BY IdAssumption
  <2>4. H + Increment < IdSpace
    BY <2>2, <2>3
  <2> QED BY <1>1, <2>2, <2>3, <2>4, IdsInUse, Zenon
<1>4. scan \in [known : Id, next : Id] /\ scan.known \in Id /\ scan.next \in Id
  BY <1>2, Zenon DEF Types
<1>5. /\ "tx" \in enabled /\ cur = 0
      /\ ~past.failed => /\ scan.known <= H
                         /\ \/ scan.known = 0 /\ scan.next = 1
                            \/ scan.known > 0 /\ scan.next = scan.known + Increment
  BY <1>1, Zenon DEF IInv, ScanInv
<1> HIDE DEF H
<1>6. CASE /\ db.hashes[scan.next] # None
           /\ scan' = [known |-> scan.next, next |-> (scan.next + Increment) % IdSpace]
           /\ UNCHANGED <<at, roll>>
  <2>1. (scan.next + Increment) % IdSpace \in Id
    BY <1>3, <1>4, IdFacts DEF Id
  <2>2. scan' \in [known : Id, next : Id] /\ scan'.known = scan.next
        /\ scan'.next = (scan.next + Increment) % IdSpace
    BY <1>4, <1>6, <2>1, Zenon
  <2>3. ASSUME ~past.failed
        PROVE  scan'.known <= H /\ scan'.known > 0 /\ scan'.next = scan'.known + Increment
    <3>1. scan.next \in 1..H
      BY <1>3, <1>4, <1>6, <2>3, Zenon
    <3>2. scan.next \in Nat /\ scan.next <= H /\ scan.next > 0 /\ IdSpace \in Nat
      BY <1>3, <3>1, IdFacts
    <3>3. (scan.next + Increment) % IdSpace = scan.next + Increment
      BY <1>3, <3>2
    <3> QED BY <2>2, <3>2, <3>3
  <2>4. ScanInv'
    BY <1>1, <1>5, <1>6, <2>3, Zenon DEF ScanInv, H
  <2> QED BY <1>1, <1>6, <2>2, <2>4, ScanGoesOn, Zenon
<1>7. CASE db.hashes[scan.next] = None /\ scan.next = 1 /\ BeginRollback
  <2>1. ASSUME ~past.failed PROVE cur' = H
    <3>1. 1 \notin 1..H
      BY <1>3, <1>4, <1>7, <2>1, Zenon
    <3>2. H = 0
      BY <1>3, <3>1
    <3> QED BY <1>1, <1>5, <3>2, Zenon
  <2>2. cur' \in Id
    BY <1>1, <1>2, Zenon DEF Types
  <2>3. DbOK(db', past.twice, past.failed) /\ enabled \cap db'.dropping = {}
        /\ \A i \in enabled : Exists(db', i)
    BY <1>1, <1>2, Zenon
  <2>4. ~past.failed => cur' = Height[db'.tip["tx"]]
    BY <1>1, <2>1, Zenon DEF H
  <2> QED BY <1>1, <1>2, <1>7, <2>2, <2>3, <2>4, RollbackBegins, Zenon
<1>8. CASE db.hashes[scan.next] = None /\ scan.next # 1 /\ at' = "search" /\ UNCHANGED <<scan, roll>>
  <2>1. ASSUME ~past.failed
        PROVE  scan.known > 0 /\ scan.next > H /\ scan.next <= H + Increment
    <3>1. scan.known > 0 /\ scan.next = scan.known + Increment /\ scan.known <= H
      BY <1>5, <1>8, <2>1, Zenon
    <3>2. scan.next \notin 1..H
      BY <1>3, <1>4, <1>8, <2>1, Zenon
    <3>3. scan.known \in Nat
      BY <1>4, IdFacts, Zenon
    <3> QED BY <1>3, <3>1, <3>2, <3>3
  <2>2. ScanInv'
    BY <1>1, <1>5, <1>8, <2>1, Zenon DEF ScanInv, H
  <2> QED BY <1>1, <1>4, <1>8, <2>2, ScanGoesOn, Zenon
<1> QED BY <1>6, <1>7, <1>8, Zenon DEF ScanForward

\* The binary search of TxIndex.Init keeps the highest id between its ends, and ends
\* with the counter at it.
LEMMA SearchStep == IInv /\ BinarySearch => IInv'
<1> SUFFICES ASSUME IInv, BinarySearch PROVE IInv'
  OBVIOUS
<1> DEFINE H == Height[db.tip["tx"]]
           id == ((scan.known + scan.next) % IdSpace) \div 2
           known == IF db.hashes[id] # None THEN id ELSE scan.known
           next == IF db.hashes[id] # None THEN scan.next ELSE id
<1>1. at = "search" /\ UNCHANGED <<db, enabled, drop, work, past>>
  BY Zenon DEF BinarySearch
<1>2. /\ Types /\ DbOK(db, past.twice, past.failed) /\ enabled # {} /\ enabled \cap db.dropping = {}
      /\ \A i \in enabled : Exists(db, i)
  BY <1>1, Running, Zenon
<1>3. /\ H \in Nat /\ 2 * (H + Increment) < IdSpace /\ Increment \in Nat /\ IdSpace \in Nat
      /\ ~past.failed => \A n \in Id : db.hashes[n] # None <=> n \in 1..H
  <2>1. db.tip["tx"] \in Block
    BY <1>1, IdsInUse, Zenon
  <2>2. H \in Nat /\ 2 * (H + Increment) < IdSpace /\ IdSpace \in Nat
    BY <2>1, IdFacts, Zenon
  <2>3. Increment \in Nat
    BY IdAssumption
  <2> QED BY <1>1, <2>2, <2>3, IdsInUse, Zenon
<1>4. scan.known \in Id /\ scan.next \in Id
  BY <1>2, Zenon DEF Types
<1>5. /\ "tx" \in enabled /\ cur = 0
      /\ ~past.failed => /\ scan.known <= H /\ scan.known > 0 /\ scan.next > H
                         /\ scan.next <= H + Increment
  BY <1>1, Zenon DEF IInv, ScanInv
<1> HIDE DEF H
<1>6. id \in Id
  <2>1. scan.known + scan.next \in Nat /\ IdSpace \in Nat /\ IdSpace > 2
    BY <1>4, IdFacts DEF Id
  <2>2. (scan.known + scan.next) % IdSpace \in 0..(IdSpace - 1)
    BY <2>1
  <2> QED BY <2>1, <2>2 DEF Id
<1>7. ASSUME ~past.failed
      PROVE  scan.known <= id /\ id < scan.next /\ id \in Nat
  <2>1. /\ scan.known \in Nat /\ scan.next \in Nat /\ scan.known <= H
        /\ scan.next > H /\ scan.next <= H + Increment
    BY <1>4, <1>5, <1>7, IdFacts, Zenon
  <2>2. (scan.known + scan.next) % IdSpace = scan.known + scan.next
    BY <1>3, <2>1
  <2> QED BY <1>3, <2>1, <2>2
<1> HIDE DEF id
<1>8. known \in Id /\ next \in Id
  BY <1>4, <1>6, Zenon
<1>9. ASSUME ~past.failed
      PROVE  known <= H /\ known > 0 /\ next > H /\ next <= H + Increment
  <2>1. db.hashes[id] # None <=> id \in 1..H
    BY <1>3, <1>6, <1>9, Zenon
  <2>2. /\ scan.known \in Nat /\ scan.next \in Nat /\ scan.known <= H /\ scan.known > 0
        /\ scan.next > H /\ scan.next <= H + Increment
        /\ scan.known <= id /\ id < scan.next /\ id \in Nat
    BY <1>4, <1>5, <1>7, <1>9, IdFacts, Zenon
  <2>3. CASE db.hashes[id] # None
    <3>1. known = id /\ next = scan.next
      BY <2>3, Zenon
    <3> QED BY <1>3, <2>1, <2>2, <2>3, <3>1
  <2>4. CASE db.hashes[id] = None
    <3>1. known = scan.known /\ next = id
      BY <2>4, Zenon
    <3>2. id \notin 1..H
      BY <2>1, <2>4, Zenon
    <3> QED BY <1>3, <2>2, <3>1, <3>2
  <2> QED BY <2>3, <2>4, Zenon
<1> HIDE DEF known, next
<1>10. CASE (known + 1) % IdSpace = next /\ BeginRollback /\ cur' = known
  <2>1. ASSUME ~past.failed PROVE cur' = H
    <3>1. known \in Nat /\ next \in Nat /\ known < IdSpace /\ known <= H
      BY <1>8, <1>9, <2>1, IdFacts, Zenon
    <3>2. H + 1 < IdSpace \/ H = 0
      BY <1>3
    <3>3. known + 1 < IdSpace
      BY <1>3, <3>1, <3>2, IdFacts
    <3>4. next = known + 1
      BY <1>3, <1>10, <3>1, <3>3
    <3>5. next > H
      BY <1>9, <2>1, Zenon
    <3> QED BY <1>3, <1>10, <3>1, <3>4, <3>5
  <2>2. DbOK(db', past.twice, past.failed) /\ enabled \cap db'.dropping = {}
        /\ \A i \in enabled : Exists(db', i)
    BY <1>1, <1>2, Zenon
  <2>3. ~past.failed => cur' = Height[db'.tip["tx"]]
    BY <1>1, <2>1, Zenon DEF H
  <2>4. cur' \in Id
    BY <1>8, <1>10, Zenon
  <2> QED BY <1>1, <1>2, <1>10, <2>2, <2>3, <2>4, RollbackBegins, Zenon
<1>11. CASE scan' = [known |-> known, next |-> next] /\ UNCHANGED <<at, cur, roll>>
  <2>1. scan' \in [known : Id, next : Id] /\ scan'.known = known /\ scan'.next = next
    BY <1>8, <1>11, Zenon
  <2>2. ScanInv'
    BY <1>1, <1>5, <1>9, <1>11, <2>1, Zenon DEF ScanInv, H
  <2> QED BY <1>1, <1>11, <2>1, <2>2, ScanGoesOn, Zenon
<1>12. IF (known + 1) % IdSpace = next
       THEN BeginRollback /\ cur' = known
       ELSE scan' = [known |-> known, next |-> next] /\ UNCHANGED <<at, cur, roll>>
  BY Zenon DEF BinarySearch, known, next, id
<1> QED BY <1>10, <1>11, <1>12, Zenon

\* An open transaction of the manager, when every enabled index exists.
LEMMA Opens ==
    ASSUME NEW d, NEW n \in Id, NEW c \in SUBSET Index, NEW twice \in BOOLEAN, NEW failed \in BOOLEAN,
           DbOK(d, twice, failed), "addr" \in c => "tx" \in c, c \cap d.dropping = {},
           \A i \in c : Exists(d, i), ~failed /\ "tx" \in c => n = Height[d.tip["tx"]]
    PROVE  LET x == [db |-> d, cur |-> n, err |-> "none"]
           IN  Ready(x, c, twice, failed) /\ x.db = d /\ x.cur = n /\ x.err = "none"
<1> DEFINE x == [db |-> d, cur |-> n, err |-> "none"]
<1>1. x.db = d /\ x.cur = n /\ x.err = "none"
  BY Zenon
<1>2. d \in Database /\ "none" \in Reason
  BY Zenon DEF DbOK, Reason
<1>3. x \in TxState
  BY <1>2, Zenon DEF TxState
<1> HIDE DEF x
<1>4. \A i \in c : Whole(x.db, i)
  BY <1>1, Zenon DEF Whole
<1>5. Ready(x, c, twice, failed)
  BY <1>1, <1>3, <1>4, Zenon DEF Ready
<1> QED BY <1>1, <1>5, Zenon DEF x

\* The rollback of an index begins from its tip.
LEMMA FetchTipStep == IInv /\ FetchTip => IInv'
<1> SUFFICES ASSUME IInv, FetchTip PROVE IInv'
  OBVIOUS
<1> DEFINE i == LastOf(roll.left)
<1>1. /\ at = "rollback" /\ at' = "loop" /\ UNCHANGED <<db, enabled, cur, drop, scan, past>>
      /\ roll' = [roll EXCEPT !.hash = db.tip[i]]
      /\ work' = [db |-> db, cur |-> cur, err |-> "none"]
  BY Zenon DEF FetchTip
<1>2. /\ Types /\ DbOK(db, past.twice, past.failed) /\ db \in Database
      /\ \A j \in enabled : Exists(db, j)
  BY <1>1, Running, Zenon
<1>3. /\ roll \in [left : SUBSET Index, hash : Block, cached : Block \cup {None}]
      /\ roll.left \in SUBSET Index /\ roll.left # {} /\ roll.left \subseteq enabled
      /\ \A j \in enabled \ roll.left : db.tip[j] \in MainChain(db)
  BY <1>1, <1>2, Zenon DEF IInv, RollInv, Types
<1>4. i \in enabled /\ i \in Index
  BY <1>3, FirstIsOne, Zenon
<1>5. db.tip[i] \in Block
  BY <1>2, <1>4, WholeTip, Zenon
<1> HIDE DEF i
<1>6. /\ roll' \in [left : SUBSET Index, hash : Block, cached : Block \cup {None}]
      /\ roll'.left = roll.left /\ roll'.hash = db.tip[i]
  BY <1>1, <1>3, <1>5, Zenon
<1>7. /\ work' \in [db : Database, cur : Id, err : {"none"}]
      /\ work'.db = db /\ work'.cur = cur
  BY <1>1, <1>2, Zenon DEF Types
<1>8. Types'
  BY <1>1, <1>2, <1>6, <1>7, Zenon DEF Types
<1>9. UpInv' /\ (~past.failed /\ "tx" \in enabled => cur = Height[db.tip["tx"]])
  BY <1>1, Zenon DEF IInv, UpInv
<1>10. LastOf(roll'.left) = i
  BY <1>6, Zenon DEF i
<1>11. RollInv'
  BY <1>1, <1>2, <1>3, <1>6, <1>7, <1>9, <1>10, Zenon DEF RollInv, MainChain
<1>12. InitInv' /\ DropInv' /\ ScanInv'
  BY <1>1, Zenon DEF IInv, InitInv, DropInv, ScanInv
<1> QED BY <1>1, <1>2, <1>8, <1>9, <1>11, <1>12, Zenon DEF IInv

\* The rollback of one block, with an interrupt after it, or an error.
LEMMA RollbackStep == IInv /\ RollbackBlock => IInv'
<1> SUFFICES ASSUME IInv, RollbackBlock PROVE IInv'
  OBVIOUS
<1> DEFINE i == LastOf(roll.left)
           block == IF roll.cached = None THEN roll.hash ELSE roll.cached
           view == MakeUtxoView(work, i, block)
           x == DbIndexDisconnectBlock(view, i, block)
<1>1. at = "loop" /\ past' = past
  BY Zenon DEF RollbackBlock, Exit
<1>2. /\ Types /\ DbOK(db, past.twice, past.failed) /\ db \in Database
      /\ past \in History /\ past.twice \in BOOLEAN /\ past.failed \in BOOLEAN
      /\ enabled \in SUBSET Index /\ ("addr" \in enabled => "tx" \in enabled)
      /\ enabled \cap db.dropping = {} /\ \A j \in enabled : Exists(db, j)
  BY <1>1, Running, Zenon
<1>3. /\ roll \in [left : SUBSET Index, hash : Block, cached : Block \cup {None}]
      /\ roll.left \in SUBSET Index /\ roll.left # {} /\ roll.left \subseteq enabled
      /\ roll.hash \in Block /\ roll.cached \in Block \cup {None}
      /\ work \in [db : Database, cur : Id, err : {"none"}] /\ RollInv
  BY <1>1, <1>2, Zenon DEF IInv, RollInv, Types
<1>4. i \in enabled /\ i \in Index /\ block \in Block
  BY <1>3, FirstIsOne, Zenon
<1>5. IF block = Genesis THEN Exit("no parent")
      ELSE IF x.err # "none" THEN Exit(x.err)
      ELSE \/ /\ work' = x
              /\ roll' = [roll EXCEPT !.hash = Parent[block], !.cached = Parent[block]]
              /\ UNCHANGED <<db, at, enabled, cur, drop, scan, err, past>>
           \/ db' = x.db /\ GoDown /\ UNCHANGED <<err, past>>
  BY Zenon DEF RollbackBlock
<1> HIDE DEF block
<1>6. ASSUME NEW r, Exit(r) PROVE IInv'
  BY <1>1, <1>2, <1>6, GoesDown, Zenon DEF Exit
<1>7. CASE block # Genesis /\ x.err = "none"
  <2>1. /\ work \in TxState /\ work.err = "none"
        /\ DbOK(work.db, past.twice, past.failed)
        /\ work.db.chain = db.chain /\ work.db.dropping = db.dropping
        /\ \A j \in Index : j # i => work.db.tip[j] = db.tip[j]
        /\ work.db.tip[i] = roll.hash
        /\ ~past.failed /\ "tx" \in enabled => work.cur = Height[work.db.tip["tx"]]
    BY <1>1, <1>3, Zenon DEF RollInv, TxState, Reason
  <2>2. \A j \in enabled : Whole(work.db, j)
    BY <1>2, <1>3, <2>1, NoneFacts, Zenon DEF Whole, Exists
  <2>3. Ready(work, enabled, past.twice, past.failed)
    BY <1>2, <2>1, <2>2, Zenon DEF Ready
  <2>4. view = work
    <3>1. view = work \/ view.err # "none"
      BY <2>1, ViewStep
    <3>2. view.err # "none" => x = view
      BY Zenon DEF DbIndexDisconnectBlock
    <3> QED BY <1>7, <3>1, <3>2, Zenon
  <2>5. x = DbIndexDisconnectBlock(work, i, block)
    BY <2>4, Zenon
  <2> HIDE DEF x
  <2>6. Disconnects(work, x, i, block, enabled, past.twice, past.failed)
    BY <1>2, <1>4, <1>7, <2>3, <2>5, DisconnectStep
  <2>7. Ready(x, enabled, past.twice, past.failed) /\ Moved(work, x, i, Parent[block])
    BY <1>7, <2>6, Zenon DEF Disconnects
  <2>8. CASE /\ work' = x
             /\ roll' = [roll EXCEPT !.hash = Parent[block], !.cached = Parent[block]]
             /\ UNCHANGED <<db, at, enabled, cur, drop, scan, err, past>>
    <3>1. Parent[block] \in Block
      BY <1>4, <1>7, Child, Zenon
    <3>2. /\ roll' \in [left : SUBSET Index, hash : Block, cached : Block \cup {None}]
          /\ roll'.left = roll.left /\ roll'.hash = Parent[block]
      BY <1>3, <2>8, <3>1, Zenon
    <3>3. work' \in [db : Database, cur : Id, err : {"none"}]
      <4>1. x \in [db : Database, cur : Id, err : Reason] /\ x.err = "none"
        BY <2>7, Zenon DEF Ready, TxState
      <4> QED BY <2>8, <4>1
    <3>4. Types'
      BY <1>2, <2>8, <3>2, <3>3, Zenon DEF Types
    <3>5. x.db.chain = db.chain /\ x.db.dropping = db.dropping
      BY <2>1, <2>7, Zenon DEF Moved, SameRest
    <3>6. \A j \in Index : x.db.tip[j] = IF j = i THEN Parent[block] ELSE work.db.tip[j]
      <4>1. work.db.tip \in [Index -> Block \cup {None}]
        BY <2>1, Zenon DEF DbOK, Database
      <4> QED BY <2>7, <4>1, Zenon DEF Moved
    <3>7. \A j \in Index : x.db.tip[j] = IF j = i THEN Parent[block] ELSE db.tip[j]
      BY <2>1, <3>6, Zenon
    <3>8. DbOK(x.db, past.twice, past.failed)
          /\ (~past.failed /\ "tx" \in enabled => x.cur = Height[x.db.tip["tx"]])
      BY <2>7, Zenon DEF Ready
    <3>9. LastOf(roll'.left) = i
      BY <3>2, Zenon DEF i
    <3> HIDE DEF i
    <3>10. RollInv'
      BY <1>1, <1>3, <1>4, <2>8, <3>2, <3>5, <3>7, <3>8, <3>9, Zenon DEF RollInv, MainChain
    <3>11. InitInv' /\ DropInv' /\ ScanInv' /\ UpInv'
      BY <1>1, <2>8, Zenon DEF IInv, InitInv, DropInv, ScanInv, UpInv
    <3> QED BY <1>2, <2>8, <3>4, <3>10, <3>11, Zenon DEF IInv
  <2>9. CASE db' = x.db /\ GoDown /\ UNCHANGED <<err, past>>
    <3>1. DbOK(db', past.twice, past.failed)
      BY <2>7, <2>9, Zenon DEF Ready
    <3> QED BY <1>1, <1>2, <2>9, <3>1, GoesDown, Zenon
  <2> QED BY <1>5, <1>7, <2>8, <2>9, Zenon DEF x
<1> QED BY <1>5, <1>6, <1>7, Zenon

\* What the invariant says once every tip is on the main chain: the node is up when
\* the tips are as high as it, and else the indexes catch up.
LEMMA TipsOnChain ==
    ASSUME Types', past' = past, DbOK(db', past.twice, past.failed), enabled' # {},
           enabled' \cap db'.dropping = {}, \A i \in enabled' : Exists(db', i),
           \A i \in enabled' : db'.tip[i] \in MainChain(db'),
           ~past.failed /\ "tx" \in enabled' => cur' = Height[db'.tip["tx"]],
           at' = IF CaughtUp(db', enabled') THEN "up" ELSE "catchup"
    PROVE  IInv'
<1>1. at' \in {"catchup", "up"}
  BY Zenon
<1>2. ASSUME at' = "up", NEW i \in enabled' PROVE db'.tip[i] = Tip(db'.chain)
  <2>1. CaughtUp(db', enabled')
    BY <1>2, Zenon
  <2>2. Height[db'.tip[i]] >= Len(db'.chain)
    BY <1>2, <2>1, Zenon DEF CaughtUp
  <2>3. db' \in Database /\ ChainOK(db'.chain)
    BY Zenon DEF DbOK
  <2> QED BY <1>2, <2>2, <2>3, AtTip, Zenon
<1>3. UpInv'
  BY <1>2, Zenon DEF UpInv
<1> QED BY <1>1, <1>3, Zenon DEF IInv, DropInv, InitInv, ScanInv, RollInv

\* The rollback of an index commits with its tip on the main chain.
LEMMA CommitStep == IInv /\ CommitRollback => IInv'
<1> SUFFICES ASSUME IInv, CommitRollback PROVE IInv'
  OBVIOUS
<1> DEFINE i == LastOf(roll.left)
           left == roll.left \ {i}
<1>1. /\ at = "loop" /\ roll.hash \in MainChain(db)
      /\ db' = work.db /\ cur' = work.cur /\ work' = NoWork
      /\ UNCHANGED <<enabled, drop, scan, past>>
      /\ IF left # {} THEN at' = "rollback" /\ roll' = [roll EXCEPT !.left = left]
         ELSE /\ at' = IF CaughtUp(db', enabled) THEN "up" ELSE "catchup"
              /\ roll' = NoRoll
  BY Zenon DEF CommitRollback
<1>2. /\ Types /\ db \in Database /\ enabled # {}
      /\ enabled \in SUBSET Index /\ ("addr" \in enabled => "tx" \in enabled)
      /\ enabled \cap db.dropping = {} /\ \A j \in enabled : Exists(db, j)
  BY <1>1, Running, Zenon
<1>3. /\ roll \in [left : SUBSET Index, hash : Block, cached : Block \cup {None}]
      /\ roll.left \in SUBSET Index /\ roll.left # {} /\ roll.left \subseteq enabled
      /\ roll.hash \in Block /\ work \in [db : Database, cur : Id, err : {"none"}]
      /\ \A j \in enabled \ roll.left : db.tip[j] \in MainChain(db)
      /\ DbOK(work.db, past.twice, past.failed)
      /\ work.db.chain = db.chain /\ work.db.dropping = db.dropping
      /\ \A j \in Index : j # i => work.db.tip[j] = db.tip[j]
      /\ work.db.tip[i] = roll.hash
      /\ ~past.failed /\ "tx" \in enabled => work.cur = Height[work.db.tip["tx"]]
  BY <1>1, <1>2, Zenon DEF IInv, RollInv, Types
<1>4. left \in SUBSET Index /\ left \subseteq enabled /\ i \in Index
  BY <1>3, FirstIsOne, Zenon
<1> HIDE DEF i
<1>5. \A j \in enabled' \ left : db'.tip[j] \in MainChain(db')
  <2>1. MainChain(db') = MainChain(db)
    BY <1>1, <1>3, Zenon DEF MainChain
  <2> QED BY <1>1, <1>2, <1>3, <2>1, Zenon
<1>6. /\ DbOK(db', past.twice, past.failed) /\ enabled' \cap db'.dropping = {}
      /\ ~past.failed /\ "tx" \in enabled' => cur' = Height[db'.tip["tx"]]
  BY <1>1, <1>2, <1>3, Zenon
<1>7. \A j \in enabled' : Exists(db', j)
  BY <1>1, <1>2, <1>3, NoneFacts, Zenon DEF Exists
<1>8. cur' \in Id /\ work' \in [db : Database, cur : Id, err : {"none"}]
  BY <1>1, <1>3, InitialValues, Zenon
<1> HIDE DEF left
<1>9. CASE left # {}
  <2>1. at' = "rollback" /\ roll' = [roll EXCEPT !.left = left]
    BY <1>1, <1>9, Zenon
  <2>2. /\ roll' \in [left : SUBSET Index, hash : Block, cached : Block \cup {None}]
        /\ roll'.left = left
    BY <1>3, <1>4, <2>1, Zenon
  <2>3. Types'
    BY <1>1, <1>2, <1>8, <2>1, <2>2, Zenon DEF Types
  <2>4. RollInv'
    BY <1>1, <1>4, <1>5, <1>9, <2>1, <2>2, Zenon DEF RollInv
  <2> QED BY <1>1, <1>2, <1>6, <1>7, <2>1, <2>3, <2>4, Zenon DEF IInv, DropInv, InitInv, ScanInv, UpInv
<1>10. CASE left = {}
  <2>1. at' = IF CaughtUp(db', enabled') THEN "up" ELSE "catchup"
    BY <1>1, <1>10, Zenon
  <2>2. roll' \in [left : SUBSET Index, hash : Block, cached : Block \cup {None}]
    BY <1>1, <1>10, InitialValues, Zenon
  <2>3. Types'
    BY <1>1, <1>2, <1>8, <2>1, <2>2, Zenon DEF Types
  <2>4. \A j \in enabled' : db'.tip[j] \in MainChain(db')
    BY <1>5, <1>10, Zenon
  <2> QED BY <1>1, <1>2, <1>6, <1>7, <2>1, <2>3, <2>4, TipsOnChain, Zenon
<1> QED BY <1>9, <1>10, Zenon

\* The catch-up of one block stays on the main chain.
LEMMA CatchUpStep == IInv /\ CatchUp => IInv'
<1> SUFFICES ASSUME IInv, CatchUp PROVE IInv'
  OBVIOUS
<1>1. at = "catchup" /\ past' = past
  BY Zenon DEF CatchUp, Exit
<1>2. /\ Types /\ DbOK(db, past.twice, past.failed) /\ db \in Database /\ enabled # {}
      /\ past \in History /\ past.twice \in BOOLEAN /\ past.failed \in BOOLEAN
      /\ enabled \in SUBSET Index /\ ("addr" \in enabled => "tx" \in enabled)
      /\ enabled \cap db.dropping = {} /\ \A j \in enabled : Exists(db, j)
  BY <1>1, Running, Zenon
<1> DEFINE x == [db |-> db, cur |-> cur, err |-> "none"]
           b(h) == db.chain[h]
           behind(h) == {i \in enabled : Height[db.tip[i]] < h}
           z(h) == CatchUpAll(x, behind(h), b(h))
<1>3. PICK h \in 1..Len(db.chain) :
         IF z(h).err # "none" THEN Exit(z(h).err)
         ELSE /\ db' = z(h).db /\ cur' = z(h).cur
              /\ at' = IF CaughtUp(db', enabled) THEN "up" ELSE "catchup"
              /\ UNCHANGED <<enabled, drop, scan, roll, work, err, past>>
  BY Zenon DEF CatchUp, CatchUpAll
<1>4. /\ b(h) \in Block \ {Genesis} /\ b(h) \in UpTo(Tip(db.chain)) /\ Tip(db.chain) \in Block
      /\ b(h) \in MainChain(db) /\ (~past.twice => NoTwice(b(h)))
  <2>1. db.chain \in Seq(Block \ {Genesis}) /\ ChainOK(db.chain)
        /\ (~past.twice => NoTwice(Tip(db.chain)))
    BY <1>2, Zenon DEF DbOK, Database
  <2>2. b(h) \in Block \ {Genesis} /\ b(h) \in UpTo(Tip(db.chain)) /\ Tip(db.chain) \in Block
    BY <1>3, <2>1, ChainTip, Zenon
  <2>3. b(h) \in MainChain(db)
    BY <2>1, <2>2, Zenon DEF MainChain, ChainOK
  <2>4. UpTo(b(h)) \subseteq UpTo(Tip(db.chain))
    BY <2>2, Branch, Zenon
  <2>5. ~past.twice => NoTwice(b(h))
    BY <2>1, <2>4, Zenon DEF NoTwice
  <2> QED BY <2>2, <2>3, <2>5, Zenon
<1>5. Ready(x, enabled, past.twice, past.failed) /\ x.db = db /\ x.err = "none"
  <2>1. cur \in Id /\ (~past.failed /\ "tx" \in enabled => cur = Height[db.tip["tx"]])
    BY <1>1, Zenon DEF IInv, Types, UpInv
  <2> QED BY <1>2, <2>1, Opens
<1>6. behind(h) \in SUBSET enabled
  BY Zenon
<1> HIDE DEF x, b, behind
<1>7. z(h).err # "none" \/ Progress(x, z(h), enabled, behind(h), b(h), past.twice, past.failed)
  BY <1>2, <1>4, <1>5, <1>6, AllCatchUp
<1> HIDE DEF z
<1>8. CASE z(h).err # "none"
  <2>1. GoDown /\ db' = db
    BY <1>3, <1>8, Zenon DEF Exit
  <2> QED BY <1>1, <1>2, <2>1, GoesDown, Zenon
<1>9. CASE z(h).err = "none"
  <2>1. /\ db' = z(h).db /\ cur' = z(h).cur /\ UNCHANGED <<enabled, drop, scan, roll, work, past>>
        /\ at' = IF CaughtUp(db', enabled') THEN "up" ELSE "catchup"
    BY <1>3, <1>9, Zenon
  <2>2. /\ Ready(z(h), enabled, past.twice, past.failed) /\ SameRest(db, db')
        /\ \A i \in Index : db'.tip[i] = IF i \in behind(h) THEN b(h) ELSE db.tip[i]
    BY <1>5, <1>7, <1>9, <2>1, Zenon DEF Progress
  <2>3. /\ z(h).cur \in Id /\ DbOK(db', past.twice, past.failed)
        /\ \A i \in enabled' : Exists(db', i)
        /\ ~past.failed /\ "tx" \in enabled' => cur' = Height[db'.tip["tx"]]
    BY <2>1, <2>2, Zenon DEF Ready, TxState, Whole
  <2>4. enabled' \cap db'.dropping = {} /\ MainChain(db') = MainChain(db)
    BY <1>2, <2>1, <2>2, Zenon DEF SameRest, MainChain
  <2>5. \A i \in enabled : db.tip[i] \in MainChain(db)
    BY <1>1, Zenon DEF IInv, UpInv
  <2>6. \A i \in enabled' : db'.tip[i] \in MainChain(db')
    BY <1>2, <1>4, <2>1, <2>2, <2>4, <2>5, Zenon
  <2>7. Types'
    BY <1>2, <2>1, <2>3, Zenon DEF Types
  <2> QED BY <1>1, <1>2, <2>1, <2>3, <2>4, <2>6, <2>7, TipsOnChain, Zenon
<1> QED BY <1>8, <1>9, Zenon

(***************************************************************************)
(* The steps: the chain changes.                                           *)
(***************************************************************************)
\* A transaction is in two blocks of the chain.
HasTwice(chain) ==
    \E i, j \in DOMAIN chain : i < j /\ Txs[chain[i]] \cap Txs[chain[j]] # {}

\* The main chain is replaced.
LEMMA NewChain ==
    ASSUME NEW d, NEW twice \in BOOLEAN, NEW failed \in BOOLEAN, DbOK(d, twice, failed),
           NEW chain \in Seq(Block \ {Genesis}), ChainOK(chain), ~twice => NoTwice(Tip(chain))
    PROVE  LET e == [d EXCEPT !.chain = chain]
           IN  /\ DbOK(e, twice, failed) /\ e.chain = chain /\ e.tip = d.tip
               /\ e.dropping = d.dropping
<1> DEFINE e == [d EXCEPT !.chain = chain]
<1>1. d \in Database
  BY Zenon DEF DbOK
<1>2. e \in Database /\ e.chain = chain /\ e.tip = d.tip /\ e.dropping = d.dropping
      /\ SameTx(d, e) /\ e.addr = d.addr /\ e.cf = d.cf
  BY <1>1, Zenon DEF Database, SameTx
<1> HIDE DEF e
<1>3. \A i \in Index : (Exists(e, i) <=> Exists(d, i)) /\ (Whole(e, i) <=> Whole(d, i))
  BY <1>2, Zenon DEF Exists, Whole
<1>4. \A i \in e.dropping : Exists(e, i)
  BY <1>2, Zenon DEF DbOK, Exists
<1>5. TxOK(e, twice, failed)
  BY <1>2, Zenon DEF DbOK, TxOK, SameTx, IdsOK, Exists, Whole
<1>6. AddrOK(e, failed) /\ CfOK(e)
  BY <1>2, Zenon DEF DbOK, AddrOK, CfOK, Exists, Whole
<1>7. DbOK(e, twice, failed)
  BY <1>2, <1>4, <1>5, <1>6, Zenon DEF DbOK
<1> QED BY <1>2, <1>7, Zenon DEF e

\* The transaction of a block, of which the indexes leave z.
LEMMA TransactionStep ==
    ASSUME IInv, at = "up", NEW z, NEW chain \in Seq(Block \ {Genesis}), ChainOK(chain),
           Transaction(z, chain),
           z.err # "none" => z.cur = cur,
           z.err = "none" => /\ Ready(z, enabled, past.twice \/ HasTwice(chain), past.failed)
                             /\ SameRest(db, z.db)
                             /\ \A i \in enabled : z.db.tip[i] = Tip(chain)
    PROVE  IInv'
<1> DEFINE twice == past.twice \/ HasTwice(chain)
<1>1. cur' = z.cur /\ UNCHANGED <<at, enabled, drop, scan, roll, work>>
  BY Zenon DEF Transaction
<1>2. /\ Types /\ DbOK(db, past.twice, past.failed)
      /\ past \in History /\ past.twice \in BOOLEAN /\ past.failed \in BOOLEAN
      /\ enabled \in SUBSET Index
      /\ enabled \cap db.dropping = {} /\ \A j \in enabled : Exists(db, j)
  BY Running, Zenon
<1>3. twice \in BOOLEAN
  BY Zenon DEF HasTwice
<1> HIDE DEF twice
<1>4. CASE z.err # "none" /\ UNCHANGED <<db, past>>
  <2>1. cur' = cur
    BY <1>1, <1>4, Zenon
  <2>2. Types'
    BY <1>1, <1>2, <1>4, <2>1, Zenon DEF Types
  <2> QED
    BY <1>1, <1>4, <2>1, <2>2, Zenon DEF IInv, DropInv, InitInv, ScanInv, RollInv, UpInv
<1>5. CASE /\ z.err = "none" /\ past' = [past EXCEPT !.events = past.events + 1, !.failed = TRUE]
           /\ UNCHANGED db
  <2>1. past.events + 1 \in Nat
    <3>1. past.events \in Nat
      BY <1>2, Zenon DEF History
    <3> QED BY <3>1
  <2>2. past' \in History /\ past'.failed = TRUE /\ past'.twice = past.twice
    BY <1>2, <1>5, <2>1, Zenon DEF History
  <2>3. DbOK(db', past'.twice, past'.failed)
    BY <1>2, <1>5, <2>2, Weaker, Zenon
  <2>4. cur' \in Id
    BY <1>1, <1>5, Zenon DEF Ready, TxState
  <2>5. Types'
    BY <1>1, <1>2, <2>2, <2>4, Zenon DEF Types, History
  <2>6. \A i \in enabled' : db'.tip[i] = Tip(db'.chain)
    BY <1>1, <1>5, Zenon DEF IInv, UpInv
  <2>7. enabled' \cap db'.dropping = {} /\ \A j \in enabled' : Exists(db', j)
    BY <1>1, <1>2, <1>5, Zenon
  <2> QED BY <1>1, <2>2, <2>3, <2>5, <2>6, <2>7, Zenon DEF IInv, DropInv, InitInv, ScanInv, RollInv, UpInv
<1>6. CASE /\ z.err = "none" /\ db' = [z.db EXCEPT !.chain = chain]
           /\ past' = [past EXCEPT !.twice = twice]
  <2>1. past' \in History /\ past'.failed = past.failed /\ past'.twice = twice
    BY <1>2, <1>3, <1>6, Zenon DEF History
  <2>2. /\ DbOK(z.db, twice, past.failed) /\ z.cur \in Id /\ SameRest(db, z.db)
        /\ \A i \in enabled : Whole(z.db, i) /\ z.db.tip[i] = Tip(chain)
        /\ ~past.failed /\ "tx" \in enabled => z.cur = Height[z.db.tip["tx"]]
    BY <1>6, Zenon DEF Ready, TxState, twice
  <2>3. ~twice => NoTwice(Tip(chain))
    BY OnceOnly, Zenon DEF twice, HasTwice
  <2>4. /\ DbOK(db', twice, past.failed) /\ db'.chain = chain /\ db'.tip = z.db.tip
        /\ db'.dropping = z.db.dropping
    BY <1>2, <1>3, <1>6, <2>2, <2>3, NewChain
  <2>5. enabled' \cap db'.dropping = {} /\ \A j \in enabled' : Exists(db', j)
    BY <1>1, <1>2, <2>2, <2>4, Zenon DEF SameRest, Whole, Exists
  <2>6. \A i \in enabled' : db'.tip[i] = Tip(db'.chain)
    BY <1>1, <2>2, <2>4, Zenon
  <2>7. ~past.failed /\ "tx" \in enabled' => cur' = Height[db'.tip["tx"]]
    BY <1>1, <2>2, <2>4, Zenon
  <2>8. Types'
    BY <1>1, <1>2, <2>1, <2>2, Zenon DEF Types, History
  <2> QED BY <1>1, <2>1, <2>4, <2>5, <2>6, <2>7, <2>8, Zenon
          DEF IInv, DropInv, InitInv, ScanInv, RollInv, UpInv
<1> QED BY <1>4, <1>5, <1>6, Zenon DEF Transaction, twice, HasTwice

\* The open transaction of a block, when the node is up.
LEMMA UpReady ==
    ASSUME IInv, at = "up", NEW twice \in BOOLEAN, past.twice => twice
    PROVE  LET x == [db |-> db, cur |-> cur, err |-> "none"]
           IN  /\ Ready(x, enabled, twice, past.failed) /\ x.db = db /\ x.cur = cur
               /\ \A i \in enabled : x.db.tip[i] = Tip(db.chain)
<1> DEFINE x == [db |-> db, cur |-> cur, err |-> "none"]
<1>1. /\ Types /\ DbOK(db, past.twice, past.failed)
      /\ past.twice \in BOOLEAN /\ past.failed \in BOOLEAN
      /\ enabled \in SUBSET Index /\ ("addr" \in enabled => "tx" \in enabled)
      /\ enabled \cap db.dropping = {} /\ \A j \in enabled : Exists(db, j)
  BY Running, Zenon
<1>2. /\ cur \in Id /\ (~past.failed /\ "tx" \in enabled => cur = Height[db.tip["tx"]])
      /\ \A i \in enabled : db.tip[i] = Tip(db.chain)
  BY Zenon DEF IInv, Types, UpInv
<1>3. DbOK(db, twice, past.failed)
  BY <1>1, Weaker
<1>4. Ready(x, enabled, twice, past.failed) /\ x.db = db /\ x.cur = cur
  BY <1>1, <1>2, <1>3, Opens
<1> QED BY <1>2, <1>4, Zenon

\* Manager.ConnectBlock in the transaction of a block that extends the main chain.
LEMMA ConnectBlockStep == ASSUME IInv, NEW b \in Block, ConnectBlock(b) PROVE IInv'
<1> DEFINE x == [db |-> db, cur |-> cur, err |-> "none"]
           chain == Append(db.chain, b)
           twice == past.twice \/ HasTwice(chain)
           z == ConnectAll(x, enabled, b)
<1>1. at = "up" /\ b \in Block \ {Genesis} /\ Parent[b] = Tip(db.chain) /\ Transaction(z, chain)
  BY Zenon DEF ConnectBlock, ConnectAll
<1>2. db.chain \in Seq(Block \ {Genesis}) /\ ChainOK(db.chain) /\ past.twice \in BOOLEAN
      /\ past.failed \in BOOLEAN /\ enabled \in SUBSET Index
  BY <1>1, Running, Zenon DEF DbOK, Database
<1>3. chain \in Seq(Block \ {Genesis}) /\ ChainOK(chain) /\ Tip(chain) = b
  BY <1>1, <1>2, ChainGrows
<1> HIDE DEF chain
<1>4. twice \in BOOLEAN
  BY Zenon DEF HasTwice
<1>5. ~twice => NoTwice(b)
  BY <1>3, OnceOnly, Zenon DEF HasTwice
<1>6. /\ Ready(x, enabled, twice, past.failed) /\ x.db = db
      /\ \A i \in enabled : x.db.tip[i] = Parent[b]
  <2>1. past.twice => twice
    OBVIOUS
  <2> HIDE DEF twice
  <2> QED BY <1>1, <1>4, <2>1, UpReady
<1> HIDE DEF x, twice
<1>7. Progress(x, z, enabled, enabled, b, twice, past.failed)
  BY <1>1, <1>2, <1>4, <1>5, <1>6, AllConnect
<1> HIDE DEF z
<1>8. /\ Ready(z, enabled, twice, past.failed) /\ SameRest(db, z.db) /\ z.err = "none"
      /\ \A i \in enabled : z.db.tip[i] = Tip(chain)
  BY <1>2, <1>3, <1>6, <1>7, Zenon DEF Progress, Ready
<1> QED BY <1>1, <1>3, <1>8, TransactionStep, Zenon DEF twice

\* Manager.DisconnectBlock in the transaction of a block that leaves the main chain.
LEMMA DisconnectBlockStep == IInv /\ DisconnectBlock => IInv'
<1> SUFFICES ASSUME IInv, DisconnectBlock PROVE IInv'
  OBVIOUS
<1> DEFINE x == [db |-> db, cur |-> cur, err |-> "none"]
           b == Tip(db.chain)
           chain == Front(db.chain)
           twice == past.twice \/ HasTwice(chain)
           z == DisconnectAll(x, enabled, b)
<1>1. at = "up" /\ db.chain # <<>> /\ Transaction(z, chain)
  BY Zenon DEF DisconnectBlock, DisconnectAll
<1>2. db.chain \in Seq(Block \ {Genesis}) /\ ChainOK(db.chain) /\ past.twice \in BOOLEAN
      /\ past.failed \in BOOLEAN /\ enabled \in SUBSET Index
  BY <1>1, Running, Zenon DEF DbOK, Database
<1>3. chain \in Seq(Block \ {Genesis}) /\ ChainOK(chain) /\ Tip(chain) = Parent[b]
  BY <1>1, <1>2, ChainShrinks, Zenon
<1>4. b \in Block \ {Genesis}
  BY <1>1, <1>2, ChainTip, Zenon
<1> HIDE DEF chain
<1>5. twice \in BOOLEAN
  BY Zenon DEF HasTwice
<1>6. /\ Ready(x, enabled, twice, past.failed) /\ x.db = db /\ x.cur = cur
      /\ \A i \in enabled : x.db.tip[i] = b
  <2>1. past.twice => twice
    OBVIOUS
  <2> HIDE DEF twice
  <2> QED BY <1>1, <1>5, <2>1, UpReady
<1> HIDE DEF x, b, twice
<1>7. \/ z.err # "none" /\ z.cur = x.cur
      \/ Progress(x, z, enabled, enabled, Parent[b], twice, past.failed)
  BY <1>2, <1>4, <1>5, <1>6, AllDisconnect
<1> HIDE DEF z
<1>8. z.err # "none" => z.cur = cur
  BY <1>6, <1>7, Zenon DEF Progress, Ready
<1>9. z.err = "none" => /\ Ready(z, enabled, twice, past.failed) /\ SameRest(db, z.db)
                        /\ \A i \in enabled : z.db.tip[i] = Tip(chain)
  BY <1>2, <1>3, <1>6, <1>7, Zenon DEF Progress
<1> QED BY <1>1, <1>3, <1>8, <1>9, TransactionStep, Zenon DEF twice

\* A stop or a crash, at any point.
LEMMA StopStep == IInv /\ Stop => IInv'
<1> SUFFICES ASSUME IInv, Stop PROVE IInv'
  OBVIOUS
<1>1. GoDown /\ UNCHANGED <<db, past>>
  BY Zenon DEF Stop
<1>2. past \in History /\ DbOK(db, past.twice, past.failed)
  BY Zenon DEF IInv, Types, History
<1> QED BY <1>1, <1>2, GoesDown, Zenon

(***************************************************************************)
(* The theorems.                                                           *)
(***************************************************************************)
\* Every step of Manager.Init keeps the invariant.
LEMMA InitStepHolds == IInv /\ InitStep => IInv'
  BY MarkStep, FlatDropStep, DropIdsStep, DropMetadataStep, CreateStep, RecreateStep, ScanStep,
     SearchStep, FetchTipStep, RollbackStep, CommitStep, CatchUpStep, Zenon DEF InitStep

\* The invariant holds of every behaviour of the indexes: starts with any set of
\* enabled indexes, drops, upgrades, crashes between any two transactions, blocks
\* connected and disconnected, and commits that fail.
THEOREM InvariantHolds == Spec => []IInv
<1>1. Init => IInv
  BY InitHolds, Zenon
<1>2. IInv /\ [Next]_vars => IInv'
  <2> SUFFICES ASSUME IInv, [Next]_vars PROVE IInv'
    OBVIOUS
  <2>1. ASSUME NEW c \in Configs, NEW newer \in BOOLEAN, Start(c, newer) PROVE IInv'
    BY <2>1, StartStep
  <2>2. ASSUME NEW i \in Index, StartDrop(i) PROVE IInv'
    BY <2>2, StartDropStep
  <2>3. ASSUME NEW b \in Block, ConnectBlock(b) PROVE IInv'
    BY <2>3, ConnectBlockStep
  <2>4. CASE UNCHANGED vars
    <3>1. UNCHANGED <<db, at, enabled, cur, drop, scan, roll, work, past>>
      BY <2>4, Zenon DEF vars
    <3>2. Types' /\ DbOK(db', past'.twice, past'.failed)
      BY <3>1, Zenon DEF IInv, Types
    <3>3. DropInv' /\ InitInv' /\ ScanInv'
      BY <3>1, Zenon DEF IInv, DropInv, InitInv, ScanInv
    <3>4. RollInv' /\ UpInv'
      BY <3>1, Zenon DEF IInv, RollInv, UpInv, MainChain
    <3> QED BY <3>2, <3>3, <3>4, Zenon DEF IInv
  <2> QED BY <2>1, <2>2, <2>3, <2>4, InitStepHolds, DisconnectBlockStep, StopStep, Zenon DEF Next
<1> QED BY <1>1, <1>2, PTL DEF Spec

\* While the node is up, every enabled index is at the tip of the main chain and none
\* is being dropped, whatever the process was doing when it last ended.
THEOREM IndexesFollowChainHolds == Spec => []IndexesFollowChain
<1>1. IInv => IndexesFollowChain
  <2> SUFFICES ASSUME IInv, at = "up", NEW i \in enabled
               PROVE  db.tip[i] = Tip(db.chain) /\ i \notin db.dropping
    BY Zenon DEF IndexesFollowChain
  <2>1. db.tip[i] = Tip(db.chain)
    BY Zenon DEF IInv, UpInv
  <2>2. enabled \cap db.dropping = {}
    BY Running, Zenon
  <2> QED BY <2>1, <2>2, Zenon
<1> QED BY <1>1, InvariantHolds, PTL

\* The tip of an index that is not being dropped says what the index holds, also of
\* one that is disabled, or that a crash left in the middle of Manager.Init.
THEOREM ContentsMatchTipHolds == Spec => []ContentsMatchTip
<1>1. IInv => ContentsMatchTip
  <2> SUFFICES ASSUME IInv PROVE ContentsMatchTip
    OBVIOUS
  <2>1. /\ TxOK(db, past.twice, past.failed) /\ AddrOK(db, past.failed) /\ CfOK(db)
        /\ db \in Database
    BY Zenon DEF IInv, DbOK
  <2>2. Whole(db, "cf") => db.cf = UpTo(db.tip["cf"])
    BY <2>1, Zenon DEF CfOK
  <2>3. Whole(db, "addr") => Len(db.addr) = Height[db.tip["addr"]]
    BY <2>1, Zenon DEF AddrOK
  <2>4. ASSUME Whole(db, "tx") PROVE {b \in Block : db.ids[b] # None} = UpTo(db.tip["tx"])
    BY <2>1, <2>4, Zenon DEF TxOK
  <2>5. ASSUME Whole(db, "tx"), ~past.twice
        PROVE  {t \in Tx : db.txs[t] # None} = UNION {Txs[b] : b \in UpTo(db.tip["tx"])}
    <3> DEFINE has == {t \in Tx : db.txs[t] # None}
               all == UNION {Txs[b] : b \in UpTo(db.tip["tx"])}
    <3>1. \A t \in Tx : db.txs[t] # None <=> \E b \in UpTo(db.tip["tx"]) : t \in Txs[b]
      BY <2>1, <2>5, Zenon DEF TxOK
    <3>2. \A b \in UpTo(db.tip["tx"]) : Txs[b] \subseteq Tx
      <4>1. db.tip["tx"] \in Block
        BY <2>1, <2>5, WholeTip, Zenon DEF Whole, Index
      <4>2. UpTo(db.tip["tx"]) \subseteq Block
        BY <4>1, Branch, Zenon
      <4> QED BY <4>2, TxAssumption, Zenon
    <3>3. ASSUME NEW t PROVE t \in all <=> \E b \in UpTo(db.tip["tx"]) : t \in Txs[b]
      BY Zenon
    <3>4. ASSUME NEW t PROVE t \in has <=> t \in Tx /\ db.txs[t] # None
      BY Zenon
    <3> HIDE DEF has, all
    <3>5. ASSUME NEW t PROVE t \in has <=> t \in all
      BY <3>1, <3>2, <3>3, <3>4, Zenon
    <3>6. has = all
      BY <3>5, Zenon
    <3> QED BY <3>6, Zenon DEF has, all
  <2> QED BY <2>2, <2>3, <2>4, <2>5, Zenon DEF ContentsMatchTip
<1> QED BY <1>1, InvariantHolds, PTL

\* Unless the commit of a block failed, the internal block ids lead from the entries
\* of the transaction index and of the address index to the blocks they were made for,
\* though ids are given out from a counter in memory, are found again by a search at
\* every start, and are reused after a reorganisation.
THEOREM IdsResolveHolds == Spec => []IdsResolve
<1>1. IInv => TxIndexResolves
  <2> SUFFICES ASSUME IInv, ~past.failed, Whole(db, "tx"), NEW t \in Tx, db.txs[t] # None
               PROVE  /\ db.hashes[db.txs[t]] \in UpTo(db.tip["tx"])
                      /\ t \in Txs[db.hashes[db.txs[t]]]
    BY Zenon DEF TxIndexResolves
  <2>1. IdsOK(db)
    BY Zenon DEF IInv, DbOK, TxOK
  <2>2. PICK b \in UpTo(db.tip["tx"]) : db.txs[t] = Height[b] /\ t \in Txs[b]
    BY <2>1, Zenon DEF IdsOK, IdsFit
  <2>3. db.hashes[Height[b]] = b
    BY <2>1, <2>2, Zenon DEF IdsOK, IdsFit
  <2> QED BY <2>2, <2>3, Zenon
<1>2. IInv => AddrIndexResolves
  <2> SUFFICES ASSUME IInv, ~past.failed, at = "up", "addr" \in enabled, NEW k \in DOMAIN db.addr
               PROVE  db.hashes[db.addr[k]] = db.chain[k]
    BY Zenon DEF AddrIndexResolves
  <2>1. /\ DbOK(db, past.twice, past.failed) /\ db \in Database
        /\ enabled \in SUBSET Index /\ ("addr" \in enabled => "tx" \in enabled)
        /\ enabled \cap db.dropping = {} /\ \A j \in enabled : Exists(db, j)
    BY Running, Zenon
  <2>2. Whole(db, "addr") /\ Whole(db, "tx")
    BY <2>1, Zenon DEF Whole
  <2>3. db.tip["addr"] = Tip(db.chain) /\ db.tip["tx"] = Tip(db.chain)
    BY <2>1, Zenon DEF IInv, UpInv
  <2>4. /\ Len(db.addr) = Height[Tip(db.chain)]
        /\ \A n \in 1..Len(db.addr) : db.addr[n] = n
    BY <2>1, <2>2, <2>3, Zenon DEF DbOK, AddrOK
  <2>5. IdsOK(db)
    BY <2>1, <2>2, Zenon DEF DbOK, TxOK
  <2>6. db.chain \in Seq(Block \ {Genesis}) /\ ChainOK(db.chain) /\ db.addr \in Seq(Id)
    BY <2>1, Zenon DEF DbOK, Database
  <2>7. k \in 1..Len(db.addr)
    BY <2>6
  <2>8. Height[Tip(db.chain)] = Len(db.chain)
    BY <2>6, ChainTip, Zenon
  <2>9. k \in 1..Len(db.chain)
    BY <2>4, <2>7, <2>8, Zenon
  <2>10. db.chain[k] \in UpTo(db.tip["tx"]) /\ Height[db.chain[k]] = k
    BY <2>3, <2>6, <2>9, ChainTip, Zenon DEF ChainOK
  <2>11. db.hashes[k] = db.chain[k]
    BY <2>5, <2>10, Zenon DEF IdsOK, IdsFit
  <2> QED BY <2>4, <2>7, <2>11, Zenon
<1>3. IInv => IdsResolve
  BY <1>1, <1>2, Zenon DEF IdsResolve
<1> QED BY <1>3, InvariantHolds, PTL

=============================================================================
