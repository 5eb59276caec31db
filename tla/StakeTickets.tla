---------------------------- MODULE StakeTickets ----------------------------
(***************************************************************************)
(* The ticket database (blockchain/stake) and the stake nodes that the     *)
(* chain keeps in memory (blockchain/stakenode.go).  A stake node holds    *)
(* the live, missed and revoked tickets as of a block, the tickets drawn   *)
(* to vote on it, and the undo data that leads back to its parent.  Stake  *)
(* nodes are pruned and made again when they are asked for: forwards, by   *)
(* connecting a block, or backwards from the tip, by undo data that is     *)
(* read from the database by height.  The database has the tickets of the  *)
(* tip only, and changes with every block that is connected or             *)
(* disconnected.                                                           *)
(*                                                                         *)
(* The block index is given: all blocks are known and their votes and      *)
(* revocations are the ones the consensus rules allow.                     *)
(***************************************************************************)
EXTENDS Naturals, Sequences, FiniteSets, SequencesExt, FiniteSetsExt, Functions, TLC

CONSTANTS
    Block, Genesis, Parent,
    Purchases,             \* Block -> Seq(Ticket): the tickets bought in a block
    TicketsVoted,          \* Block -> Seq(Ticket)
    TicketsRevoked,        \* Block -> Seq(Ticket)
    LotteryIV,             \* Block -> Nat: seeds the generator of random numbers
    TicketsPerBlock, TicketMaturity, TicketExpiry,
    StakeEnabledHeight, StakeValidationHeight,
    LatestCheckpointHeight,
    MinMemoryNodes, MinMemoryStakeNodes,
    None,
    MaxFailures            \* bound: transactions that fail to commit

VARIABLES
    db,         \* what the database holds
    tip,        \* the end of the best chain in memory; None while the process is down
    nodes,      \* the stake nodes that are loaded: a function on a set of blocks
    err,        \* the last error, "none" if there was none
    failures    \* history: the number of commits that failed

vars == <<db, tip, nodes, err, failures>>

\* The blocks from the one after the genesis block to a block.
PathTo[b \in Block] == IF b = Genesis THEN <<>> ELSE Append(PathTo[Parent[b]], b)
Branch == [b \in Block |-> PathTo[b]]
Height(b) == Len(Branch[b])
Without(f, keys) == Restrict(f, DOMAIN f \ keys)
Failed(x, reason) == [x EXCEPT !.err = reason]

(***************************************************************************)
(* Stake nodes.  The treaps are functions from tickets to [height, flags]. *)
(***************************************************************************)

GenesisNode ==
    [height |-> 0, live |-> <<>>, missed |-> <<>>, revoked |-> <<>>, undo |-> <<>>,
     new |-> <<>>, winners |-> <<>>, finalState |-> <<>>, err |-> "none"]

SafePut(n, treap, t, v) ==
    IF n.err # "none" THEN n
    ELSE IF t \in DOMAIN n[treap] THEN Failed(n, "duplicate ticket")
    ELSE [n EXCEPT ![treap] = (t :> v) @@ @]

SafeDelete(n, treap, t) ==
    IF n.err # "none" THEN n
    ELSE IF t \notin DOMAIN n[treap] THEN Failed(n, "missing ticket")
    ELSE [n EXCEPT ![treap] = Without(@, {t})]

Move(n, from, to, t, v) == SafePut(SafeDelete(n, from, t), to, t, v)
Flagged(v, flags) == [v EXCEPT !.flags = @ \cup flags]
Unflagged(v, flags) == [v EXCEPT !.flags = @ \ flags]
Undo(n, t, v) == [n EXCEPT !.undo = Append(@, [ticket |-> t, v |-> v])]

\* connectNode, a winner: it voted or it is missed.
Win(n, t, voted) ==
    IF n.err # "none" THEN n
    ELSE IF t \notin DOMAIN n.live THEN Failed(n, "missing ticket")
    ELSE LET v == n.live[t]
             missed == Flagged(Unflagged(v, {"spent"}), {"missed"})
         IN  IF t \in voted THEN Undo(SafeDelete(n, "live", t), t, Flagged(v, {"spent"}))
             ELSE Undo(Move(n, "live", "missed", t, missed), t, missed)

\* connectNode, a ticket that expires.
Expire(n, t) ==
    LET v == Flagged(n.live[t], {"missed", "expired"})
    IN  Undo(Move(n, "live", "missed", t, v), t, v)

\* Mutant: a revoked ticket stays among the missed.
MutRevoke(n, t) ==
    LET v == Flagged(n.missed[t], {"revoked"})
    IN  Undo(SafePut(n, "revoked", t, v), t, v)

\* connectNode, a revocation.
Revoke(n, t) ==
    IF n.err # "none" THEN n
    ELSE IF t \notin DOMAIN n.missed THEN Failed(n, "missing ticket")
    ELSE LET v == Flagged(n.missed[t], {"revoked"})
         IN  Undo(Move(n, "missed", "revoked", t, v), t, v)

\* connectNode, a ticket that becomes live.
Mature(n, t) ==
    LET v == [height |-> n.height, flags |-> {}]
    IN  Undo(SafePut(n, "live", t, v), t, v)

\* The keys of a treap in their order.
Keys(treap) == SetToSortSeq(DOMAIN treap, <)

\* The live tickets that ForEachByHeight visits, in the order of the treap.
Expiring(n) ==
    LET toExpireHeight == IF n.height > TicketExpiry THEN n.height - TicketExpiry ELSE 0
    IN  SelectSeq(Keys(n.live), LAMBDA t : n.live[t].height < toExpireHeight + 1)

\* findTicketIdxs: distinct indexes that depend on the seed and on the size.
FindTicketIdxs(size, iv) == [k \in 1..TicketsPerBlock |-> (iv + k - 1) % size]

\* The winners and the checksum.
Draw(n, iv) ==
    LET size == Cardinality(DOMAIN n.live)
        idxs == FindTicketIdxs(size, iv)
        winners == [k \in DOMAIN idxs |-> Keys(n.live)[idxs[k] + 1]]
    IN  IF n.err # "none" \/ n.height + 1 < StakeValidationHeight THEN n
        ELSE IF size < TicketsPerBlock THEN Failed(n, "list size too small")
        ELSE [n EXCEPT !.winners = winners, !.finalState = <<winners, size, iv>>]

\* maybeFetchNewTickets: what was bought TicketMaturity blocks before.
NewTickets(b) ==
    IF Height(b) < StakeEnabledHeight THEN <<>>
    ELSE Purchases[Branch[b][Height(b) - TicketMaturity]]

\* connectNode, up to the lottery.
Settled(parent, b) ==
    LET start == [parent EXCEPT !.height = @ + 1, !.undo = <<>>, !.new = NewTickets(b),
                                !.winners = <<>>, !.finalState = <<>>]
        voted == ToSet(TicketsVoted[b])
        won == FoldLeft(LAMBDA n, t : Win(n, t, voted), start, parent.winners)
        expired == FoldLeft(Expire, won, Expiring(won))
        revoked == FoldLeft(Revoke, expired, TicketsRevoked[b])
    IN  IF start.height < StakeEnabledHeight THEN start
        ELSE IF ~(voted \subseteq ToSet(parent.winners)) THEN Failed(start, "unknown ticket")
        ELSE revoked

\* connectNode.
ConnectNode(parent, b) ==
    Draw(FoldLeft(Mature, Settled(parent, b), NewTickets(b)), LotteryIV[b])

\* Mutant: a ticket comes back with its expired flag.
MutRestore(n, u) ==
    LET t == u.ticket
        back == Unflagged(u.v, {"missed", "spent"})
        winner(x) == [x EXCEPT !.winners = Append(@, t)]
    IN  CASE u.v.flags \cap {"missed", "revoked", "spent"} = {} -> SafeDelete(n, "live", t)
          [] {"missed", "revoked"} \subseteq u.v.flags ->
                Move(n, "revoked", "missed", t, Unflagged(u.v, {"revoked"}))
          [] "missed" \in u.v.flags -> winner(Move(n, "missed", "live", t, back))
          [] "spent" \in u.v.flags -> winner(SafePut(n, "live", t, back))

\* disconnectNode, one entry of the undo data.
Restore(n, u) ==
    LET t == u.ticket
        back == Unflagged(u.v, {"missed", "expired", "spent"})
        winner(x) == [x EXCEPT !.winners = Append(@, t)]
    IN  CASE u.v.flags \cap {"missed", "revoked", "spent"} = {} -> SafeDelete(n, "live", t)
          [] {"missed", "revoked"} \subseteq u.v.flags ->
                Move(n, "revoked", "missed", t, Unflagged(u.v, {"revoked"}))
          [] "missed" \in u.v.flags /\ "expired" \notin u.v.flags ->
                winner(Move(n, "missed", "live", t, back))
          [] "missed" \in u.v.flags -> Move(n, "missed", "live", t, back)
          [] "spent" \in u.v.flags -> winner(SafePut(n, "live", t, back))
          [] OTHER -> Failed(n, "memory corruption")

\* disconnectNode: the stake node of the parent, with the undo data and the new
\* tickets that the database has for the height of the parent.
DisconnectNode(n, parentIV) ==
    LET h == n.height - 1
        start == [n EXCEPT !.height = h, !.undo = db.undo[h], !.new = db.new[h],
                           !.winners = <<>>, !.finalState = <<>>]
        x == FoldLeft(Restore, start, n.undo)
        size == Cardinality(DOMAIN x.live)
    IN  IF n.height = 1 THEN GenesisNode
        ELSE IF h \notin DOMAIN db.undo THEN Failed(n, "missing key")
        ELSE IF x.err # "none" \/ n.height < StakeValidationHeight THEN x
        ELSE IF size < TicketsPerBlock THEN Failed(x, "list size too small")
        ELSE [x EXCEPT !.finalState = <<x.winners, size, parentIV>>]

(***************************************************************************)
(* fetchStakeNode.  x is [nodes, err].  A nil pointer is used, and the     *)
(* process panics, when the stake node to go back from is not loaded or    *)
(* the parent of the genesis block is asked for its own.                   *)
(***************************************************************************)

Panics == {"no stake node", "no parent"}

\* A new stake node is kept unless there was an error.
Load(x, b, n) ==
    IF n.err # "none" THEN Failed(x, n.err) ELSE [x EXCEPT !.nodes = (b :> n) @@ @]

Attach(x, b) ==
    IF x.err # "none" \/ b \in DOMAIN x.nodes THEN x
    ELSE IF Parent[b] \notin DOMAIN x.nodes THEN Failed(x, "no stake node")
    ELSE Load(x, b, ConnectNode(x.nodes[Parent[b]], b))

Detach(x, b) ==
    IF x.err # "none" \/ Parent[b] \in DOMAIN x.nodes THEN x
    ELSE IF b \notin DOMAIN x.nodes THEN Failed(x, "no stake node")
    ELSE Load(x, Parent[b], DisconnectNode(x.nodes[b], LotteryIV[Parent[b]]))

FetchStakeNode(x, b) ==
    LET undone == SelectSeq(Reverse(Branch[tip]), LAMBDA n : n \notin ToSet(Branch[b]))
        replayed == SelectSeq(Branch[b], LAMBDA n : n \notin ToSet(Branch[tip]))
    IN  IF x.err # "none" \/ b \in DOMAIN x.nodes THEN x
        ELSE IF b = Genesis THEN Failed(x, "no parent")
        ELSE IF Parent[b] \in DOMAIN x.nodes THEN Attach(x, b)
        ELSE FoldLeft(Attach, FoldLeft(Detach, x, undone), replayed)

(***************************************************************************)
(* The database.                                                           *)
(***************************************************************************)

\* The undo data, the new tickets and the best state, which both writes end with.
PutNode(d, n, b) ==
    [d EXCEPT !.undo = (n.height :> n.undo) @@ @, !.new = (n.height :> n.new) @@ @,
              !.hash = b, !.height = n.height, !.winners = n.winners,
              !.counts = [bucket \in {"live", "missed", "revoked"} |->
                             Cardinality(DOMAIN n[bucket])]]

DbPutTicket(d, bucket, t, v) ==
    IF d.err # "none" THEN d ELSE [d EXCEPT ![bucket] = (t :> v) @@ @]

DbDeleteTicket(d, bucket, t) ==
    IF d.err # "none" THEN d
    ELSE IF t \notin DOMAIN d[bucket] THEN Failed(d, "missing key")
    ELSE [d EXCEPT ![bucket] = Without(@, {t})]

\* WriteConnectedBestNode, one entry of the undo data.
WriteConnected(d, u) ==
    LET t == u.ticket IN
    CASE u.v.flags \cap {"missed", "revoked", "spent"} = {} -> DbPutTicket(d, "live", t, u.v)
      [] {"missed", "revoked"} \subseteq u.v.flags ->
            DbPutTicket(DbDeleteTicket(d, "missed", t), "revoked", t, u.v)
      [] "missed" \in u.v.flags -> DbPutTicket(DbDeleteTicket(d, "live", t), "missed", t, u.v)
      [] "spent" \in u.v.flags -> DbDeleteTicket(d, "live", t)
      [] OTHER -> Failed(d, "memory corruption")

WriteConnectedBestNode(d, n, b) == PutNode(FoldLeft(WriteConnected, d, n.undo), n, b)

\* Mutant: a ticket comes back live with its expired flag.
MutWriteDisconnected(d, u) ==
    LET t == u.ticket IN
    CASE u.v.flags \cap {"missed", "revoked", "spent"} = {} -> DbDeleteTicket(d, "live", t)
      [] {"missed", "revoked"} \subseteq u.v.flags ->
            DbPutTicket(DbDeleteTicket(d, "revoked", t), "missed", t, Unflagged(u.v, {"revoked"}))
      [] "missed" \in u.v.flags ->
            DbPutTicket(DbDeleteTicket(d, "missed", t), "live", t, Unflagged(u.v, {"missed"}))
      [] "spent" \in u.v.flags -> DbPutTicket(d, "live", t, Unflagged(u.v, {"spent"}))

\* WriteDisconnectedBestNode, one entry of the undo data of the child.
WriteDisconnected(d, u) ==
    LET t == u.ticket IN
    CASE u.v.flags \cap {"missed", "revoked", "spent"} = {} -> DbDeleteTicket(d, "live", t)
      [] {"missed", "revoked"} \subseteq u.v.flags ->
            DbPutTicket(DbDeleteTicket(d, "revoked", t), "missed", t, Unflagged(u.v, {"revoked"}))
      [] "missed" \in u.v.flags ->
            DbPutTicket(DbDeleteTicket(d, "missed", t), "live", t,
                        Unflagged(u.v, {"missed", "expired"}))
      [] "spent" \in u.v.flags -> DbPutTicket(d, "live", t, Unflagged(u.v, {"spent"}))
      [] OTHER -> Failed(d, "memory corruption")

WriteDisconnectedBestNode(d, n, b, childUndo) ==
    LET above == (n.height + 1)..d.height
        dropped == [d EXCEPT !.undo = Without(@, above), !.new = Without(@, above)]
    IN  PutNode(FoldLeft(WriteDisconnected, dropped, childUndo), n, b)

\* LoadBestNode; best is the tip in the best state of the chain.
LoadBestNode(d, best) ==
    LET n == [height |-> d.height, live |-> d.live, missed |-> d.missed, revoked |-> d.revoked,
              undo |-> d.undo[d.height], new |-> d.new[d.height], winners |-> <<>>,
              finalState |-> <<>>, err |-> "none"]
        size == Cardinality(DOMAIN d.live)
    IN  IF d.hash # best \/ d.height # Height(best) THEN Failed(GenesisNode, "corrupt")
        ELSE IF \E bucket \in {"live", "missed", "revoked"} :
                   Cardinality(DOMAIN d[bucket]) # d.counts[bucket]
        THEN Failed(GenesisNode, "corrupt")
        ELSE IF d.height \notin DOMAIN d.undo THEN Failed(GenesisNode, "missing key")
        ELSE IF d.height + 1 < StakeValidationHeight THEN n
        ELSE IF size < TicketsPerBlock THEN Failed(n, "list size too small")
        ELSE [n EXCEPT !.winners = d.winners,
                       !.finalState = <<d.winners, size, LotteryIV[best]>>]

(***************************************************************************)
(* The chain.                                                              *)
(***************************************************************************)

\* createChainState and InitDatabaseState, and the start that follows: the stake
\* node of the genesis block is loaded from the database.
Init ==
    /\ db = PutNode([live |-> <<>>, missed |-> <<>>, revoked |-> <<>>, undo |-> <<>>, new |-> <<>>,
                     hash |-> Genesis, height |-> 0, winners |-> <<>>, counts |-> <<>>,
                     best |-> Genesis, err |-> "none"], GenesisNode, Genesis)
    /\ tip = Genesis
    /\ nodes = (Genesis :> GenesisNode)
    /\ err = "none"
    /\ failures = 0

Loaded == [nodes |-> nodes, err |-> "none"]

\* An error is returned to the caller, a panic ends the process.  Stake nodes that
\* were loaded before the error are kept.
Return(x) ==
    /\ err' = x.err
    /\ nodes' = IF x.err \in Panics THEN <<>> ELSE x.nodes
    /\ tip' = IF x.err \in Panics THEN None ELSE tip
    /\ UNCHANGED <<db, failures>>

\* The stake node of a block is needed: a block on top of it is checked, or
\* LotteryDataForBlock asks for it.
Fetch(b) == tip # None /\ Return(FetchStakeNode(Loaded, b))

\* The transaction of a block: it commits and the tip changes, or it fails, and
\* the stake nodes that were loaded for it are kept.
Commit(x, d, b, kept) ==
    IF d.err # "none" THEN Return(Failed(x, d.err))
    ELSE \/ /\ db' = [d EXCEPT !.best = b]
            /\ tip' = b
            /\ nodes' = Restrict(x.nodes, kept)
            /\ UNCHANGED <<err, failures>>
         \/ /\ failures < MaxFailures
            /\ failures' = failures + 1
            /\ nodes' = x.nodes
            /\ UNCHANGED <<db, tip, err>>

\* connectBlock.  Below the last checkpoint the stake node of the parent is dropped.
ConnectBlock(b) ==
    /\ tip # None /\ b # Genesis /\ Parent[b] = tip
    /\ LET x == FetchStakeNode(Loaded, b)
           d == WriteConnectedBestNode(db, x.nodes[b], b)
           dropped == IF Height(b) < LatestCheckpointHeight THEN {tip} ELSE {}
       IN  IF x.err # "none" THEN Return(x) ELSE Commit(x, d, b, DOMAIN x.nodes \ dropped)

\* disconnectBlock.
DisconnectBlock ==
    /\ tip \notin {None, Genesis}
    /\ LET parent == Parent[tip]
           x == FetchStakeNode(FetchStakeNode(Loaded, tip), parent)
           d == WriteDisconnectedBestNode(db, x.nodes[parent], parent, x.nodes[tip].undo)
       IN  IF x.err # "none" THEN Return(x) ELSE Commit(x, d, parent, DOMAIN x.nodes)

\* Mutant: the newest stake nodes are pruned too.
MutPruneStakeNodes ==
    /\ tip # None
    /\ LET old == {b \in {Genesis} \cup ToSet(Branch[tip]) :
                      Height(b) + MinMemoryNodes > Height(tip)}
       IN  nodes' = Without(nodes, old)
    /\ UNCHANGED <<db, tip, err, failures>>

\* pruneStakeNodes.
PruneStakeNodes ==
    /\ tip # None
    /\ LET old == {b \in {Genesis} \cup ToSet(Branch[tip]) :
                      /\ Height(b) + MinMemoryStakeNodes <= Height(tip)
                      /\ Height(b) + MinMemoryNodes > Height(tip)}
       IN  nodes' = Without(nodes, old)
    /\ UNCHANGED <<db, tip, err, failures>>

\* A crash or a stop, and the next start.
Restart ==
    /\ LET n == LoadBestNode(db, db.best)
       IN  /\ tip' = IF n.err = "none" THEN db.best ELSE None
           /\ nodes' = IF n.err = "none" THEN (db.best :> n) ELSE <<>>
           /\ err' = n.err
    /\ UNCHANGED <<db, failures>>

Next ==
    \/ \E b \in Block : Fetch(b) \/ ConnectBlock(b)
    \/ DisconnectBlock
    \/ PruneStakeNodes
    \/ Restart

Spec == Init /\ [][Next]_vars

(***************************************************************************)
(* Properties.                                                             *)
(***************************************************************************)

\* What the stake node of a block should be: the blocks are connected one after
\* the other from the genesis block.
Replayed[b \in Block] == IF b = Genesis THEN GenesisNode ELSE ConnectNode(Replayed[Parent[b]], b)
Replay == [b \in Block |-> Replayed[b]]

\* checkAllowedVotes and checkAllowedRevocations.
CheckAllowed(b) ==
    /\ ToSet(TicketsVoted[b]) \subseteq ToSet(Replay[Parent[b]].winners)
    /\ ToSet(TicketsRevoked[b]) \subseteq DOMAIN Replay[Parent[b]].missed

\* The blocks are valid.
ASSUME BlocksValid == \A b \in Block \ {Genesis} : CheckAllowed(b) /\ Replay[b].err = "none"

\* Types of the ticket database and the stake nodes; undo data and new tickets are
\* kept for the same heights, none of them above the best block.
TypeOK ==
    /\ tip \in Block \cup {None}
    /\ DOMAIN nodes \subseteq Block
    /\ db.best \in Block /\ db.hash \in Block /\ db.err = "none"
    /\ DOMAIN db.undo \subseteq 0..db.height /\ DOMAIN db.new = DOMAIN db.undo
    /\ failures \in 0..MaxFailures

\* Every stake node in memory is what replaying the chain from the genesis block
\* gives, however it was made: undo data read back after a restart, nodes pruned
\* and restored, side chains replayed from the fork, blocks whose commit failed.
StakeNodesCorrect == \A b \in DOMAIN nodes : nodes[b] = Replay[b]

\* fetchStakeNode relies on it: the tip always has its stake node loaded.
TipLoaded == tip # None => tip = db.best /\ tip \in DOMAIN nodes

\* The stake nodes in memory are right, and the one that every fetch backwards
\* starts from is there.
StakeNodesSound == StakeNodesCorrect /\ TipLoaded

\* The database holds the tickets of the tip and the undo data of every block of
\* the main chain, and nothing of a block that was disconnected.
DatabaseMatchesChain ==
    LET main == {Genesis} \cup ToSet(Branch[db.best])
        best == Replay[db.best]
    IN  /\ db.live = best.live /\ db.missed = best.missed /\ db.revoked = best.revoked
        /\ DOMAIN db.undo = 0..Height(db.best)
        /\ \A b \in main : db.undo[Height(b)] = Replay[b].undo /\ db.new[Height(b)] = Replay[b].new

\* On valid blocks no call fails and none panics, and a start never finds the database
\* corrupt: fetchStakeNode finds the undo data and the stake nodes it goes back from.  The
\* one exception is the genesis block, asked for once its stake node has been dropped.
NoErrors == err \in {"none", "no parent"}

Bought(b) ==
    {t \in UNION {ToSet(Purchases[c]) : c \in Block} :
        \E c \in ToSet(Branch[b]) : t \in ToSet(NewTickets(c))}
VotedUpTo(b) == UNION {ToSet(TicketsVoted[c]) : c \in ToSet(Branch[b])}

\* No ticket is lost or counted twice: a ticket that has matured is live, missed,
\* revoked or has voted, and only one of these.  Winners are live, and nothing
\* stays live for longer than TicketExpiry.
TicketsConserved ==
    \A b \in DOMAIN nodes :
       LET live == DOMAIN nodes[b].live
           missed == DOMAIN nodes[b].missed
           revoked == DOMAIN nodes[b].revoked
           gone == VotedUpTo(b)
       IN  /\ live \cup missed \cup revoked \cup gone = Bought(b)
           /\ live \cap missed = {} /\ live \cap revoked = {} /\ missed \cap revoked = {}
           /\ (live \cup missed \cup revoked) \cap gone = {}
           /\ ToSet(nodes[b].winners) \subseteq live
           /\ \A t \in live : nodes[b].height < nodes[b].live[t].height + TicketExpiry

\* fetchStakeNode "returns the stake node associated with the requested node while
\* handling the logic to create the stake node if needed".
FetchReturns == err \notin Panics

=============================================================================
