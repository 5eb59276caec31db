------------------------------ MODULE Mempool ------------------------------
(***************************************************************************)
(* The transaction memory pool (mempool/mempool.go) and the block          *)
(* manager's handlers that keep it in step with the chain                  *)
(* (blockmanager.go).  Every call that changes the pool is made by the     *)
(* blockHandler goroutine: a transaction message is one step; a block or a *)
(* forced reorganisation is a step that decides which blocks are           *)
(* disconnected and connected, and then one step for the notification of   *)
(* each, in between which the pool can be read.                            *)
(*                                                                         *)
(* A transaction is a name with inputs, outputs and a type; an outpoint is *)
(* a pair of a transaction and an index.  The first input of every vote is *)
(* the same: the outpoint Stakebase.  The constants Unfit and BadInputs    *)
(* say what the checks of a transaction alone (sanity, standardness) and   *)
(* of its inputs (sequence locks, amounts, fees, scripts) find, and the    *)
(* rate limiter for free transactions may be at its limit at any time.     *)
(* The chain starts at a block Base with no regular transactions in its    *)
(* parent; outputs are mature.  A block stands for any block of the same   *)
(* content, its height for its work, and the database does not fail.       *)
(***************************************************************************)
EXTENDS Naturals, Sequences, FiniteSets, SequencesExt, FiniteSetsExt, Functions, TLC

CONSTANTS
    Tx,              \* the transactions that may be submitted or mined
    Type,            \* Tx -> {"regular", "ticket", "vote", "revocation"}
    Inputs,          \* Tx -> Seq(Outpoint)
    Outputs,         \* Tx -> Nat
    Expiry,          \* Tx -> Nat, 0 for none
    Price,           \* Tx -> Nat, of a ticket
    VoteOn,          \* vote -> [block, approves]
    Unfit,           \* SUBSET Tx: rejected by a check of the transaction alone
    BadInputs,       \* SUBSET Tx: rejected by a check against its inputs
    Free,            \* SUBSET Tx: regular transactions without a fee
    Large,           \* SUBSET Tx: larger than MaxOrphanTxSize
    Block, Base,
    Bad,             \* SUBSET Block: the blocks that checkConnectBlock rejects
    Parent, Height,
    Regular, Stake,  \* Block -> Seq(Tx), without the coinbase
    ApprovesParent,  \* Block -> BOOLEAN
    StakeDiff,       \* Block -> Nat, NextStakeDiff of the best state at the block
    InitialUtxos,    \* the outpoints that are unspent at the block Base
    Stakebase,
    Orders,          \* SUBSET Seq(Tx): the orders in which maps are iterated
    TicketsPerBlock, StakeValidationHeight,
    MaxOrphanTxs, MaxVoteDoubleSpends,
    VoteAge,         \* maximumVoteAgeDelta
    PruneTicket,     \* heightDiffToPruneTicket
    PruneVotes       \* heightDiffToPruneVotes

VARIABLES
    chain,    \* Seq(Block): the main chain after the block Base
    utxos,    \* the utxo set of the main chain
    mp,       \* the fields of TxPool
    todo,     \* Seq({"disconnect", "connect", "prune"} \X Block): what is left to do for
              \* the message blockHandler is handling
    past,     \* history: what has happened that the pool does not undo (Past)
    pruned    \* history: the pool was pruned when the chain last changed

vars == <<chain, utxos, mp, todo, past, pruned>>

Past == {"disapproval", "against votes", "mined again"}

Ins(t) == ToSet(Inputs[t])
Outs(t) == {<<t, i>> : i \in 1..Outputs[t]}
Outpoint == InitialUtxos \cup UNION {Outs(t) : t \in Tx} \cup {Stakebase}
                         \cup UNION {Ins(t) : t \in Tx}

ASSUME MempoolAssumption ==
    /\ Base \in Block \ Bad
    /\ Type \in [Tx -> {"regular", "ticket", "vote", "revocation"}]
    /\ Parent \in [Block \ {Base} -> Block]
    /\ \A b \in Block \ {Base} : Height[b] = Height[Parent[b]] + 1
    /\ \A b \in Block : /\ \A i \in DOMAIN Regular[b] : Type[Regular[b][i]] = "regular"
                        /\ \A i \in DOMAIN Stake[b] : Type[Stake[b][i]] # "regular"
    /\ \A t \in Tx : Type[t] = "vote" => Inputs[t][1] = Stakebase
    /\ \A o \in Orders : ToSet(o) = Tx

Tip(c) == IF c = <<>> THEN Base ELSE Last(c)
BestHeight(s) == Height[Tip(s.chain)]

Init ==
    /\ chain = <<>>
    /\ utxos = InitialUtxos
    /\ mp = [pool |-> <<>>, orphans |-> {}, orphansByPrev |-> <<>>, outpoints |-> <<>>,
             votes |-> <<>>]
    /\ todo = <<>>
    /\ past = {}
    /\ pruned = TRUE

(***************************************************************************)
(* Maps.                                                                   *)
(***************************************************************************)

Without(f, keys) == Restrict(f, DOMAIN f \ keys)
Get(f, k, default) == IF k \in DOMAIN f THEN f[k] ELSE default

\* The members of a set in the order in which this call iterates maps.
InOrder(order, S) == SelectSeq(order, LAMBDA t : t \in S)

(***************************************************************************)
(* The utxo set of the chain.                                              *)
(***************************************************************************)

ConnectTx(u, t) == (u \ Ins(t)) \cup Outs(t)
DisconnectTx(u, t) == (u \ Outs(t)) \cup (Ins(t) \ {Stakebase})

ConnectTxns(u, ts) == FoldLeft(ConnectTx, u, ts)
DisconnectTxns(u, ts) == FoldRight(LAMBDA t, v : DisconnectTx(v, t), ts, u)

ConnectUtxos(u, b) ==
    LET v == IF ApprovesParent[b] THEN u ELSE DisconnectTxns(u, Regular[Parent[b]])
    IN  ConnectTxns(ConnectTxns(v, Stake[b]), Regular[b])

DisconnectUtxos(u, b) ==
    LET v == DisconnectTxns(DisconnectTxns(u, Regular[b]), Stake[b])
    IN  IF ApprovesParent[b] THEN v ELSE ConnectTxns(v, Regular[Parent[b]])

\* FetchUtxoView.  The flag asks to leave out the regular tree of "the block
\* just prior"; the code disconnects that of the parent of the tip.
FetchUtxoView(s, includePrevRegularTxns) ==
    IF includePrevRegularTxns \/ s.chain = <<>> THEN s.utxos
    ELSE DisconnectTxns(s.utxos, Regular[Parent[Tip(s.chain)]])

(***************************************************************************)
(* Removing transactions and orphans.                                      *)
(***************************************************************************)

RECURSIVE RemoveOrphan(_, _, _)
\* removeOrphan.
RemoveOrphan(m, t, removeRedeemers) ==
    LET unlinked == [o \in DOMAIN m.orphansByPrev |->
                        IF o \in Ins(t) THEN m.orphansByPrev[o] \ {t} ELSE m.orphansByPrev[o]]
        m1 == [m EXCEPT !.orphansByPrev =
                  Restrict(unlinked, {o \in DOMAIN unlinked : unlinked[o] # {}})]
        redeemers == UNION {Get(m1.orphansByPrev, o, {}) : o \in Outs(t)}
        m2 == IF removeRedeemers
              THEN FoldSet(LAMBDA r, x : RemoveOrphan(x, r, TRUE), m1, redeemers) ELSE m1
    IN  IF t \notin m.orphans THEN m ELSE [m2 EXCEPT !.orphans = @ \ {t}]

\* removeOrphanDoubleSpends.
RemoveOrphanDoubleSpends(m, t) ==
    FoldSet(LAMBDA r, x : RemoveOrphan(x, r, TRUE), m,
            UNION {Get(m.orphansByPrev, o, {}) : o \in Ins(t)})

RECURSIVE RemoveTransaction(_, _, _)
\* removeTransaction.
RemoveTransaction(m, t, removeRedeemers) ==
    LET redeem(x, o) == IF o \in DOMAIN x.outpoints
                        THEN RemoveTransaction(x, x.outpoints[o], TRUE) ELSE x
        m1 == IF removeRedeemers
              THEN FoldLeft(redeem, m, [i \in 1..Outputs[t] |-> <<t, i>>]) ELSE m
    IN  IF t \notin DOMAIN m1.pool THEN m1
        ELSE [m1 EXCEPT !.outpoints = Without(@, Ins(t)), !.pool = Without(@, {t})]


\* RemoveDoubleSpends.
RemoveDoubleSpends(m, t) ==
    LET redeem(x, o) == IF o \in DOMAIN x.outpoints /\ x.outpoints[o] # t
                        THEN RemoveTransaction(x, x.outpoints[o], TRUE) ELSE x
    IN  FoldLeft(redeem, m, Inputs[t])

(***************************************************************************)
(* Accepting transactions.                                                 *)
(***************************************************************************)

\* insertVote.
InsertVote(votes, t) ==
    LET b == VoteOn[t].block  ticket == Inputs[t][2]
        vts == Get(votes, b, <<>>)
    IN  IF \E i \in DOMAIN vts : vts[i].ticket = ticket THEN votes
        ELSE (b :> Append(vts, [vote |-> t, ticket |-> ticket,
                                approves |-> VoteOn[t].approves])) @@ votes

\* addTransaction, and the separate track of votes.
AddTransaction(m, t, height) ==
    [m EXCEPT !.pool = (t :> height) @@ @,
              !.outpoints = [o \in Ins(t) |-> t] @@ @,
              !.votes = IF Type[t] = "vote" THEN InsertVote(@, t) ELSE @]

\* IsRegTxTreeKnownDisapproved.
IsRegTxTreeKnownDisapproved(m, b) ==
    LET vts == Get(m.votes, b, <<>>)
        tally(a) == Cardinality({i \in DOMAIN vts : vts[i].approves = a})
    IN  Len(vts) > TicketsPerBlock \div 2 /\ tally(TRUE) <= tally(FALSE)

\* fetchInputUtxos: the view of the chain, and all outputs of the transactions
\* of the pool of which the view has none.
FetchInputUtxos(s, t) ==
    LET view == FetchUtxoView(s, ~IsRegTxTreeKnownDisapproved(s.mp, Tip(s.chain)))
        origins == {o[1] : o \in Ins(t) \ {Stakebase}} \cup {t}
        inPool == {x \in origins \cap DOMAIN s.mp.pool : view \cap Outs(x) = {}}
    IN  view \cup UNION {Outs(x) : x \in inPool}

\* Mutant: conflicts within the pool are let in.
MutCheckPoolDoubleSpend(m, t) == Type[t] = "revocation" /\ t \in DOMAIN m.pool

\* The transaction would be too much against what is in the pool.
CheckPoolDoubleSpend(m, t) ==
    CASE Type[t] = "vote" ->
            Cardinality({x \in DOMAIN m.pool : Type[x] = "vote" /\ Inputs[x][2] = Inputs[t][2]})
                > MaxVoteDoubleSpends
      [] Type[t] = "revocation" ->
            \E x \in DOMAIN m.pool : Type[x] = "revocation" /\ Inputs[x][1] = Inputs[t][1]
      [] OTHER -> Ins(t) \cap DOMAIN m.outpoints # {}

IsExpired(t, height) == Expiry[t] # 0 /\ height >= Expiry[t]

\* The transaction alone cannot be in the next block, or is not relayed.
Unacceptable(s, t) ==
    LET next == BestHeight(s) + 1 IN
    \/ t \in Unfit
    \/ IsExpired(t, next)
    \/ Type[t] = "vote" /\ next < StakeValidationHeight
    \/ Type[t] = "revocation" /\ next < StakeValidationHeight + 1
    \/ Type[t] = "ticket" /\ Price[t] < StakeDiff[Tip(s.chain)]

\* maybeAcceptTransaction: the new state and "accepted", "missing" (an orphan),
\* "duplicate" (an error isDoubleSpendOrDuplicateError is true of) or "error".  The
\* rate limiter refuses the free transactions limited.
MaybeAcceptTransaction(s, t, limited, rejectDupOrphans) ==
    LET view == FetchInputUtxos(s, t)
        spent == Ins(t) \ {Stakebase}
        result(r) == [s |-> s, res |-> r]
    IN  IF t \in DOMAIN s.mp.pool \/ (rejectDupOrphans /\ t \in s.mp.orphans)
        THEN result("duplicate")
        ELSE IF Unacceptable(s, t) THEN result("error")
        ELSE IF CheckPoolDoubleSpend(s.mp, t) THEN result("duplicate")
        ELSE IF Type[t] = "vote" /\ Height[VoteOn[t].block] + VoteAge < BestHeight(s) + 1
        THEN result("error")
        ELSE IF view \cap Outs(t) # {} THEN result("duplicate")
        ELSE IF \E o \in spent : ~\E p \in view : p[1] = o[1] THEN result("missing")
        ELSE IF ~(spent \subseteq view) THEN result("duplicate")
        ELSE IF t \in BadInputs \cup limited THEN result("error")
        ELSE [s |-> [s EXCEPT !.mp = AddTransaction(@, t, BestHeight(s)),
                              !.past = IF IsRegTxTreeKnownDisapproved(s.mp, Tip(s.chain))
                                       THEN @ \cup {"against votes"} ELSE @],
              res |-> "accepted"]

\* What processOrphans makes of the result r of maybeAcceptTransaction for the orphan
\* t: go on, or stop with the orphan accepted or, with what redeems it, removed.
AfterOrphan(x, t, r) ==
    CASE r.res = "missing" -> x
      [] r.res = "accepted" ->
            [s |-> [r.s EXCEPT !.mp = RemoveOrphan(@, t, FALSE)],
             stop |-> TRUE, new |-> Append(x.new, t)]
      [] OTHER ->
            [s |-> [x.s EXCEPT !.mp = RemoveOrphan(@, t, TRUE)], stop |-> TRUE, new |-> x.new]

\* The orphans ts that redeem one output, in turn, until one of them is accepted or
\* is in error.
TryOrphans(x0, ts, limited) ==
    LET try(x, t) == IF x.stop THEN x
                     ELSE AfterOrphan(x, t, MaybeAcceptTransaction(x.s, t, limited, FALSE))
    IN  FoldLeft(try, [x0 EXCEPT !.stop = FALSE], ts)

\* The orphans that redeem the outputs of the transaction t: the accepted ones are new.
RedeemOutputs(s, t, c) ==
    LET redeem(x, o) ==
            TryOrphans(x, InOrder(c.order, Get(x.s.mp.orphansByPrev, o, {})), c.limited)
    IN  FoldLeft(redeem, [s |-> s, stop |-> FALSE, new |-> <<>>],
                 [i \in 1..Outputs[t] |-> <<t, i>>])

RECURSIVE AcceptOrphans(_, _, _)
\* The loop of processOrphans: list is its processList, and what it has accepted so
\* far is done.
AcceptOrphans(x, list, c) ==
    LET next(r) == AcceptOrphans([s |-> r.s, done |-> x.done \o r.new], Tail(list) \o r.new, c)
    IN  IF list = <<>> THEN x ELSE next(RedeemOutputs(x.s, Head(list), c))

\* processOrphans.
ProcessOrphans(s, t, c) ==
    LET finish(x) == [x.s EXCEPT !.mp = FoldLeft(RemoveOrphanDoubleSpends, @, <<t>> \o x.done)]
    IN  finish(AcceptOrphans([s |-> s, done |-> <<>>], <<t>>, c))

\* Mutant: the evicted orphan stays in orphansByPrev.
MutAddOrphanLinked(m, t, order) ==
    LET full == Cardinality(m.orphans) >= MaxOrphanTxs
        gone == IF full THEN {Head(InOrder(order, m.orphans))} ELSE {}
    IN  [m EXCEPT !.orphans = (@ \ gone) \cup {t},
                  !.orphansByPrev = [o \in Ins(t) |-> Get(@, o, {}) \cup {t}] @@ @]

\* addOrphan: a random orphan makes room.
AddOrphan(m, t, order) ==
    LET m1 == IF Cardinality(m.orphans) < MaxOrphanTxs THEN m
              ELSE RemoveOrphan(m, Head(InOrder(order, m.orphans)), FALSE)
    IN  IF MaxOrphanTxs = 0 THEN m
        ELSE [m1 EXCEPT !.orphans = @ \cup {t},
                        !.orphansByPrev =
                            [o \in Ins(t) |-> Get(m1.orphansByPrev, o, {}) \cup {t}] @@ @]

\* maybeAddOrphan.
MaybeAddOrphan(m, t, order) == IF t \in Large THEN m ELSE AddOrphan(m, t, order)

\* The transaction is in a tree of the chain that was not disapproved.
Mined(c, t) ==
    \E i \in DOMAIN c :
       \/ t \in ToSet(Stake[c[i]])
       \/ t \in ToSet(Regular[c[i]]) /\ (i < Len(c) => ApprovesParent[c[i + 1]])

\* ProcessTransaction.
ProcessTransaction(s, t, allowOrphan, rateLimit, c) ==
    LET r == MaybeAcceptTransaction(s, t, IF rateLimit THEN c.limited ELSE {}, TRUE)
    IN  CASE r.res = "accepted" -> ProcessOrphans(r.s, t, c)
          [] r.res = "missing" /\ allowOrphan ->
                [s EXCEPT !.mp = MaybeAddOrphan(@, t, c.order),
                          !.past = IF Mined(s.chain, t) THEN @ \cup {"mined again"} ELSE @]
          [] OTHER -> s

(***************************************************************************)
(* Following the chain.                                                    *)
(***************************************************************************)

\* Mutant: a mined transaction stays in the pool.
MutConnectedTx(s, t, c) ==
    ProcessOrphans([s EXCEPT !.mp = RemoveOrphan(RemoveDoubleSpends(@, t), t, FALSE)], t, c)


\* handleConnectedBlockTxns, for one transaction.
ConnectedTx(s, t, c) ==
    LET m1 == RemoveTransaction(s.mp, t, FALSE)
        m2 == RemoveDoubleSpends(m1, t)
        m3 == RemoveOrphan(m2, t, FALSE)
    IN  ProcessOrphans([s EXCEPT !.mp = m3], t, c)

\* handleDisconnectedBlockTxns, and the transactions of a disapproved block.
ReturnedTx(s, t, c) ==
    LET r == MaybeAcceptTransaction(s, t, c.limited, TRUE)
    IN  IF r.res = "error" THEN [s EXCEPT !.mp = RemoveTransaction(@, t, TRUE)] ELSE r.s

\* A block is connected, and handleNotifyMsg receives NTBlockConnected.
ConnectBlock(s, b, c) ==
    LET s1 == [s EXCEPT !.chain = Append(@, b), !.utxos = ConnectUtxos(@, b), !.pruned = FALSE,
                        !.past = IF ApprovesParent[b] THEN @ ELSE @ \cup {"disapproval"}]
        s2 == FoldLeft(LAMBDA x, t : ConnectedTx(x, t, c), s1, Regular[b] \o Stake[b])
    IN  IF ApprovesParent[b] THEN s2
        ELSE FoldLeft(LAMBDA x, t : ReturnedTx(x, t, c), s2, Regular[Parent[b]])

\* The tip is disconnected, and handleNotifyMsg receives NTBlockDisconnected.
DisconnectBlock(s, c) ==
    LET b == Tip(s.chain)
        s1 == [s EXCEPT !.chain = Front(@), !.utxos = DisconnectUtxos(@, b), !.pruned = FALSE]
        s2 == IF ApprovesParent[b] THEN s1
              ELSE FoldLeft(LAMBDA x, t : ConnectedTx(x, t, c), s1, Regular[Parent[b]])
    IN  FoldLeft(LAMBDA x, t : ReturnedTx(x, t, c), s2, Regular[b] \o Stake[b])

\* Mutant: tickets below the new price stay.
MutPruned(s, t) ==
    LET added == s.mp.pool[t]  best == BestHeight(s)  IN
    \/ Type[t] = "ticket" /\ added + PruneTicket < best
    \/ Type[t] \in {"vote", "revocation"} /\ added + PruneVotes < best
    \/ IsExpired(t, best + 1)

\* What PruneStakeTx and PruneExpiredTx remove from the pool.
Pruned(s, t) ==
    LET added == s.mp.pool[t]  best == BestHeight(s)  IN
    \/ Type[t] = "ticket" /\ (added + PruneTicket < best \/ Price[t] < StakeDiff[Tip(s.chain)])
    \/ Type[t] \in {"vote", "revocation"} /\ added + PruneVotes < best
    \/ IsExpired(t, best + 1)

Prune(s, c) ==
    LET gone == InOrder(c.order, {t \in DOMAIN s.mp.pool : Pruned(s, t)})
    IN  [s EXCEPT !.mp = FoldLeft(LAMBDA m, t : RemoveTransaction(m, t, TRUE), @, gone),
                  !.pruned = TRUE]

RECURSIVE Branch(_)
Branch(b) == IF b = Base THEN <<>> ELSE Append(Branch(Parent[b]), b)

\* reorganizeChainInternal, between two branches without bad blocks.
ReorganizeChainInternal(from, to) ==
    LET fork == Len(LongestCommonPrefix({from, to}))
        each(op, blocks) == [i \in DOMAIN blocks |-> <<op, blocks[i]>>]
    IN  each("disconnect", Reverse(SubSeq(from, fork + 1, Len(from))))
          \o each("connect", SubSeq(to, fork + 1, Len(to)))

\* reorganizeChain to the tip b: when a block of the branch fails, what is connected by
\* then is disconnected again and the old branch comes back.  A block that extends the
\* tip is checked before anything is done.
ReorganizeChain(from, b) ==
    LET bad == SelectInSeq(Branch(b), LAMBDA x : x \in Bad)
        sound == SubSeq(Branch(b), 1, bad - 1)
    IN  IF bad = 0
        THEN [ops |-> ReorganizeChainInternal(from, Branch(b)), chain |-> Branch(b), err |-> FALSE]
        ELSE [ops |-> IF Parent[b] = Tip(from) THEN <<>>
                      ELSE ReorganizeChainInternal(from, sound)
                             \o ReorganizeChainInternal(sound, from),
              chain |-> from, err |-> TRUE]

\* The block has more work than the tip: once accepted, its fork length is zero.
MoreWork(b, c) == Height[b] > Height[Tip(c)]

\* maybeAcceptBlock: what the blocks so far do to the chain is r.
MaybeAcceptBlock(r, b) ==
    IF r.err \/ ~MoreWork(b, r.chain) THEN r
    ELSE [ReorganizeChain(r.chain, b) EXCEPT !.ops = r.ops \o @]

(***************************************************************************)
(* Steps of blockHandler.                                                  *)
(***************************************************************************)

State == [chain |-> chain, utxos |-> utxos, mp |-> mp, past |-> past, pruned |-> pruned]
Becomes(s) == /\ chain' = s.chain /\ utxos' = s.utxos /\ mp' = s.mp
              /\ past' = s.past /\ pruned' = s.pruned

\* What the call meets: an order of iteration, what the rate limiter refuses.
Circumstances == [order : Orders, limited : SUBSET Free]

\* A transaction message of a peer.
HandleTxMsg(t) ==
    /\ todo = <<>> /\ UNCHANGED todo
    /\ \E c \in Circumstances : Becomes(ProcessTransaction(State, t, TRUE, TRUE, c))

\* A transaction sent through RPC.
SendRawTransaction(t) ==
    /\ todo = <<>> /\ UNCHANGED todo
    /\ \E c \in Circumstances : Becomes(ProcessTransaction(State, t, FALSE, FALSE, c))

\* A block b arrives whose parent is known, hence has no more work than the main chain,
\* with a line of orphans behind it that ends in the block end.  The handler prunes the
\* pool when b itself, not an orphan, has become the tip and nothing failed after it.
ProcessBlock(b, end) ==
    /\ todo = <<>>
    /\ b # Base /\ b \notin ToSet(chain) /\ ~MoreWork(Parent[b], chain)
    /\ b \in ToSet(Branch(end))
    /\ LET line == SelectSeq(Branch(end), LAMBDA x : Height[x] >= Height[b])
           r == FoldLeft(MaybeAcceptBlock, [ops |-> <<>>, chain |-> chain, err |-> FALSE], line)
       IN  /\ r.ops # <<>>
           /\ todo' = IF MoreWork(b, chain) /\ ~r.err THEN Append(r.ops, <<"prune", b>>) ELSE r.ops
    /\ UNCHANGED <<chain, utxos, mp, past, pruned>>

\* ForceHeadReorganization to a sibling of the tip.
ForceReorganization(b) ==
    /\ todo = <<>>
    /\ b # Base /\ chain # <<>> /\ b # Tip(chain) /\ Parent[b] = Parent[Tip(chain)]
    /\ LET r == ReorganizeChain(chain, b)
       IN  todo' = IF r.err THEN r.ops ELSE Append(r.ops, <<"prune", b>>)
    /\ UNCHANGED <<chain, utxos, mp, past, pruned>>

\* What happens to the pool with the next block of a change of the chain, or after it.
FollowChain ==
    /\ todo # <<>> /\ todo' = Tail(todo)
    /\ LET op == Head(todo)[1]  b == Head(todo)[2]  IN
       \E c \in Circumstances :
          \/ op = "disconnect" /\ Becomes(DisconnectBlock(State, c))
          \/ op = "connect" /\ Becomes(ConnectBlock(State, b, c))
          \/ op = "prune" /\ Becomes(Prune(State, c))

Next ==
    \/ \E t \in Tx : HandleTxMsg(t) \/ SendRawTransaction(t)
    \/ \E b, end \in Block : ProcessBlock(b, end)
    \/ \E b \in Block : ForceReorganization(b)
    \/ FollowChain

Spec == Init /\ [][Next]_vars

(***************************************************************************)
(* Properties.                                                             *)
(***************************************************************************)

Pool == DOMAIN mp.pool

\* Types of the pool's maps; limitNumOrphans keeps the orphan pool within its limit,
\* and no transaction is both in the pool and an orphan.
TypeOK ==
    /\ chain \in Seq(Block \ {Base}) /\ utxos \subseteq Outpoint
    /\ Pool \subseteq Tx
    /\ mp.orphans \subseteq Tx \ Pool
    /\ Cardinality(mp.orphans) <= MaxOrphanTxs
    /\ DOMAIN mp.votes \subseteq Block

SpendsAlone(t) == Type[t] \in {"regular", "ticket"}

\* The map of outpoints is the record of what the pool spends: every entry is an
\* input of a transaction of the pool, and every input of a regular transaction
\* or a ticket is there, so that no two of them spend the same output.
SpendIndex ==
    /\ \A o \in DOMAIN mp.outpoints : mp.outpoints[o] \in Pool /\ o \in Ins(mp.outpoints[o])
    /\ \A t \in Pool : SpendsAlone(t) =>
          \A o \in Ins(t) : o \in DOMAIN mp.outpoints /\ mp.outpoints[o] = t

\* orphansByPrev is the inverse of the inputs of the orphans, whatever
\* combination of recursive removals, evictions and acceptances came before, and
\* the orphans stay within maxOrphanTxs.
OrphanIndex ==
    /\ Cardinality(mp.orphans) <= MaxOrphanTxs
    /\ \A o \in DOMAIN mp.orphansByPrev : mp.orphansByPrev[o] # {}
    /\ \A o \in Outpoint :
          Get(mp.orphansByPrev, o, {}) = {t \in mp.orphans : o \in Ins(t)}

\* The two maps that addTransaction, removeTransaction, addOrphan and removeOrphan
\* maintain by hand beside the pool and the orphans are exact.
MapsExact == SpendIndex /\ OrphanIndex

Available == utxos \cup UNION {Outs(t) : t \in Pool}

\* Every input of a transaction of the pool is an output of the main chain or of
\* another transaction of the pool.  Votes and revocations of one ticket may be in
\* the pool together, so the rest stay when one is mined, until they are pruned.
PoolInputsAvailable == \A t \in Pool : SpendsAlone(t) => Ins(t) \subseteq Available


\* handleNotifyMsg does not remove what depends on a transaction of a disapproved
\* block that is a double spend now, because "anything that happens to be in the pool which depends on the
\* transaction is still valid".
DependentsStayValid == past \subseteq {"disapproval"} => PoolInputsAvailable

\* PruneStakeTx and PruneExpiredTx run only when the block handed in has become the
\* tip and no orphan behind it failed.  Then, whatever maybeAcceptTransaction let in at
\* the tips in between, the pool has no transaction that expires before the next block
\* and no ticket below its price, and it stays so until the chain changes again.
PoolMinable ==
    pruned => \A t \in Pool : /\ ~IsExpired(t, BestHeight(State) + 1)
                             /\ Type[t] = "ticket" => Price[t] >= StakeDiff[Tip(chain)]

\* A block takes from the pool what it has mined: no transaction of the main chain
\* is in the pool, unless the votes made the view forget it.
PoolNotMined == "against votes" \notin past => \A t \in Pool : ~Mined(chain, t)

\* The pool holds candidates for the next block: what handleNotifyMsg and the two
\* prunes leave in it is not mined, and once pruned not expired and not below the
\* ticket price.
PoolCandidates == PoolMinable /\ PoolNotMined


=============================================================================
