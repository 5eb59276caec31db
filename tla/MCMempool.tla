----------------------------- MODULE MCMempool -----------------------------
(* Small instances of Mempool.                                              *)
EXTENDS Mempool

Stakebase0 == <<"stakebase", 0>>

\* a and c spend the same output; b spends the output of a, k and e those of b.
\* v and w are votes of one ticket, r its revocation.
Txs == {"a", "b", "c", "e", "v", "w", "r", "k"}
TxOrder == <<"a", "b", "c", "e", "v", "w", "r", "k">>
BothOrders == {TxOrder, Reverse(TxOrder)}
Votes == {"v", "w"}
TxType == [t \in Txs |-> CASE t \in Votes -> "vote" [] t = "k" -> "ticket"
                           [] t = "r" -> "revocation" [] OTHER -> "regular"]
TxInputs == [t \in Txs |->
    CASE t \in {"a", "c"} -> <<<<"x", 1>>>>
      [] t = "b" -> <<<<"a", 1>>>>
      [] t \in {"v", "w"} -> <<Stakebase0, <<"y", 1>>>>
      [] t = "r" -> <<<<"y", 1>>>>
      [] t = "k" -> <<<<"b", 1>>>>
      [] t = "e" -> <<<<"b", 2>>>>]
TxOutputs == [t \in Txs |-> IF t = "b" THEN 2 ELSE 1]
TxExpiry == [t \in Txs |-> IF t = "e" THEN 4 ELSE 0]
TxPrice == [t \in Txs |-> 1]
TxVoteOn == [t \in Votes |-> CASE t = "v" -> [block |-> "b1", approves |-> TRUE]
                              [] t = "w" -> [block |-> "b1", approves |-> FALSE]]

\* Two branches, both of which mine a and b.  The first forks at b2x and b2z, which
\* disapprove b1, the second ends in b3y or in the bad block b3w.
Blocks == {"b0", "b1", "b2", "b3", "b2x", "b2z", "b1y", "b2y", "b3y", "b3w"}
BlockParent == [b \in Blocks \ {"b0"} |->
    CASE b \in {"b1", "b1y"} -> "b0" [] b \in {"b2", "b2x", "b2z"} -> "b1"
      [] b = "b3" -> "b2" [] b = "b2y" -> "b1y" [] b \in {"b3y", "b3w"} -> "b2y"]
BlockHeight == [b \in Blocks |->
    CASE b = "b0" -> 0 [] b \in {"b1", "b1y"} -> 1 [] b \in {"b2", "b2x", "b2y", "b2z"} -> 2
      [] OTHER -> 3]
BlockRegular == [b \in Blocks |->
    CASE b = "b1" -> <<"a">> [] b = "b2" -> <<"b">> [] b = "b2x" -> <<"c">>
      [] b = "b2y" -> <<"a", "b">> [] OTHER -> <<>>]
BlockStake == [b \in Blocks |-> CASE b = "b2" -> <<"v">> [] b \in {"b2x", "b2z"} -> <<"w">> [] OTHER -> <<>>]
BlockApproves == [b \in Blocks |-> b \notin {"b2x", "b2z"}]
BlockStakeDiff == [b \in Blocks |-> IF b \in {"b2y", "b3y"} THEN 2 ELSE 1]
Utxos == {<<"x", 1>>, <<"y", 1>>, <<"z", 1>>}
=============================================================================
