---------------------------- MODULE MCIndexers ----------------------------
(* Small instances of Indexers.                                            *)
EXTENDS Indexers

\* A branch of three blocks with a transaction that spends another, a fork of it
\* that has the first transaction again, and a branch from the genesis block.
Blocks == {"g", "a1", "a2", "d2", "b1"}
BlockParent == [b \in Blocks \ {"g"} |-> IF b \in {"a2", "d2"} THEN "a1" ELSE "g"]
BlockHeight == [b \in Blocks |-> IF b = "g" THEN 0 ELSE IF b \in {"a2", "d2"} THEN 2 ELSE 1]
BlockAnc == [b \in Blocks |-> {"g", b} \cup IF b \in {"a2", "d2"} THEN {"a1"} ELSE {}]
BlockTxs == [b \in Blocks |->
    CASE b = "a1" -> {"s"} [] b = "a2" -> {"t"} [] b = "d2" -> {"s"} [] OTHER -> {"u"}]
SomeTxs == {"s", "t", "u"}
TxSpends == [t \in SomeTxs |-> IF t = "t" THEN {"s"} ELSE {}]
SomeConfigs == {{}, {"tx"}, {"tx", "addr", "cf"}}
=============================================================================
