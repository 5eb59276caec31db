------------------------------- MODULE MCSync -------------------------------
(* Small instances of Sync: a chain of five blocks with two checkpoints, and *)
(* a branch of two blocks that forks off below the second.                   *)
EXTENDS Sync

CONSTANTS p1, p2

Tree == {"g", "b1", "b2", "b3", "b4", "b5", "f2", "f3"}
TreeParent == [b \in Tree \ {"g"} |->
                 CASE b = "b1" -> "g" [] b = "b2" -> "b1" [] b = "b3" -> "b2" [] b = "b4" -> "b3"
                   [] b = "b5" -> "b4" [] b = "f2" -> "b1" [] b = "f3" -> "f2"]
TreeHeight == [b \in Tree |->
                 CASE b = "g" -> 0 [] b = "b1" -> 1 [] b \in {"b2", "f2"} -> 2
                   [] b \in {"b3", "f3"} -> 3 [] b = "b4" -> 4 [] b = "b5" -> 5]
TreeAnc == LET A[b \in Tree] == {b} \cup IF b = "g" THEN {} ELSE A[TreeParent[b]] IN A

\* The second peer is on the branch, past the height of the second checkpoint.
OneOnFork == [p \in Peers |-> IF p = p1 THEN <<"b1", "b2", "b3", "b4", "b5">>
                              ELSE <<"b1", "f2", "f3">>]

AtOneAndThree == <<"b1", "b3">>
=============================================================================
