----------------------------- MODULE DurableStore -----------------------------
(***************************************************************************)
(* What package database promises the code above it, BlockChain among it:   *)
(* one write transaction at a time, applied as a whole or not at all, and   *)
(* made durable in order.  After a crash the store holds the state some     *)
(* committed transaction left, and never a part of one; nothing else takes  *)
(* a committed transaction back.                                            *)
(***************************************************************************)
CONSTANTS
    Item,       \* what can be stored: keys and blocks
    Datum,      \* the values of keys, and the data of a stored block
    Keep,       \* marks an item a transaction does not mention
    None        \* marks an absent item

VARIABLES
    committed,  \* [Item -> Datum \cup {None}]: what the next transaction sees
    durable,    \* [Item -> Datum \cup {None}]: what a crash leaves
    pending,    \* [Item -> Datum \cup {None, Keep}]: the open transaction
    up          \* the database is open

vars == <<committed, durable, pending, up>>

Nothing == [i \in Item |-> Keep]

Update(store, changes) == [i \in Item |-> IF changes[i] = Keep THEN store[i] ELSE changes[i]]

Init ==
    /\ committed = [i \in Item |-> None]
    /\ durable = committed
    /\ pending = Nothing
    /\ up = TRUE

Write(i, d) ==
    /\ up
    /\ pending' = [pending EXCEPT ![i] = d]
    /\ UNCHANGED <<committed, durable, up>>

Commit ==
    /\ up
    /\ committed' = Update(committed, pending)
    /\ pending' = Nothing
    /\ UNCHANGED <<durable, up>>

(* A transaction that is written through, after everything before it. *)
CommitThrough ==
    /\ up
    /\ durable = committed
    /\ committed' = Update(committed, pending)
    /\ durable' = committed'
    /\ pending' = Nothing
    /\ UNCHANGED up

Abort ==
    /\ up
    /\ pending' = Nothing
    /\ UNCHANGED <<committed, durable, up>>

Flush ==
    /\ up
    /\ durable' = committed
    /\ UNCHANGED <<committed, pending, up>>

(* A crash, or Close, which may fail to flush. *)
Stop ==
    /\ up
    /\ up' = FALSE
    /\ committed' = durable
    /\ pending' = Nothing
    /\ UNCHANGED durable

Start ==
    /\ ~up
    /\ up' = TRUE
    /\ UNCHANGED <<committed, durable, pending>>

Next ==
    \/ \E i \in Item, d \in Datum \cup {None} : Write(i, d)
    \/ Commit
    \/ CommitThrough
    \/ Abort
    \/ Flush
    \/ Stop
    \/ Start

Spec == Init /\ [][Next]_vars
=============================================================================
