--------------------------- MODULE MCStakeTickets ---------------------------
(***************************************************************************)
(* A small block tree for StakeTickets: a chain of six blocks, a fork of   *)
(* two at height 5 and a fork of two at height 1.                          *)
(***************************************************************************)
EXTENDS StakeTickets

Blocks == {"g", "a1", "a2", "a3", "a4", "a5", "a6", "b5", "b6", "c1", "c2"}
BlockParent ==
    [a1 |-> "g", a2 |-> "a1", a3 |-> "a2", a4 |-> "a3", a5 |-> "a4", a6 |-> "a5",
     b5 |-> "a4", b6 |-> "b5", c1 |-> "g", c2 |-> "c1"]
\* Expiry comes soon: of the first tickets one expires at height 4.
BlockPurchases ==
    [g |-> <<>>, a1 |-> <<1, 2, 3, 4>>, a2 |-> <<5, 6>>, a3 |-> <<9, 8, 7>>,
     a4 |-> <<10, 11, 12, 13>>, a5 |-> <<14, 15>>, a6 |-> <<>>, b5 |-> <<16, 14>>, b6 |-> <<>>,
     c1 |-> <<2>>, c2 |-> <<>>]
\* Two of three winners vote, or all of them do.
BlockVoted ==
    [g |-> <<>>, a1 |-> <<>>, a2 |-> <<>>, a3 |-> <<>>, a4 |-> <<3, 2>>, a5 |-> <<7, 9>>,
     a6 |-> <<12, 10>>, b5 |-> <<9, 8, 7>>, b6 |-> <<10, 13>>, c1 |-> <<>>, c2 |-> <<>>]
\* Revocations of tickets that were missed and of tickets that expired.
BlockRevoked ==
    [g |-> <<>>, a1 |-> <<>>, a2 |-> <<>>, a3 |-> <<>>, a4 |-> <<>>, a5 |-> <<1, 4>>,
     a6 |-> <<8, 5>>, b5 |-> <<4>>, b6 |-> <<6>>, c1 |-> <<>>, c2 |-> <<>>]
BlockIV ==
    [g |-> 0, a1 |-> 0, a2 |-> 0, a3 |-> 1, a4 |-> 2, a5 |-> 0, a6 |-> 1, b5 |-> 3, b6 |-> 2,
     c1 |-> 0, c2 |-> 0]

=============================================================================
