---------------------------- MODULE MCBlockChain ----------------------------
(***************************************************************************)
(* Instances of BlockChain for TLC.  Each block tree is given by the parent *)
(* of its blocks; ancestors and work are computed from it.                  *)
(***************************************************************************)
EXTENDS BlockChain, TLC

CONSTANTS g, a1, a2, b1, b2, b3, c2, c3

(* g - a1 - a2                                                              *)
(*   \ b1 - b2 - b3                                                         *)
(*       \ c2 - c3                                                          *)
BushParent == (g :> g) @@ (a1 :> g) @@ (a2 :> a1) @@ (b1 :> g) @@ (b2 :> b1)
                @@ (b3 :> b2) @@ (c2 :> b1) @@ (c3 :> c2)

(* g - a1 - a2                                                              *)
(*   \ b1 - c2 - c3                                                         *)
TwigParent == (g :> g) @@ (a1 :> g) @@ (a2 :> a1) @@ (b1 :> g) @@ (c2 :> b1) @@ (c3 :> c2)

(* The ancestors of a block, itself included. *)
AncOf(parent) ==
    LET A[b \in DOMAIN parent] == IF parent[b] = b THEN {b} ELSE {b} \cup A[parent[b]]
    IN  A

(* Every block has the same work. *)
WorkOf(parent) == [b \in DOMAIN parent |-> Cardinality(AncOf(parent)[b])]

BushAnc == AncOf(BushParent)
BushWork == WorkOf(BushParent)
TwigAnc == AncOf(TwigParent)
TwigWork == WorkOf(TwigParent)

NoneMisplaced == [f \in BOOLEAN |-> {}]

(* The contextual checks refuse b1 unless BFFastAdd skips them. *)
UnlessFast == [f \in BOOLEAN |-> IF f THEN {} ELSE {b1}]
=============================================================================
